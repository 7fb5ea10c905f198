----------------------------- MODULE SourcesProofs -----------------------------
(***************************************************************************)
(* What the requests of module Sources keep, for any number of users,      *)
(* sources and names.                                                      *)
(***************************************************************************)
EXTENDS Sources, TLAPS

-----------------------------------------------------------------------------
(* What holds however requests overlap.                                    *)

Creating == {"createToken", "create"}
Paging   == {"page", "names", "readToken", "writeToken", "update", "delete"}

\* What a request that began on a page has when it comes to a stage: the configuration
\* it stores, a page that allowed the removal of the token, or a source that is gone.
Ready(stage, r) ==
  /\ stage \in {"names", "update"} => r.draft # Absent
  /\ stage = "delete" => r.token = "delete"
  /\ stage \in {"readToken", "writeToken"} =>
       /\ r.token = "remove" => r.saw.mode # "access-token"
       /\ r.token = "delete" => r.id \in gone
       /\ r.token \in {"keep", "replace"} => r.draft # Absent

\* A user who does something does it to a source, and is ready for it.
Prepared ==
  \A u \in Users :
    /\ pc[u] # "idle" => req[u].id \in Ids
    /\ pc[u] \in Creating => req[u].draft # Absent
    /\ Ready(pc[u], req[u])

\* A source that is being created is known to nobody else.
NewIsUnknown ==
  \A u \in Users : pc[u] \in Creating =>
    /\ config[req[u].id] = Absent /\ req[u].id \notin gone
    /\ \A v \in Users \ {u} : req[v].id # req[u].id

\* Nothing is left of a deleted source that a page could be current for.
GoneIsGone == \A i \in gone : config[i] = Absent /\ pages[i] = {}

\* A page is about a source that exists or existed, and if it holds the current
\* version it shows the stored configuration.
PageIsTrue ==
  \A u \in Users : pc[u] \in Paging =>
    /\ config[req[u].id] # Absent \/ req[u].id \in gone
    /\ UpToDate(u) => req[u].saw = config[req[u].id]

\* A token without a source is one of a source that is being created or was deleted.
OrphanIsKnown ==
  \A i \in Ids :
    token[i] # Absent /\ config[i] = Absent =>
      i \in gone \/ \E u \in Users : pc[u] = "create" /\ req[u].id = i

Inv == TypeOK /\ Prepared /\ NewIsUnknown /\ GoneIsGone /\ PageIsTrue /\ OrphanIsKnown

LEMMA NoRequestIsRequest ==
  /\ NoRequest \in Request
  /\ NoRequest.id = Absent /\ NoRequest.draft = Absent /\ NoRequest.token = "keep"
  BY DEF Request, NoRequest

LEMMA InitInv == Init => Inv
  BY NoRequestIsRequest
     DEF Init, Inv, TypeOK, Prepared, Ready, NewIsUnknown, GoneIsGone, PageIsTrue, OrphanIsKnown,
         Creating, Paging, Stages

\* What Goto does to each user.
LEMMA Going ==
  ASSUME TypeOK, NEW u \in Users, NEW stage \in Stages, Goto(u, stage)
  PROVE  /\ pc'[u] = stage
         /\ req'[u] = IF stage = "idle" THEN NoRequest ELSE req[u]
         /\ \A v \in Users \ {u} : pc'[v] = pc[v] /\ req'[v] = req[v]
         /\ pc' \in [Users -> Stages] /\ req' \in [Users -> Request]
  BY NoRequestIsRequest DEF TypeOK, Goto

LEMMA GoingWith ==
  ASSUME TypeOK, NEW u \in Users, NEW stage \in Stages, NEW r \in Request, GotoWith(u, stage, r)
  PROVE  /\ pc'[u] = stage
         /\ req'[u] = r
         /\ \A v \in Users \ {u} : pc'[v] = pc[v] /\ req'[v] = req[v]
         /\ pc' \in [Users -> Stages] /\ req' \in [Users -> Request]
  BY DEF TypeOK, GotoWith

\* The part of the invariant that speaks of stages and requests.
Local == Prepared /\ NewIsUnknown /\ GoneIsGone /\ PageIsTrue

\* A user who is finished leaves the invariant as it is, if the stored configurations
\* and pages are.
LEMMA Finished ==
  ASSUME Inv, NEW u \in Users, Goto(u, "idle"), UNCHANGED <<config, gone, pages>>
  PROVE  Local' /\ pc' \in [Users -> Stages] /\ req' \in [Users -> Request]
  <1>1. "idle" \in Stages
    BY DEF Stages
  <1>2. /\ pc'[u] = "idle" /\ req'[u] = NoRequest
        /\ \A v \in Users \ {u} : pc'[v] = pc[v] /\ req'[v] = req[v]
        /\ pc' \in [Users -> Stages] /\ req' \in [Users -> Request]
    BY <1>1, Going DEF Inv
  <1>3. QED
    BY <1>2, NoRequestIsRequest, SourcesAssumption
       DEF Inv, Local, Prepared, Ready, NewIsUnknown, GoneIsGone, PageIsTrue, UpToDate, Creating, Paging

\* A page whose request goes on.
LEMMA GoesOn ==
  ASSUME Inv, NEW u \in Users, NEW stage \in Paging \ {"page"}, NEW r \in Request,
         pc[u] \in Paging, r.id = req[u].id, r.saw = req[u].saw, Ready(stage, r),
         pc' = [pc EXCEPT ![u] = stage], req' = [req EXCEPT ![u] = r], UNCHANGED <<config, gone, pages>>
  PROVE  /\ Local' /\ pc' \in [Users -> Stages] /\ req' \in [Users -> Request]
         /\ pc'[u] = stage /\ req'[u] = r
         /\ \A v \in Users \ {u} : pc'[v] = pc[v] /\ req'[v] = req[v]
  <1>1. stage \in Stages /\ TypeOK
    BY DEF Stages, Paging, Inv
  <1>2. /\ pc'[u] = stage /\ req'[u] = r
        /\ \A v \in Users \ {u} : pc'[v] = pc[v] /\ req'[v] = req[v]
        /\ pc' \in [Users -> Stages] /\ req' \in [Users -> Request]
    BY <1>1 DEF TypeOK
  <1>3. Prepared'
    BY <1>2 DEF Inv, Prepared, Ready, Paging, Creating
  <1>4. NewIsUnknown'
    BY <1>2 DEF Inv, NewIsUnknown, Paging, Creating
  <1>5. PageIsTrue' /\ GoneIsGone'
    BY <1>2 DEF Inv, PageIsTrue, GoneIsGone, UpToDate
  <1>6. QED
    BY <1>2, <1>3, <1>4, <1>5 DEF Local

LEMMA StepLocal ==
  ASSUME Inv, NEW u \in Users, Browse(u) \/ Submit(u) \/ Continue(u), overlapped' \in BOOLEAN
  PROVE  TypeOK' /\ Local'
  <1> DEFINE Goal == TypeOK' /\ Local'
  <1>t. TypeOK
    BY DEF Inv
  \* The draft of whoever stores one is there.
  <1>d. ASSUME pc' \in [Users -> Stages], req' \in [Users -> Request], Local',
               \A v \in Users : pc'[v] \in {"create", "names", "update"} => req'[v].draft # Absent,
               config' \in [Ids -> Configurations \cup {Absent}], gone' \subseteq Ids, pages' \in [Ids -> SUBSET Users],
               token' \in [Ids -> Users \cup {Absent}], holders' \in [Ids -> SUBSET Users]
        PROVE  Goal
    BY <1>d DEF TypeOK
  <1>r. /\ req[u] \in Request /\ pc[u] \in Stages
        /\ pc[u] # "idle" => req[u].id \in Ids
    BY DEF Inv, TypeOK, Prepared
  \* A request that is finished and stored at most a token.
  <1>f. ASSUME Goto(u, "idle"), UNCHANGED <<config, gone, pages>>, token' \in [Ids -> Users \cup {Absent}],
               holders' \in [Ids -> SUBSET Users]
        PROVE  Goal
    <2>1. Local' /\ pc' \in [Users -> Stages] /\ req' \in [Users -> Request]
      BY <1>f, Finished
    <2>2. \A v \in Users : pc'[v] \in {"create", "names", "update"} => pc'[v] = pc[v] /\ req'[v] = req[v]
      <3>1. "idle" \in Stages
        BY DEF Stages
      <3>2. QED
        BY <1>f, <1>t, <3>1, Going
    <2>3. QED
      BY <1>d, <1>f, <1>t, <2>1, <2>2 DEF TypeOK
  \* A request that goes on and stores at most a token.
  <1>g. ASSUME NEW stage \in Paging \ {"page"}, NEW r \in Request,
               pc[u] \in Paging, r.id = req[u].id, r.saw = req[u].saw, Ready(stage, r),
               pc' = [pc EXCEPT ![u] = stage], req' = [req EXCEPT ![u] = r],
               UNCHANGED <<config, gone, pages>>, token' \in [Ids -> Users \cup {Absent}],
               holders' \in [Ids -> SUBSET Users]
        PROVE  Goal
    <2>1. /\ Local' /\ pc' \in [Users -> Stages] /\ req' \in [Users -> Request]
          /\ pc'[u] = stage /\ req'[u] = r
          /\ \A v \in Users \ {u} : pc'[v] = pc[v] /\ req'[v] = req[v]
      BY <1>g, GoesOn
    <2>2. \A v \in Users : pc'[v] \in {"create", "names", "update"} => req'[v].draft # Absent
      BY <1>g, <1>t, <2>1 DEF TypeOK, Ready, Paging
    <2>3. QED
      BY <1>d, <1>g, <1>t, <2>1, <2>2 DEF TypeOK
  <1>1. ASSUME NEW i \in Ids, Open(u, i) PROVE Goal
    <2> DEFINE r == [NoRequest EXCEPT !.id = i, !.saw = config[i]]
    <2>1. r \in Request /\ r.id = i /\ r.saw = config[i] /\ r.draft = Absent /\ r.token = "keep"
      BY <1>t DEF Request, NoRequest, TypeOK
    <2>2. pc[u] = "idle" /\ config[i] # Absent /\ GotoWith(u, "page", r) /\ UNCHANGED <<config, gone, token, holders>>
          /\ pages' = [pages EXCEPT ![i] = @ \cup {u}]
      BY <1>1 DEF Open, Existing
    <2>3. "page" \in Stages
      BY DEF Stages
    <2> HIDE DEF r
    <2>4. /\ pc'[u] = "page" /\ req'[u] = r
          /\ \A v \in Users \ {u} : pc'[v] = pc[v] /\ req'[v] = req[v]
          /\ pc' \in [Users -> Stages] /\ req' \in [Users -> Request]
      BY <1>t, <2>1, <2>2, <2>3, GoingWith
    <2>5. /\ pages' \in [Ids -> SUBSET Users]
          /\ \A v \in Users \ {u}, j \in Ids : v \in pages'[j] <=> v \in pages[j]
      BY <1>t, <2>2 DEF TypeOK
    <2>6. Prepared'
      BY <2>1, <2>2, <2>4 DEF Inv, Prepared, Ready, Creating
    <2>7. NewIsUnknown'
      BY <2>1, <2>2, <2>4 DEF Inv, NewIsUnknown, Creating
    <2>8. PageIsTrue' /\ GoneIsGone'
      <3>1. i \notin gone /\ GoneIsGone'
        BY <1>t, <2>2 DEF Inv, GoneIsGone, TypeOK
      <3>2. PageIsTrue'
        BY <2>1, <2>2, <2>4, <2>5, <3>1 DEF Inv, PageIsTrue, Prepared, UpToDate, Paging
      <3>3. QED
        BY <3>1, <3>2
    <2>9. \A v \in Users : pc'[v] \in {"create", "names", "update"} => req'[v].draft # Absent
      BY <1>t, <2>4 DEF TypeOK
    <2>10. QED
      BY <1>d, <1>t, <2>2, <2>4, <2>5, <2>6, <2>7, <2>8, <2>9 DEF Local, TypeOK
  <1>2. ASSUME NEW i \in Ids, NEW c \in Configurations, Create(u, i, c) PROVE Goal
    <2> DEFINE r == [NoRequest EXCEPT !.id = i, !.draft = c]
               stage == IF c.mode = "access-token" THEN "createToken" ELSE "create"
    <2>1. r \in Request /\ r.id = i /\ r.draft = c /\ r.token = "keep" /\ c # Absent
      BY SourcesAssumption DEF Request, NoRequest
    <2>2. stage \in Stages /\ stage \in Creating
      BY DEF Stages, Creating
    <2>3. /\ config[i] = Absent /\ i \notin gone /\ \A v \in Users : req[v].id # i
          /\ GotoWith(u, stage, r) /\ UNCHANGED <<config, gone, pages, token, holders>>
      BY <1>2 DEF Create, Existing, stored
    <2> HIDE DEF r, stage
    <2>4. /\ pc'[u] = stage /\ req'[u] = r
          /\ \A v \in Users \ {u} : pc'[v] = pc[v] /\ req'[v] = req[v]
          /\ pc' \in [Users -> Stages] /\ req' \in [Users -> Request]
      BY <1>t, <2>1, <2>2, <2>3, GoingWith
    <2>5. Prepared'
      BY <2>1, <2>2, <2>3, <2>4 DEF Inv, Prepared, Ready, Creating
    <2>6. NewIsUnknown'
      BY <2>1, <2>2, <2>3, <2>4 DEF Inv, NewIsUnknown, Creating
    <2>7. PageIsTrue' /\ GoneIsGone'
      BY <2>2, <2>3, <2>4 DEF Inv, PageIsTrue, GoneIsGone, UpToDate, Paging, Creating
    <2>8. \A v \in Users : pc'[v] \in {"create", "names", "update"} => req'[v].draft # Absent
      BY <1>t, <2>1, <2>4 DEF TypeOK
    <2>9. QED
      BY <1>d, <1>t, <2>3, <2>4, <2>5, <2>6, <2>7, <2>8 DEF Local, TypeOK
  <1>3. ASSUME Stale(u) PROVE Goal
    BY <1>3, <1>f, <1>t DEF Stale, stored, TypeOK
  <1>4. ASSUME Act(u) PROVE Goal
    <2>1. /\ pc[u] = "page" /\ UpToDate(u) /\ UNCHANGED <<config, gone, pages, token, holders>>
          /\ \/ GotoWith(u, "update", [req[u] EXCEPT !.draft = req[u].saw])
             \/ Goto(u, "idle")
      BY <1>4 DEF Act, stored
    <2>2. CASE GotoWith(u, "update", [req[u] EXCEPT !.draft = req[u].saw])
      <3> DEFINE r == [req[u] EXCEPT !.draft = req[u].saw]
      <3>1. r \in Request /\ r.id = req[u].id /\ r.saw = req[u].saw /\ r.draft = req[u].saw
        BY <1>r DEF Request
      <3>2. req[u].saw # Absent
        BY <2>1 DEF Inv, PageIsTrue, GoneIsGone, UpToDate, Paging
      <3>3. pc' = [pc EXCEPT ![u] = "update"] /\ req' = [req EXCEPT ![u] = r]
        BY <2>2 DEF GotoWith
      <3> HIDE DEF r
      <3>4. "update" \in Paging \ {"page"} /\ pc[u] \in Paging
        BY <2>1 DEF Paging
      <3>5. QED
        BY <1>g, <1>t, <2>1, <3>1, <3>2, <3>3, <3>4 DEF TypeOK, Ready
    <2>3. QED
      BY <1>f, <1>t, <2>1, <2>2 DEF TypeOK
  <1>5. ASSUME Remove(u) PROVE Goal
    <2>1. /\ pc[u] = "page" /\ UNCHANGED <<config, gone, pages, token, holders>>
          /\ IF MayRemove(req[u].saw)
             THEN GotoWith(u, "readToken", [req[u] EXCEPT !.token = "remove"])
             ELSE Goto(u, "idle")
      BY <1>5 DEF Remove, stored
    <2>2. CASE MayRemove(req[u].saw)
      <3> DEFINE r == [req[u] EXCEPT !.token = "remove"]
      <3>1. r \in Request /\ r.id = req[u].id /\ r.saw = req[u].saw /\ r.token = "remove"
        BY <1>r DEF Request
      <3>2. req[u].saw.mode # "access-token"
        BY <2>2 DEF MayRemove
      <3>3. pc' = [pc EXCEPT ![u] = "readToken"] /\ req' = [req EXCEPT ![u] = r]
        BY <2>1, <2>2 DEF GotoWith
      <3> HIDE DEF r
      <3>4. "readToken" \in Paging \ {"page"} /\ pc[u] \in Paging
        BY <2>1 DEF Paging
      <3>5. QED
        BY <1>g, <1>t, <2>1, <3>1, <3>2, <3>3, <3>4 DEF TypeOK, Ready
    <2>3. QED
      BY <1>f, <1>t, <2>1, <2>2 DEF TypeOK
  <1>6. ASSUME NEW c \in Configurations, NEW change \in {"keep", "replace"}, Put(u, c, change)
        PROVE  Goal
    <2> DEFINE r == [req[u] EXCEPT !.draft = c, !.token = change]
    <2>1. r \in Request /\ r.id = req[u].id /\ r.saw = req[u].saw /\ r.draft = c /\ c # Absent
      BY <1>r, SourcesAssumption DEF Request
    <2>2. pc' = [pc EXCEPT ![u] = "names"] /\ req' = [req EXCEPT ![u] = r]
          /\ pc[u] = "page" /\ UNCHANGED <<config, gone, pages, token, holders>>
      BY <1>6 DEF Put, GotoWith, stored
    <2> HIDE DEF r
    <2>3. "names" \in Paging \ {"page"} /\ pc[u] \in Paging
      BY <2>2 DEF Paging
    <2>4. QED
      BY <1>g, <1>t, <2>1, <2>2, <2>3 DEF TypeOK, Ready
  <1>7. ASSUME CreateToken(u) PROVE Goal
    <2>1. /\ pc[u] = "createToken" /\ token' = [token EXCEPT ![req[u].id] = u]
          /\ Goto(u, "create") /\ UNCHANGED <<config, gone, pages, holders>> /\ "create" \in Stages
      BY <1>7 DEF CreateToken, Stages
    <2>2. /\ pc'[u] = "create" /\ req'[u] = req[u]
          /\ \A v \in Users \ {u} : pc'[v] = pc[v] /\ req'[v] = req[v]
          /\ pc' \in [Users -> Stages] /\ req' \in [Users -> Request]
      BY <1>t, <2>1, Going
    <2>3. Prepared'
      BY <2>1, <2>2 DEF Inv, Prepared, Ready, Creating
    <2>4. NewIsUnknown'
      BY <2>1, <2>2 DEF Inv, NewIsUnknown, Creating
    <2>5. PageIsTrue' /\ GoneIsGone'
      BY <2>1, <2>2 DEF Inv, PageIsTrue, GoneIsGone, UpToDate, Paging
    <2>6. \A v \in Users : pc'[v] \in {"create", "names", "update"} => req'[v].draft # Absent
      BY <1>t, <2>1, <2>2 DEF TypeOK, Inv, Prepared, Creating
    <2>7. QED
      BY <1>d, <1>t, <2>1, <2>2, <2>3, <2>4, <2>5, <2>6 DEF Local, TypeOK
  <1>8. ASSUME CreateSource(u) PROVE Goal
    <2>1. /\ pc[u] = "create" /\ config' = [config EXCEPT ![req[u].id] = req[u].draft]
          /\ Goto(u, "idle") /\ UNCHANGED <<gone, pages, token, holders>> /\ "idle" \in Stages
      BY <1>8 DEF CreateSource, Stages
    <2>2. /\ pc'[u] = "idle" /\ req'[u] = NoRequest
          /\ \A v \in Users \ {u} : pc'[v] = pc[v] /\ req'[v] = req[v]
          /\ pc' \in [Users -> Stages] /\ req' \in [Users -> Request]
      BY <1>t, <2>1, Going
    <2>3. /\ \A v \in Users \ {u} : req[v].id # req[u].id
          /\ \A j \in Ids : j # req[u].id => config'[j] = config[j]
          /\ config' \in [Ids -> Configurations \cup {Absent}] /\ req[u].id \notin gone
      BY <1>t, <1>r, <2>1 DEF Inv, NewIsUnknown, Creating, TypeOK, Request
    <2>4. Prepared'
      BY <2>1, <2>2 DEF Inv, Prepared, Ready, Creating
    <2>5. NewIsUnknown'
      BY <1>r, <2>1, <2>2, <2>3, NoRequestIsRequest, SourcesAssumption DEF Inv, NewIsUnknown, Prepared, Creating
    <2>6. PageIsTrue' /\ GoneIsGone'
      BY <1>t, <2>1, <2>2, <2>3 DEF Inv, PageIsTrue, GoneIsGone, Prepared, UpToDate, Paging, TypeOK
    <2>7. \A v \in Users : pc'[v] \in {"create", "names", "update"} => req'[v].draft # Absent
      BY <1>t, <2>2 DEF TypeOK
    <2>8. QED
      BY <1>d, <1>t, <2>1, <2>2, <2>3, <2>4, <2>5, <2>6, <2>7 DEF Local, TypeOK
  <1>9. ASSUME CreateFails(u) PROVE Goal
    <2>1. token' \in [Ids -> Users \cup {Absent}]
      BY <1>9, <1>t DEF CreateFails, TypeOK
    <2>2. QED
      BY <1>9, <1>f, <1>t, <2>1 DEF CreateFails, TypeOK
  \* A request that goes on as it is.
  <1>k. ASSUME NEW stage \in Paging \ {"page"}, Goto(u, stage), pc[u] \in Paging,
               Ready(stage, req[u]), UNCHANGED <<config, gone, pages>>, token' \in [Ids -> Users \cup {Absent}],
               holders' \in [Ids -> SUBSET Users]
        PROVE  Goal
    <2>1. pc' = [pc EXCEPT ![u] = stage] /\ req' = [req EXCEPT ![u] = req[u]]
      BY <1>k, <1>t DEF Goto, Paging, TypeOK
    <2>2. QED
      BY <1>k, <1>r, <1>g, <2>1
  <1>10. ASSUME CheckNames(u) PROVE Goal
    <2>1. /\ pc[u] = "names" /\ UNCHANGED <<config, gone, pages, token, holders>>
          /\ \/ Goto(u, "idle")
             \/ Goto(u, "readToken") /\ req[u].token = "replace"
             \/ Goto(u, "update")
      BY <1>10 DEF CheckNames, stored
    <2>2. req[u].draft # Absent /\ pc[u] \in Paging
      BY <1>t, <2>1 DEF TypeOK, Paging
    <2>3. {"readToken", "update"} \subseteq Paging \ {"page"}
      BY DEF Paging
    <2>4. QED
      BY <1>f, <1>k, <1>t, <2>1, <2>2, <2>3 DEF TypeOK, Ready
  <1>a. Ready(pc[u], req[u])
    BY DEF Inv, Prepared
  <1>11. ASSUME ReadToken(u) PROVE Goal
    <2>1. /\ pc[u] = "readToken" /\ UNCHANGED <<config, gone, pages, token>>
          /\ \/ Goto(u, "idle") /\ UNCHANGED holders
             \/ Goto(u, "writeToken") /\ holders' = [holders EXCEPT ![req[u].id] = @ \cup {u}]
      BY <1>11 DEF ReadToken
    <2>2. holders' \in [Ids -> SUBSET Users]
      BY <1>t, <1>r, <2>1 DEF TypeOK
    <2>3. "writeToken" \in Paging \ {"page"} /\ pc[u] \in Paging
      BY <2>1 DEF Paging
    <2>4. QED
      BY <1>f, <1>k, <1>a, <1>t, <2>1, <2>2, <2>3 DEF TypeOK, Ready
  <1>12. ASSUME WriteToken(u) PROVE Goal
    <2>1. /\ pc[u] = "writeToken" /\ UNCHANGED <<config, gone, pages>>
          /\ \/ Goto(u, "idle")
             \/ Goto(u, "update") /\ req[u].token \in {"keep", "replace"}
          /\ token' \in [Ids -> Users \cup {Absent}] /\ holders' \in [Ids -> SUBSET Users]
      BY <1>12, <1>t, <1>r DEF WriteToken, Removes, TypeOK, Request
    <2>2. "update" \in Paging \ {"page"} /\ pc[u] \in Paging
      BY <2>1 DEF Paging
    <2>3. QED
      BY <1>f, <1>k, <1>a, <2>1, <2>2 DEF Ready
  <1>13. ASSUME Update(u) PROVE Goal
    <2>1. /\ pc[u] = "update" /\ config' = [config EXCEPT ![req[u].id] = req[u].draft]
          /\ pages' = [pages EXCEPT ![req[u].id] = {}]
          /\ Goto(u, "idle") /\ UNCHANGED <<gone, token, holders>> /\ "idle" \in Stages
      BY <1>13 DEF Update, Stages
    <2>2. /\ pc'[u] = "idle" /\ req'[u] = NoRequest
          /\ \A v \in Users \ {u} : pc'[v] = pc[v] /\ req'[v] = req[v]
          /\ pc' \in [Users -> Stages] /\ req' \in [Users -> Request]
      BY <1>t, <2>1, Going
    <2>3. /\ \A j \in Ids : j # req[u].id => config'[j] = config[j] /\ pages'[j] = pages[j]
          /\ config'[req[u].id] # Absent /\ pages'[req[u].id] = {} /\ config[req[u].id] # Absent
          /\ req[u].id \notin gone
          /\ config' \in [Ids -> Configurations \cup {Absent}] /\ pages' \in [Ids -> SUBSET Users]
      BY <1>13, <1>t, <1>r, <2>1 DEF Update, Inv, PageIsTrue, GoneIsGone, UpToDate, Paging, TypeOK, Request
    <2>4. Prepared'
      BY <2>1, <2>2 DEF Inv, Prepared, Ready, Creating
    <2>5. NewIsUnknown'
      BY <1>r, <2>1, <2>2, <2>3, NoRequestIsRequest, SourcesAssumption DEF Inv, NewIsUnknown, Prepared, Creating
    <2>6. PageIsTrue' /\ GoneIsGone'
      BY <1>t, <2>1, <2>2, <2>3 DEF Inv, PageIsTrue, GoneIsGone, Prepared, UpToDate, Paging, TypeOK
    <2>7. \A v \in Users : pc'[v] \in {"create", "names", "update"} => req'[v].draft # Absent
      BY <1>t, <2>2 DEF TypeOK
    <2>8. QED
      BY <1>d, <1>t, <2>1, <2>2, <2>3, <2>4, <2>5, <2>6, <2>7 DEF Local, TypeOK
  <1>14. ASSUME UpdateRefused(u) PROVE Goal
    BY <1>14, <1>f, <1>t DEF UpdateRefused, stored, TypeOK
  <1>15. ASSUME Delete(u) PROVE Goal
    <2>1. /\ pc[u] = "page" /\ UNCHANGED <<config, gone, pages, token, holders>>
          /\ \/ GotoWith(u, "delete", [req[u] EXCEPT !.token = "delete"])
             \/ Goto(u, "idle")
      BY <1>15 DEF Delete, stored
    <2>2. CASE GotoWith(u, "delete", [req[u] EXCEPT !.token = "delete"])
      <3> DEFINE r == [req[u] EXCEPT !.token = "delete"]
      <3>1. r \in Request /\ r.id = req[u].id /\ r.saw = req[u].saw /\ r.token = "delete"
        BY <1>r DEF Request
      <3>2. pc' = [pc EXCEPT ![u] = "delete"] /\ req' = [req EXCEPT ![u] = r]
        BY <2>2 DEF GotoWith
      <3> HIDE DEF r
      <3>3. "delete" \in Paging \ {"page"} /\ pc[u] \in Paging
        BY <2>1 DEF Paging
      <3>4. QED
        BY <1>g, <1>t, <2>1, <3>1, <3>2, <3>3 DEF TypeOK, Ready
    <2>3. QED
      BY <1>f, <1>t, <2>1, <2>2 DEF TypeOK
  <1>16. ASSUME DeleteSource(u) PROVE Goal
    <2>1. /\ pc[u] = "delete" /\ config' = [config EXCEPT ![req[u].id] = Absent]
          /\ gone' = gone \cup {req[u].id} /\ pages' = [pages EXCEPT ![req[u].id] = {}]
          /\ Goto(u, "readToken") /\ UNCHANGED <<token, holders>> /\ "readToken" \in Stages
      BY <1>16 DEF DeleteSource, Stages
    <2>2. /\ pc'[u] = "readToken" /\ req'[u] = req[u] /\ req[u].token = "delete"
          /\ \A v \in Users \ {u} : pc'[v] = pc[v] /\ req'[v] = req[v]
          /\ pc' \in [Users -> Stages] /\ req' \in [Users -> Request]
      BY <1>t, <2>1, Going DEF Inv, Prepared, Ready
    <2>3. /\ \A j \in Ids : j # req[u].id => config'[j] = config[j] /\ pages'[j] = pages[j]
          /\ config'[req[u].id] = Absent /\ pages'[req[u].id] = {} /\ req[u].id \in Ids
          /\ config' \in [Ids -> Configurations \cup {Absent}] /\ pages' \in [Ids -> SUBSET Users]
          /\ gone' \subseteq Ids
      BY <1>t, <1>r, <2>1 DEF TypeOK
    <2>4. Prepared'
      BY <2>1, <2>2 DEF Inv, Prepared, Ready, Creating
    <2>5. NewIsUnknown'
      BY <1>r, <2>1, <2>2, <2>3 DEF Inv, NewIsUnknown, Prepared, Creating
    <2>6. PageIsTrue' /\ GoneIsGone'
      BY <1>t, <2>1, <2>2, <2>3 DEF Inv, PageIsTrue, GoneIsGone, Prepared, UpToDate, Paging, TypeOK
    <2>7. \A v \in Users : pc'[v] \in {"create", "names", "update"} => req'[v].draft # Absent
      BY <1>t, <2>2 DEF TypeOK
    <2>8. QED
      BY <1>d, <1>t, <2>1, <2>2, <2>3, <2>4, <2>5, <2>6, <2>7 DEF Local, TypeOK
  <1>17. ASSUME DeleteRefused(u) PROVE Goal
    BY <1>17, <1>f, <1>t DEF DeleteRefused, stored, TypeOK
  <1>18. QED
    BY <1>1, <1>2, <1>3, <1>4, <1>5, <1>6, <1>7, <1>8, <1>9, <1>10, <1>11, <1>12, <1>13, <1>14,
       <1>15, <1>16, <1>17
       DEF Browse, Submit, Continue

\* Only create() stores a token before its source, and it ends with the source or
\* without the token; and only the token of a deleted source is replaced without it.
LEMMA StepTokens == ASSUME Inv, NEW u \in Users, Browse(u) \/ Submit(u) \/ Continue(u)
                    PROVE  OrphanIsKnown'
  <1> USE DEF Inv, TypeOK, Prepared, Ready, NewIsUnknown, GoneIsGone, PageIsTrue, OrphanIsKnown, NoRequest, Creating, Paging,
              Goto, GotoWith, stored
  <1>1. ASSUME NEW i \in Ids, Open(u, i) PROVE OrphanIsKnown'
    BY <1>1 DEF Open
  <1>2. ASSUME NEW i \in Ids, NEW c \in Configurations, Create(u, i, c) PROVE OrphanIsKnown'
    BY <1>2 DEF Create
  <1>3. ASSUME Stale(u) \/ Act(u) \/ Remove(u) \/ Delete(u) PROVE OrphanIsKnown'
    BY <1>3 DEF Stale, Act, Remove, Delete
  <1>4. ASSUME NEW c \in Configurations, NEW change \in {"keep", "replace"}, Put(u, c, change)
        PROVE  OrphanIsKnown'
    BY <1>4 DEF Put
  <1>5. ASSUME CreateToken(u) PROVE OrphanIsKnown'
    BY <1>5 DEF CreateToken
  <1>6. ASSUME CreateSource(u) PROVE OrphanIsKnown'
    BY <1>6 DEF CreateSource
  <1>7. ASSUME CreateFails(u) PROVE OrphanIsKnown'
    BY <1>7 DEF CreateFails
  <1>8. ASSUME CheckNames(u) \/ ReadToken(u) PROVE OrphanIsKnown'
    BY <1>8 DEF CheckNames, ReadToken
  <1>9. ASSUME WriteToken(u) PROVE OrphanIsKnown'
    BY <1>9 DEF WriteToken
  <1>10. ASSUME Update(u) \/ UpdateRefused(u) PROVE OrphanIsKnown'
    BY <1>10 DEF Update, UpdateRefused
  <1>11. ASSUME DeleteSource(u) \/ DeleteRefused(u) PROVE OrphanIsKnown'
    BY <1>11 DEF DeleteSource, DeleteRefused
  <1>12. QED
    BY <1>1, <1>2, <1>3, <1>4, <1>5, <1>6, <1>7, <1>8, <1>9, <1>10, <1>11 DEF Browse, Submit, Continue

LEMMA NextInv == Inv /\ [Next]_vars => Inv'
  <1> SUFFICES ASSUME Inv, [Next]_vars PROVE Inv'
    OBVIOUS
  <1>1. CASE Next
    <2>1. PICK u \in Users : Browse(u) \/ Submit(u) \/ Continue(u)
      BY <1>1 DEF Next, Step
    <2>2. overlapped' \in BOOLEAN
      BY <1>1 DEF Next, Inv, TypeOK
    <2>3. QED
      BY <2>1, <2>2, StepLocal, StepTokens DEF Inv, Local
  <1>2. CASE UNCHANGED vars
    BY <1>2 DEF vars, stored, Inv, TypeOK, Prepared, Ready, NewIsUnknown, GoneIsGone, PageIsTrue,
                OrphanIsKnown, UpToDate
  <1>3. QED
    BY <1>1, <1>2

\* The inductive invariant holds in every schedule.
THEOREM Invariance == Spec => []Inv
  BY InitInv, NextInv, PTL DEF Spec

\* Each variable of the requests keeps its type.
THEOREM TypeCorrect == Spec => []TypeOK
  <1>1. Inv => TypeOK
    BY DEF Inv
  <1>2. QED
    BY <1>1, Invariance, PTL

\* An update or a deletion replaces only the configuration that its page showed,
\* however requests overlap.
THEOREM UpdatesAreNotLost == Spec => NoLostUpdate
  <1> DEFINE Shown == \A i \in Existing : config'[i] # config[i] =>
                        \E u \in Users : pc[u] \in {"update", "delete"} /\ req[u].id = i /\ req[u].saw = config[i]
  <1>1. Inv /\ [Next]_vars => [Shown]_vars
    <2> SUFFICES ASSUME Inv, Next PROVE Shown
      OBVIOUS
    <2>1. PICK u \in Users : Browse(u) \/ Submit(u) \/ Continue(u)
      BY DEF Next, Step
    <2>2. CASE CreateSource(u)
      BY <2>2 DEF CreateSource, Inv, TypeOK, NewIsUnknown, Creating, Existing
    <2>3. CASE Update(u)
      BY <2>3 DEF Update, Inv, TypeOK, PageIsTrue, Paging, Existing
    <2>4. CASE DeleteSource(u)
      BY <2>4 DEF DeleteSource, Inv, TypeOK, PageIsTrue, Paging, Existing
    <2>5. CASE ~CreateSource(u) /\ ~Update(u) /\ ~DeleteSource(u)
      <3>1. UNCHANGED config
        BY <2>1, <2>5 DEF Browse, Submit, Continue, Open, Create, Stale, Act, Remove, Delete, Put, CreateToken,
                          CreateFails, CheckNames, ReadToken, WriteToken, UpdateRefused, DeleteRefused, stored
      <3>2. QED
        BY <3>1
    <2>6. QED
      BY <2>2, <2>3, <2>4, <2>5
  <1>2. QED
    BY <1>1, Invariance, PTL DEF Spec, NoLostUpdate
-----------------------------------------------------------------------------
(* What holds while requests are served one after the other.               *)

\* What was checked about a configuration still holds when it is stored.
Checked(u) ==
  \/ pc[u] \in Creating \cup {"update"}
  \/ (pc[u] \in {"readToken", "writeToken"} /\ ~Removes(u))

\* The source is deleted, and its token is still to be removed.
Erasing(u) == pc[u] \in {"readToken", "writeToken"} /\ req[u].token = "delete"

\* The request will not be refused.
Orderly(u) ==
  /\ pc[u] \in Paging \ {"page"} => UpToDate(u) \/ Erasing(u)
  /\ pc[u] = "writeToken" => u \in holders[req[u].id]
  /\ Checked(u) => IsUnique(req[u].draft, req[u].id)

OrphanIsCaredFor ==
  \A i \in Ids : token[i] # Absent /\ config[i] = Absent => \E u \in Users : CaresFor(u, i)

Calm ==
  /\ ~Overlapping
  /\ \A u \in Users : Orderly(u)
  /\ \A i, j \in Existing : config[i].name = config[j].name => i = j
  /\ OrphanIsCaredFor

SerialInv == Inv /\ (~overlapped => Calm)

LEMMA InitSerialInv == Init => SerialInv
  BY InitInv DEF Init, SerialInv, Calm, Orderly, OrphanIsCaredFor, Checked, Overlapping, Served, Paging, Creating, Existing

\* A step is taken by one user, and only requests that are served take anything away.
LEMMA OneMoves ==
  ASSUME Inv, NEW u \in Users, Browse(u) \/ Submit(u) \/ Continue(u)
  PROVE  /\ \A v \in Users \ {u} : pc'[v] = pc[v] /\ req'[v] = req[v]
         /\ Served(u) \/ (UNCHANGED <<config, token, holders>> /\ \A i \in Ids : pages[i] \subseteq pages'[i])
  <1>t. pc \in [Users -> Stages] /\ req \in [Users -> Request] /\ pages \in [Ids -> SUBSET Users]
    BY DEF Inv, TypeOK
  <1>g. \A stage : Goto(u, stage) => \A v \in Users \ {u} : pc'[v] = pc[v] /\ req'[v] = req[v]
    BY <1>t DEF Goto
  <1>w. \A stage, r : GotoWith(u, stage, r) => \A v \in Users \ {u} : pc'[v] = pc[v] /\ req'[v] = req[v]
    BY <1>t DEF GotoWith
  <1>1. CASE Browse(u)
    BY <1>1, <1>w, <1>t DEF Browse, Open, Served
  <1>2. CASE Submit(u)
    BY <1>2, <1>g, <1>w DEF Submit, Create, Stale, Act, Remove, Delete, Put, stored
  <1>3. CASE Continue(u)
    BY <1>3, <1>g
       DEF Continue, CreateToken, CreateSource, CreateFails, CheckNames, ReadToken, WriteToken, Update,
           UpdateRefused, DeleteSource, DeleteRefused, Served
  <1>4. QED
    BY <1>1, <1>2, <1>3

\* The request of u itself.
LEMMA OwnRequest ==
  ASSUME Inv, Calm, NEW u \in Users, Browse(u) \/ Submit(u) \/ Continue(u)
  PROVE  Orderly(u)'
  <1> DEFINE Goal == Orderly(u)'
  <1>t. /\ TypeOK /\ pc \in [Users -> Stages] /\ req \in [Users -> Request]
        /\ req[u] \in Request
    BY DEF Inv, TypeOK
  <1>c. /\ pc[u] \in Paging \ {"page"} => UpToDate(u) \/ Erasing(u)
        /\ pc[u] = "writeToken" => u \in holders[req[u].id]
        /\ Checked(u) => IsUnique(req[u].draft, req[u].id)
        /\ \A i, j \in Existing : config[i].name = config[j].name => i = j
    BY DEF Calm, Orderly
  \* A user who is done, or only looks at a page.
  <1>i. ASSUME pc'[u] \in {"idle", "page"}
        PROVE  Goal
    BY <1>i DEF Orderly, Checked, Paging, Creating
  \* A request that passed its checks, or needs none.
  <1>n. ASSUME pc'[u] \notin {"idle", "page"}, UNCHANGED config, UNCHANGED pages,
               pc'[u] \in Paging => u \in pages[req'[u].id] \/ Erasing(u)',
               pc'[u] = "writeToken" => u \in holders'[req'[u].id],
               \/ pc'[u] \in {"names", "delete"}
               \/ (pc'[u] \in {"readToken", "writeToken"} /\ Removes(u)')
               \/ IsUnique(req'[u].draft, req'[u].id)
        PROVE  Goal
    BY <1>n DEF Orderly, Checked, UpToDate, IsUnique, Existing, Creating
  <1>m. ASSUME NEW stage \in Stages, Goto(u, stage)
        PROVE  pc'[u] = stage /\ req'[u] = IF stage = "idle" THEN NoRequest ELSE req[u]
    BY <1>m, <1>t, Going
  <1>w. ASSUME NEW stage \in Stages, NEW r, GotoWith(u, stage, r)
        PROVE  pc'[u] = stage /\ req'[u] = r
    BY <1>w, <1>t DEF GotoWith
  <1>s. {"idle", "page", "createToken", "create", "names", "readToken", "writeToken", "update",
         "delete"} \subseteq Stages
    BY DEF Stages
  <1>1. CASE Browse(u)
    BY <1>1, <1>w, <1>s, <1>i DEF Browse, Open
  <1>2. ASSUME NEW i \in Ids, NEW c \in Configurations, Create(u, i, c) PROVE Goal
    <2> DEFINE r == [NoRequest EXCEPT !.id = i, !.draft = c]
               stage == IF c.mode = "access-token" THEN "createToken" ELSE "create"
    <2>1. r.id = i /\ r.draft = c /\ stage \in Creating
      BY DEF NoRequest, Creating
    <2>2. GotoWith(u, stage, r) /\ IsUnique(c, i) /\ UNCHANGED <<config, pages>>
      BY <1>2 DEF Create, stored
    <2> HIDE DEF r, stage
    <2>3. pc'[u] = stage /\ req'[u] = r
      BY <1>s, <1>w, <2>1, <2>2 DEF Creating
    <2>4. QED
      BY <1>n, <2>1, <2>2, <2>3 DEF Paging, Creating
  <1>3. ASSUME Stale(u) \/ CreateSource(u) \/ CreateFails(u) \/ Update(u) \/ UpdateRefused(u) \/ DeleteRefused(u)
        PROVE  Goal
    BY <1>3, <1>s, <1>m, <1>i DEF Stale, CreateSource, CreateFails, Update, UpdateRefused, DeleteRefused
  <1>4. ASSUME Act(u) PROVE Goal
    <2>1. /\ UpToDate(u) /\ pc[u] = "page" /\ UNCHANGED <<config, pages>>
          /\ \/ GotoWith(u, "update", [req[u] EXCEPT !.draft = req[u].saw])
             \/ Goto(u, "idle")
      BY <1>4 DEF Act, stored
    <2>2. CASE GotoWith(u, "update", [req[u] EXCEPT !.draft = req[u].saw])
      <3>1. pc'[u] = "update" /\ req'[u].id = req[u].id /\ req'[u].draft = req[u].saw
        BY <1>s, <1>t, <1>w, <2>2 DEF Request
      <3>2. /\ req[u].saw = config[req[u].id] /\ req[u].id \in Ids /\ u \in pages[req[u].id]
            /\ config[req[u].id] # Absent
        BY <2>1 DEF Inv, PageIsTrue, GoneIsGone, Prepared, Paging, UpToDate
      <3>3. IsUnique(req'[u].draft, req'[u].id)
        BY <1>c, <3>1, <3>2 DEF IsUnique, Existing
      <3>4. QED
        BY <1>n, <2>1, <3>1, <3>2, <3>3
    <2>3. QED
      BY <1>i, <1>m, <1>s, <2>1, <2>2
  <1>5. ASSUME Remove(u) PROVE Goal
    <2>1. /\ UpToDate(u) /\ pc[u] = "page" /\ UNCHANGED <<config, pages>>
          /\ \/ GotoWith(u, "readToken", [req[u] EXCEPT !.token = "remove"])
             \/ Goto(u, "idle")
      BY <1>5 DEF Remove, stored
    <2>2. CASE GotoWith(u, "readToken", [req[u] EXCEPT !.token = "remove"])
      <3>1. pc'[u] = "readToken" /\ req'[u].id = req[u].id /\ req'[u].token = "remove"
        BY <1>s, <1>t, <1>w, <2>2 DEF Request
      <3>2. QED
        BY <1>n, <2>1, <3>1 DEF UpToDate, Removes
    <2>3. QED
      BY <1>i, <1>m, <1>s, <2>1, <2>2
  <1>6. ASSUME NEW c \in Configurations, NEW change \in {"keep", "replace"}, Put(u, c, change)
        PROVE  Goal
    <2>1. pc'[u] = "names" /\ req'[u].id = req[u].id
      BY <1>6, <1>s, <1>t, <1>w DEF Put, Request
    <2>2. UNCHANGED <<config, pages>> /\ u \in pages[req'[u].id]
      BY <1>6, <2>1 DEF Put, stored, UpToDate
    <2>3. QED
      BY <1>n, <2>1, <2>2
  \* A request that goes on as it is.
  <1>k. ASSUME NEW stage \in {"create", "readToken", "writeToken", "update"}, Goto(u, stage),
               UNCHANGED <<config, pages>>,
               stage # "create" => UpToDate(u) \/ (stage \in {"readToken", "writeToken"} /\ req[u].token = "delete"),
               stage = "writeToken" => u \in holders'[req[u].id],
               \/ (stage \in {"readToken", "writeToken"} /\ Removes(u))
               \/ IsUnique(req[u].draft, req[u].id)
        PROVE  Goal
    <2>1. pc'[u] = stage /\ req'[u] = req[u]
      BY <1>k, <1>m, <1>s
    <2>2. QED
      BY <1>k, <1>n, <2>1 DEF UpToDate, Erasing, Removes, Paging
  <1>7. ASSUME CreateToken(u) PROVE Goal
    BY <1>7, <1>k, <1>c DEF CreateToken, Checked, Creating
  <1>8. ASSUME CheckNames(u) PROVE Goal
    <2>1. /\ UpToDate(u) /\ UNCHANGED <<config, pages>>
          /\ \/ Goto(u, "idle")
             \/ IsUnique(req[u].draft, req[u].id) /\ (Goto(u, "readToken") \/ Goto(u, "update"))
      BY <1>8, <1>c DEF CheckNames, Erasing, Paging, stored
    <2>2. QED
      BY <1>i, <1>k, <1>m, <1>s, <2>1
  <1>9. ASSUME ReadToken(u) PROVE Goal
    <2>1. /\ UpToDate(u) \/ req[u].token = "delete"
          /\ UNCHANGED <<config, pages>>
          /\ \/ Goto(u, "idle")
             \/ Goto(u, "writeToken") /\ holders' = [holders EXCEPT ![req[u].id] = @ \cup {u}]
          /\ Removes(u) \/ IsUnique(req[u].draft, req[u].id)
      BY <1>9, <1>c DEF ReadToken, Erasing, Paging, Checked
    <2>2. req[u].id \in Ids /\ holders \in [Ids -> SUBSET Users]
      BY <1>9 DEF ReadToken, Inv, Prepared, TypeOK
    <2>3. QED
      BY <1>i, <1>k, <1>m, <1>s, <2>1, <2>2
  <1>10. ASSUME WriteToken(u) PROVE Goal
    <2>1. /\ UNCHANGED <<config, pages>>
          /\ Goto(u, "idle") \/ (Goto(u, "update") /\ ~Removes(u))
          /\ Removes(u) \/ (UpToDate(u) /\ IsUnique(req[u].draft, req[u].id))
      BY <1>10, <1>c DEF WriteToken, Erasing, Removes, Paging, Checked
    <2>2. QED
      BY <1>i, <1>k, <1>m, <1>s, <2>1
  <1>11. ASSUME Delete(u) PROVE Goal
    <2>1. /\ UpToDate(u) /\ pc[u] = "page" /\ UNCHANGED <<config, pages>>
          /\ \/ GotoWith(u, "delete", [req[u] EXCEPT !.token = "delete"])
             \/ Goto(u, "idle")
      BY <1>11 DEF Delete, stored
    <2>2. CASE GotoWith(u, "delete", [req[u] EXCEPT !.token = "delete"])
      <3>1. pc'[u] = "delete" /\ req'[u].id = req[u].id
        BY <1>s, <1>t, <1>w, <2>2 DEF Request
      <3>2. QED
        BY <1>n, <2>1, <3>1 DEF UpToDate
    <2>3. QED
      BY <1>i, <1>m, <1>s, <2>1, <2>2
  <1>12. ASSUME DeleteSource(u) PROVE Goal
    <2>1. pc'[u] = "readToken" /\ req'[u].token = "delete"
      BY <1>12, <1>m, <1>s DEF DeleteSource, Inv, Prepared, Ready
    <2>2. QED
      BY <2>1 DEF Orderly, Erasing, Checked, Removes, Creating
  <1>13. QED
    BY <1>1, <1>2, <1>3, <1>4, <1>5, <1>6, <1>7, <1>8, <1>9, <1>10, <1>11, <1>12 DEF Submit, Continue

\* Names stay unique: what is stored was checked against what is stored.
LEMMA StepNames ==
  ASSUME Inv, Calm, NEW u \in Users, Browse(u) \/ Submit(u) \/ Continue(u)
  PROVE  (\A i, j \in Existing : config[i].name = config[j].name => i = j)'
  <1>t. /\ config \in [Ids -> Configurations \cup {Absent}]
        /\ pc[u] # "idle" => req[u].id \in Ids
        /\ \A i, j \in Existing : config[i].name = config[j].name => i = j
    BY DEF Inv, TypeOK, Prepared, Calm
  <1>1. CASE CreateSource(u) \/ Update(u)
    <2> DEFINE k == req[u].id
    <2>1. /\ config' = [config EXCEPT ![k] = req[u].draft] /\ k \in Ids
          /\ IsUnique(req[u].draft, k)
      <3>1. pc[u] \in {"create", "update"} /\ config' = [config EXCEPT ![k] = req[u].draft]
        BY <1>1 DEF CreateSource, Update
      <3>2. Checked(u)
        BY <3>1 DEF Checked, Creating
      <3>3. IsUnique(req[u].draft, k)
        BY <3>2 DEF Calm, Orderly
      <3>4. QED
        BY <1>t, <3>1, <3>3
    <2>2. \A j \in Existing \ {k} : config[j].name # config'[k].name
      <3>1. config'[k] = req[u].draft
        BY <1>t, <2>1
      <3>2. QED
        BY <2>1, <3>1 DEF IsUnique
    <2>3. \A j \in Ids : j # k => config'[j] = config[j]
      BY <1>t, <2>1
    <2> HIDE DEF k
    <2>4. QED
      BY <1>t, <2>1, <2>2, <2>3 DEF Existing
  <1>2. CASE DeleteSource(u)
    <2>1. \A j \in Ids : config'[j] = config[j] \/ config'[j] = Absent
      BY <1>2, <1>t DEF DeleteSource
    <2>2. QED
      BY <1>t, <2>1 DEF Existing
  <1>3. CASE ~CreateSource(u) /\ ~Update(u) /\ ~DeleteSource(u)
    <2>1. UNCHANGED config
      BY <1>3 DEF Browse, Submit, Continue, Open, Create, Stale, Act, Remove, Delete, Put, CreateToken,
                  CreateFails, CheckNames, ReadToken, WriteToken, UpdateRefused, DeleteRefused, stored
    <2>2. QED
      BY <1>t, <2>1 DEF Existing
  <1>4. QED
    BY <1>1, <1>2, <1>3

\* Who leaves a token without a source still deals with it.
LEMMA StepOrphans ==
  ASSUME Inv, Calm, NEW u \in Users, Browse(u) \/ Submit(u) \/ Continue(u), ~Overlapping'
  PROVE  OrphanIsCaredFor'
  <1>t. /\ TypeOK /\ pc \in [Users -> Stages] /\ req \in [Users -> Request]
        /\ config \in [Ids -> Configurations \cup {Absent}] /\ token \in [Ids -> Users \cup {Absent}]
        /\ OrphanIsCaredFor /\ Orderly(u)
        /\ pc[u] # "idle" => req[u].id \in Ids
        /\ "create" \in Stages /\ "readToken" \in Stages /\ "writeToken" \in Stages
    BY DEF Inv, TypeOK, Prepared, Calm, Stages
  <1>1. /\ \A v \in Users \ {u} : pc'[v] = pc[v] /\ req'[v] = req[v]
        /\ Served(u) \/ UNCHANGED <<config, token>>
    BY OneMoves
  <1>2. \A v \in Users \ {u}, i \in Ids : CaresFor(v, i)' <=> CaresFor(v, i)
    BY <1>1 DEF CaresFor
  <1>3. \A i \in Ids : CaresFor(u, i) => Served(u)
    BY DEF CaresFor, Served
  <1>4. CASE ~Served(u)
    BY <1>1, <1>2, <1>3, <1>4, <1>t DEF OrphanIsCaredFor
  \* Another source than that of u.
  <1>5. ASSUME Served(u), NEW i \in Ids, token[i] # Absent, config[i] = Absent
        PROVE  CaresFor(u, i)
    <2>1. \A v \in Users \ {u} : ~Served(v)
      BY <1>5 DEF Calm, Overlapping
    <2>2. QED
      BY <1>t, <1>5, <2>1 DEF OrphanIsCaredFor, CaresFor, Served
  <1>6. CASE Served(u)
    <2> SUFFICES ASSUME NEW i \in Ids, token'[i] # Absent, config'[i] = Absent
                 PROVE  CaresFor(u, i)'
      BY DEF OrphanIsCaredFor
    <2>1. CASE CreateToken(u)
      <3>1. pc'[u] = "create" /\ req'[u] = req[u] /\ pc[u] = "createToken"
            /\ token' = [token EXCEPT ![req[u].id] = u] /\ config' = config
        BY <2>1, <1>t, Going DEF CreateToken
      <3>2. ~CaresFor(u, i)
        BY <3>1 DEF CaresFor
      <3>3. QED
        BY <1>5, <1>6, <1>t, <3>1, <3>2 DEF CaresFor
    <2>2. CASE CreateSource(u) \/ CreateFails(u) \/ Update(u)
      <3>1. /\ req[u].id \in Ids /\ pc[u] \in {"create", "update"}
            /\ \/ config' = [config EXCEPT ![req[u].id] = req[u].draft] /\ token' = token
               \/ token' = [token EXCEPT ![req[u].id] = Absent] /\ config' = config
        BY <2>2, <1>t DEF CreateSource, CreateFails, Update
      <3>2. req[u].draft # Absent
        BY <1>t, <3>1 DEF TypeOK
      <3>3. i # req[u].id /\ token[i] # Absent /\ config[i] = Absent
        BY <1>t, <3>1, <3>2
      <3>4. QED
        BY <1>5, <1>6, <3>3 DEF CaresFor
    <2>3. CASE WriteToken(u)
      <3>1. pc[u] = "writeToken" /\ config' = config /\ u \in holders[req[u].id]
            /\ token' = [token EXCEPT ![req[u].id] = IF Removes(u) THEN Absent ELSE u]
        BY <2>3, <1>t DEF WriteToken, Orderly
      <3>2. i = req[u].id
        <4>1. CaresFor(u, i) => i = req[u].id
          BY DEF CaresFor
        <4>2. QED
          BY <1>5, <1>6, <1>t, <3>1, <4>1
      <3>3. ~Removes(u) /\ UpToDate(u)
        BY <1>t, <3>1, <3>2 DEF Orderly, Paging, Erasing, Removes
      <3>4. config[i] # Absent
        BY <3>1, <3>2, <3>3 DEF Inv, PageIsTrue, GoneIsGone, UpToDate, Paging
      <3>5. QED
        BY <3>1, <3>4
    <2>4. CASE DeleteSource(u)
      <3>1. /\ pc'[u] = "readToken" /\ req'[u] = req[u] /\ pc[u] = "delete" /\ req[u].token = "delete"
            /\ config' = [config EXCEPT ![req[u].id] = Absent] /\ token' = token
        BY <2>4, <1>t, Going DEF DeleteSource, Inv, Prepared, Ready
      <3>2. ~CaresFor(u, i)
        BY <3>1 DEF CaresFor
      <3>3. QED
        BY <1>5, <1>6, <1>t, <3>1, <3>2 DEF CaresFor
    <2>5. CASE ReadToken(u)
      <3>1. /\ pc[u] = "readToken" /\ UNCHANGED <<config, token>>
            /\ CaresFor(u, i)
        BY <2>5, <1>5, <1>6 DEF ReadToken
      <3>2. req[u].id = i
        BY <3>1 DEF CaresFor
      <3>3. Goto(u, "writeToken")
        BY <2>5, <3>1, <3>2 DEF ReadToken
      <3>4. QED
        BY <1>t, <3>1, <3>3, Going DEF CaresFor
    <2>6. CASE CheckNames(u) \/ UpdateRefused(u) \/ DeleteRefused(u)
      <3>1. pc[u] \in {"names", "update", "delete"} /\ UNCHANGED <<config, token>>
        BY <2>6 DEF CheckNames, UpdateRefused, DeleteRefused, stored
      <3>2. QED
        BY <1>5, <1>6, <3>1 DEF CaresFor
    <2>7. Continue(u)
      BY <1>6 DEF Served, Browse, Open, Submit, Create, Stale, Act, Remove, Delete, Put
    <2>8. QED
      BY <2>1, <2>2, <2>3, <2>4, <2>5, <2>6, <2>7 DEF Continue
  <1>7. QED
    BY <1>4, <1>6

LEMMA StepCalm ==
  ASSUME Inv, Calm, NEW u \in Users, Browse(u) \/ Submit(u) \/ Continue(u), ~Overlapping'
  PROVE  Calm'
  <1>1. /\ \A v \in Users \ {u} : pc'[v] = pc[v] /\ req'[v] = req[v]
        /\ Served(u) \/ (UNCHANGED <<config, holders>> /\ \A i \in Ids : pages[i] \subseteq pages'[i])
    BY OneMoves
  <1>2. ASSUME NEW v \in Users \ {u}
        PROVE  Orderly(v)'
    <2>1. CASE Served(v)
      <3>1. UNCHANGED <<config, holders>> /\ \A i \in Ids : pages[i] \subseteq pages'[i]
        BY <1>1, <2>1 DEF Calm, Overlapping
      <3>2. pc[v] \in Paging \ {"page"} => req[v].id \in Ids
        BY DEF Inv, Prepared, Paging
      <3>3. QED
        BY <1>1, <3>1, <3>2 DEF Calm, Orderly, UpToDate, Erasing, Checked, Removes, IsUnique, Existing
    <2>2. CASE ~Served(v)
      BY <1>1, <2>2 DEF Served, Orderly, Paging, Checked, Creating
    <2>3. QED
      BY <2>1, <2>2
  <1>3. Orderly(u)'
    BY OwnRequest
  <1>4. (\A i, j \in Existing : config[i].name = config[j].name => i = j)'
    BY StepNames
  <1>5. OrphanIsCaredFor'
    BY StepOrphans
  <1>6. QED
    BY <1>2, <1>3, <1>4, <1>5 DEF Calm

LEMMA SerialNextInv == SerialInv /\ [Next]_vars => SerialInv'
  <1> SUFFICES ASSUME SerialInv, [Next]_vars PROVE SerialInv'
    OBVIOUS
  <1>1. Inv'
    BY NextInv DEF SerialInv
  <1>2. CASE Next
    <2>1. PICK u \in Users : Browse(u) \/ Submit(u) \/ Continue(u)
      BY <1>2 DEF Next, Step
    <2>2. ~overlapped' => ~overlapped /\ ~Overlapping'
      BY <1>2 DEF Next
    <2>3. QED
      BY <1>1, <2>1, <2>2, StepCalm DEF SerialInv
  <1>3. CASE UNCHANGED vars
    BY <1>1, <1>3 DEF vars, stored, SerialInv, Calm, Orderly, OrphanIsCaredFor, CaresFor, Erasing, Removes,
       Checked, UpToDate, IsUnique, Existing, Overlapping, Served
  <1>4. QED
    BY <1>2, <1>3

\* The invariant of requests that were served one after the other so far.
THEOREM SerialInvariance == Spec => []SerialInv
  BY InitSerialInv, SerialNextInv, PTL DEF Spec

\* No token is stored without a source, unless it is about to get one or to go with
\* it, or the source was deleted and requests had overlapped.
THEOREM TokensHaveSources == Spec => []NoOrphanToken
  <1>1. SerialInv => NoOrphanToken
    BY DEF SerialInv, Inv, OrphanIsKnown, Calm, OrphanIsCaredFor, NoOrphanToken, CaresFor
  <1>2. QED
    BY <1>1, SerialInvariance, PTL

\* Connect names are unique as long as requests are served one after the other.
THEOREM UniqueNames == Spec => []NamesUnique
  <1>1. SerialInv => NamesUnique
    BY DEF SerialInv, Calm, NamesUnique
  <1>2. QED
    BY <1>1, SerialInvariance, PTL

\* A token that its source authenticates with is not removed, as long as requests are
\* served one after the other.
THEOREM TokensInUseStay == Spec => TokenInUseIsKept
  <1> DEFINE Kept == \A i \in Existing : token[i] # Absent /\ token'[i] = Absent =>
                       config[i].mode # "access-token" \/ overlapped
  <1>1. SerialInv /\ [Next]_vars => [Kept]_vars
    <2> SUFFICES ASSUME SerialInv, Next, NEW i \in Existing, token[i] # Absent, token'[i] = Absent, ~overlapped
                 PROVE  config[i].mode # "access-token"
      OBVIOUS
    <2>1. PICK u \in Users : Browse(u) \/ Submit(u) \/ Continue(u)
      BY DEF Next, Step
    <2>t. TypeOK /\ i \in Ids /\ config[i] # Absent /\ Absent \notin Users
      BY SourcesAssumption DEF SerialInv, Inv, Existing
    <2>2. CASE CreateToken(u)
      BY <2>2, <2>t DEF CreateToken, TypeOK
    <2>3. CASE CreateFails(u)
      BY <2>3, <2>t DEF CreateFails, TypeOK, SerialInv, Inv, NewIsUnknown, Creating
    <2>4. CASE WriteToken(u)
      <3>1. pc[u] = "writeToken" /\ req[u].id = i /\ Removes(u)
        BY <2>4, <2>t DEF WriteToken, TypeOK
      <3>2. req[u].token = "remove"
        BY <2>t, <3>1 DEF Removes, SerialInv, Inv, Prepared, Ready, GoneIsGone
      <3>3. req[u].saw.mode # "access-token" /\ req[u].saw = config[i]
        BY <3>1, <3>2 DEF SerialInv, Calm, Orderly, Erasing, Inv, Prepared, Ready, PageIsTrue, Paging
      <3>4. QED
        BY <3>3
    <2>5. CASE ~CreateToken(u) /\ ~CreateFails(u) /\ ~WriteToken(u)
      BY <2>1, <2>5 DEF Browse, Submit, Continue, Open, Create, Stale, Act, Remove, Delete, Put, CreateSource,
                        CheckNames, ReadToken, Update, UpdateRefused, DeleteSource, DeleteRefused, stored
    <2>6. QED
      BY <2>2, <2>3, <2>4, <2>5
  <1>2. QED
    BY <1>1, SerialInvariance, PTL DEF Spec, TokenInUseIsKept
-----------------------------------------------------------------------------
(* The requests act like those of a directory.                             *)

\* The stages of a request belong to what it does to the token, and a source that is
\* about to be created has its token.
Purpose(u) ==
  /\ pc[u] = "page" => req[u].token = "keep"
  /\ pc[u] \in {"names", "update"} => ~Removes(u)
  /\ pc[u] \in {"readToken", "writeToken"} => req[u].token # "keep"
  /\ pc[u] = "createToken" => req[u].draft.mode = "access-token"
  /\ pc[u] = "create" =>
       token[req[u].id] = IF req[u].draft.mode = "access-token" THEN u ELSE Absent

DirectoryInv == SerialInv /\ \A u \in Users : Purpose(u)

LEMMA InitDirectoryInv == Init => DirectoryInv
  BY InitSerialInv DEF Init, DirectoryInv, Purpose

\* The token of a source that is being created is stored by its own request only.
LEMMA StepPurpose ==
  ASSUME Inv, \A v \in Users : Purpose(v), NEW u \in Users, Browse(u) \/ Submit(u) \/ Continue(u)
  PROVE  \A v \in Users : Purpose(v)'
  <1>t. /\ pc \in [Users -> Stages] /\ req \in [Users -> Request] /\ token \in [Ids -> Users \cup {Absent}]
        /\ pc[u] # "idle" => req[u].id \in Ids
        /\ req[u] \in Request
    BY DEF Inv, TypeOK, Prepared
  <1>o. \A v \in Users \ {u} : pc'[v] = pc[v] /\ req'[v] = req[v]
    BY OneMoves
  <1>1. ASSUME NEW v \in Users \ {u} PROVE Purpose(v)'
    <2>1. pc[v] = "create" => token'[req[v].id] = token[req[v].id]
      <3>1. SUFFICES ASSUME pc[v] = "create" PROVE token'[req[v].id] = token[req[v].id]
        OBVIOUS
      <3>2. req[u].id # req[v].id /\ req[v].id \in Ids
        BY <3>1 DEF Inv, NewIsUnknown, Prepared, Creating
      <3>3. CASE CreateToken(u) \/ CreateFails(u) \/ WriteToken(u)
        BY <3>2, <3>3, <1>t DEF CreateToken, CreateFails, WriteToken
      <3>4. CASE ~CreateToken(u) /\ ~CreateFails(u) /\ ~WriteToken(u)
        BY <3>4 DEF Browse, Submit, Continue, Open, Create, Stale, Act, Remove, Delete, Put, CreateSource,
                    CheckNames, ReadToken, Update, UpdateRefused, DeleteSource, DeleteRefused, stored
      <3>5. QED
        BY <3>3, <3>4
    <2>2. QED
      BY <1>o, <2>1 DEF Purpose, Removes
  <1>2. Purpose(u)'
    <2> USE <1>t DEF Purpose, Removes
    <2>1. ASSUME NEW i \in Ids, Open(u, i) PROVE Purpose(u)'
      BY <2>1 DEF Open, GotoWith, NoRequest
    <2>2. ASSUME NEW i \in Ids, NEW c \in Configurations, Create(u, i, c) PROVE Purpose(u)'
      <3>1. token[i] = Absent
        BY <2>2 DEF Create, Existing, Inv, OrphanIsKnown
      <3> DEFINE r == [NoRequest EXCEPT !.id = i, !.draft = c]
      <3>2. r.id = i /\ r.draft = c
        BY DEF NoRequest
      <3> HIDE DEF r
      <3>3. /\ pc'[u] = IF c.mode = "access-token" THEN "createToken" ELSE "create"
            /\ req'[u] = r /\ token' = token
        BY <2>2 DEF Create, GotoWith, stored, r
      <3>4. QED
        BY <3>1, <3>2, <3>3
    <2>3. ASSUME Stale(u) \/ CreateSource(u) \/ CreateFails(u) \/ Update(u) \/ UpdateRefused(u) \/ DeleteRefused(u)
          PROVE  Purpose(u)'
      BY <2>3 DEF Stale, CreateSource, CreateFails, Update, UpdateRefused, DeleteRefused, Goto
    <2>4. ASSUME Act(u) PROVE Purpose(u)'
      BY <2>4 DEF Act, Goto, GotoWith, Request
    <2>5. ASSUME Remove(u) PROVE Purpose(u)'
      BY <2>5 DEF Remove, Goto, GotoWith, Request
    <2>6. ASSUME NEW c \in Configurations, NEW change \in {"keep", "replace"}, Put(u, c, change)
          PROVE  Purpose(u)'
      BY <2>6 DEF Put, GotoWith, Request
    <2>7. ASSUME CreateToken(u) PROVE Purpose(u)'
      BY <2>7 DEF CreateToken, Goto
    <2>8. ASSUME CheckNames(u) PROVE Purpose(u)'
      BY <2>8 DEF CheckNames, Goto, Request
    <2>9. ASSUME ReadToken(u) PROVE Purpose(u)'
      BY <2>9 DEF ReadToken, Goto
    <2>10. ASSUME WriteToken(u) PROVE Purpose(u)'
      BY <2>10 DEF WriteToken, Goto
    <2>11. ASSUME Delete(u) PROVE Purpose(u)'
      BY <2>11 DEF Delete, Goto, GotoWith, Request
    <2>12. ASSUME DeleteSource(u) PROVE Purpose(u)'
      BY <2>12 DEF DeleteSource, Goto, Inv, Prepared, Ready
    <2>13. QED
      BY <2>1, <2>2, <2>3, <2>4, <2>5, <2>6, <2>7, <2>8, <2>9, <2>10, <2>11, <2>12 DEF Browse, Submit, Continue
  <1>3. QED
    BY <1>1, <1>2

LEMMA DirectoryNextInv == DirectoryInv /\ [Next]_vars => DirectoryInv'
  <1> SUFFICES ASSUME DirectoryInv, [Next]_vars PROVE DirectoryInv'
    OBVIOUS
  <1>1. SerialInv'
    BY SerialNextInv DEF DirectoryInv
  <1>2. CASE Next
    <2>1. PICK u \in Users : Browse(u) \/ Submit(u) \/ Continue(u)
      BY <1>2 DEF Next, Step
    <2>2. QED
      BY <1>1, <2>1, StepPurpose DEF DirectoryInv, SerialInv
  <1>3. CASE UNCHANGED vars
    BY <1>1, <1>3 DEF vars, stored, DirectoryInv, Purpose, Removes
  <1>4. QED
    BY <1>2, <1>3

\* While one request at most is served, the listed configurations are the stored ones,
\* but for the source whose change is decided.
Listing(v) ==
  Committed(v) => Listed[req[v].id] = req[v].draft

Unchanging(i) ==
  (\A v \in Users : Committed(v) => req[v].id # i) => Listed[i] = config[i]

LEMMA ListedIs ==
  /\ Inv /\ ~Overlapping => \A v \in Users : Listing(v)
  /\ \A i \in Ids : Unchanging(i)
  /\ (Inv /\ ~Overlapping)' => \A v \in Users : Listing(v)'
  /\ \A i \in Ids : Unchanging(i)'
  <1>1. ASSUME Inv, ~Overlapping, NEW v \in Users, Committed(v) PROVE Listed[req[v].id] = req[v].draft
    <2>1. req[v].id \in Ids
      BY <1>1 DEF Inv, Prepared, Committed
    <2>2. \A w \in Users : Committed(w) => w = v
      BY <1>1 DEF Overlapping, Served, Committed
    <2>3. v = CHOOSE w \in Users : Committed(w) /\ req[w].id = req[v].id
      BY <1>1, <2>2
    <2>4. QED
      BY <1>1, <2>1, <2>3 DEF Listed
  <1>2. ASSUME Inv', ~Overlapping', NEW v \in Users, Committed(v)' PROVE Listed'[req'[v].id] = req'[v].draft
    <2>1. req'[v].id \in Ids
      BY <1>2 DEF Inv, Prepared, Committed
    <2>2. \A w \in Users : Committed(w)' => w = v
      BY <1>2 DEF Overlapping, Served, Committed
    <2>3. v = CHOOSE w \in Users : Committed(w)' /\ req'[w].id = req'[v].id
      BY <1>2, <2>2
    <2>4. QED
      BY <1>2, <2>1, <2>3 DEF Listed
  <1>3. QED
    BY <1>1, <1>2 DEF Listing, Unchanging, Listed

\* A request that is under way differs from none.
LEMMA AskedIs ==
  ASSUME NEW u \in Users, NEW r, r.id \in Ids
  PROVE  r # Directory!NoRequest
  BY SourcesAssumption DEF Directory!NoRequest

\* While only u is served, the directory shows what is stored, unless u is committed.
LEMMA Alone ==
  ASSUME NEW u \in Users, \A v \in Users \ {u} : ~Served(v) /\ ~Served(v)'
  PROVE  /\ TypeOK /\ ~Committed(u) => Listed = config
         /\ TypeOK' /\ ~Committed(u)' => Listed' = config'
         /\ Asked' = [Asked EXCEPT ![u] = IF Asking(u)' THEN req'[u] ELSE NoRequest]
  <1>1. \A v \in Users \ {u} : ~Committed(v) /\ ~Committed(v)'
    BY DEF Served, Committed
  <1>2. TypeOK /\ ~Committed(u) => Listed = config
    BY <1>1 DEF TypeOK, Listed
  <1>3. TypeOK' /\ ~Committed(u)' => Listed' = config'
    BY <1>1 DEF TypeOK, Listed
  <1>4. QED
    BY <1>2, <1>3 DEF Asked, Asking

\* Who opens a page, or leaves it, asks for nothing.
LEMMA LookingIsNothing ==
  ASSUME Inv, Inv', ~Overlapping, ~Overlapping', NEW u \in Users,
         Browse(u) \/ Submit(u) \/ Continue(u), ~Served(u), ~Served(u)'
  PROVE  UNCHANGED <<Listed, Secrets, Asked>>
  <1>1. \A v \in Users \ {u} : pc'[v] = pc[v] /\ req'[v] = req[v]
    BY OneMoves
  <1>2. UNCHANGED <<config, token>>
    <2>1. ~Continue(u)
      BY DEF Served, Continue, CreateToken, CreateSource, CreateFails, CheckNames, ReadToken, WriteToken,
             Update, UpdateRefused, DeleteSource, DeleteRefused
    <2>2. QED
      BY <2>1 DEF Browse, Open, Submit, Create, Stale, Act, Remove, Delete, Put, stored
  <1>3. \A v \in Users : /\ Served(v)' <=> Served(v)
                         /\ Committed(v)' <=> Committed(v)
                         /\ Deleted(v)' <=> Deleted(v)
                         /\ Served(v) => req'[v] = req[v]
    BY <1>1, <1>2 DEF Served, Committed, Deleted
  <1>4. \A i \in Ids : Listed'[i] = Listed[i]
    <2> SUFFICES ASSUME NEW i \in Ids PROVE Listed'[i] = Listed[i]
      OBVIOUS
    <2>1. ASSUME NEW v \in Users, Committed(v), req[v].id = i PROVE Listed'[i] = Listed[i]
      BY <1>3, <2>1, ListedIs DEF Listing, Served, Committed
    <2>2. CASE \A v \in Users : Committed(v) => req[v].id # i
      <3>1. \A v \in Users : Committed(v)' => req'[v].id # i
        BY <1>3, <2>2 DEF Served, Committed
      <3>2. QED
        BY <1>2, <2>2, <3>1, ListedIs DEF Unchanging
    <2>3. QED
      BY <2>1, <2>2
  <1>5. Listed' = Listed
    BY <1>4 DEF Listed
  <1>6. UNCHANGED <<Secrets, Asked>>
    BY <1>2, <1>3 DEF Secrets, Asked, Asking, Committed, Served
  <1>7. QED
    BY <1>5, <1>6

\* Who submits a request asks for what it says.
LEMMA SubmittingAsks ==
  ASSUME DirectoryInv, TypeOK', ~Overlapping', NEW u \in Users,
         Browse(u) \/ Submit(u) \/ Continue(u), ~Served(u), Served(u)'
  PROVE  Directory!Ask(u)
  <1>t. Inv /\ TypeOK /\ Purpose(u)
    BY DEF DirectoryInv, SerialInv, Inv
  <1>1. \A v \in Users \ {u} : pc'[v] = pc[v] /\ req'[v] = req[v]
    BY <1>t, OneMoves
  <1>2. \A v \in Users \ {u} : ~Served(v) /\ ~Served(v)'
    BY <1>1 DEF Overlapping, Served
  <1>3. UNCHANGED <<config, token>>
    <2>1. ~Continue(u)
      BY DEF Served, Continue, CreateToken, CreateSource, CreateFails, CheckNames, ReadToken, WriteToken,
             Update, UpdateRefused, DeleteSource, DeleteRefused
    <2>2. QED
      BY <2>1 DEF Browse, Open, Submit, Create, Stale, Act, Remove, Delete, Put, stored
  <1>4. ~Committed(u) /\ ~Committed(u)' /\ ~Deleted(u)'
    <2>1. ~Committed(u)
      BY DEF Committed, Served
    <2>2. pc'[u] = "update" => Act(u)
      <3>1. \A stage : Goto(u, stage) => pc'[u] = stage
        BY <1>t DEF Goto, TypeOK
      <3>2. \A stage, r : GotoWith(u, stage, r) => pc'[u] = stage
        BY <1>t DEF GotoWith, TypeOK
      <3>3. Continue(u) => Served(u)
        BY DEF Served, Continue, CreateToken, CreateSource, CreateFails, CheckNames, ReadToken, WriteToken,
               Update, UpdateRefused, DeleteSource, DeleteRefused
      <3>4. ASSUME NEW i \in Ids, NEW c \in Configurations, Create(u, i, c) PROVE pc'[u] # "update"
        BY <3>2, <3>4 DEF Create
      <3>5. QED
        BY <3>1, <3>2, <3>3, <3>4 DEF Browse, Open, Submit, Stale, Remove, Delete, Put
    <2>3. Act(u) => req'[u].token = "keep"  \/ pc'[u] = "idle"
      BY <1>t DEF Act, Goto, GotoWith, TypeOK, Request, Purpose
    <2>4. pc'[u] \in {"readToken", "writeToken"} => Remove(u) /\ req'[u].id = req[u].id
      <3>1. \A stage : Goto(u, stage) => pc'[u] = stage
        BY <1>t DEF Goto, TypeOK
      <3>2. \A stage, r : GotoWith(u, stage, r) => pc'[u] = stage
        BY <1>t DEF GotoWith, TypeOK
      <3>3. Continue(u) => Served(u)
        BY DEF Served, Continue, CreateToken, CreateSource, CreateFails, CheckNames, ReadToken, WriteToken,
               Update, UpdateRefused, DeleteSource, DeleteRefused
      <3>4. ASSUME NEW i \in Ids, NEW c \in Configurations, Create(u, i, c)
            PROVE  pc'[u] \notin {"readToken", "writeToken"}
        BY <3>2, <3>4 DEF Create
      <3>5. pc'[u] \in {"readToken", "writeToken"} => Remove(u)
        BY <3>1, <3>2, <3>3, <3>4 DEF Browse, Open, Submit, Stale, Act, Delete, Put
      <3>6. Remove(u) => req'[u].id = req[u].id \/ pc'[u] = "idle"
        BY <1>t DEF Remove, Goto, GotoWith, TypeOK, Request
      <3>7. QED
        BY <3>5, <3>6
    <2>5. ~Deleted(u)'
      <3>1. Remove(u) => config[req[u].id] # Absent
        BY <1>t DEF Remove, Inv, PageIsTrue, GoneIsGone, UpToDate, Paging
      <3>2. QED
        BY <1>3, <2>4, <3>1 DEF Deleted
    <2>6. QED
      BY <2>1, <2>2, <2>3, <2>5 DEF Committed
  <1>5. Listed' = Listed
    BY <1>t, <1>2, <1>3, <1>4, Alone
  <1>6. Asked' = [Asked EXCEPT ![u] = req'[u]]
    BY <1>2, <1>4, Alone DEF Asking
  <1>7. req'[u] \in Directory!Request
    BY DEF TypeOK, Request, Configurations, Directory!Request, Directory!Configurations
  <1>8. Asked[u] = Directory!NoRequest
    BY DEF Asked, Asking, NoRequest, Directory!NoRequest
  <1>9. Secrets' = Secrets
    BY <1>3 DEF Secrets
  <1>10. QED
    BY <1>5, <1>6, <1>7, <1>8, <1>9 DEF Directory!Ask

\* The request that is served is decided in one step: where its source is stored, or
\* its token if that comes first.
LEMMA ServingDecides ==
  ASSUME DirectoryInv, DirectoryInv', Calm, ~Overlapping', NEW u \in Users,
         Browse(u) \/ Submit(u) \/ Continue(u), Served(u)
  PROVE  Directory!Serve(u) \/ UNCHANGED <<Listed, Secrets, Asked>>
  <1> DEFINE i == req[u].id
             c == req[u].draft
             Goal == Directory!Serve(u) \/ UNCHANGED <<Listed, Secrets, Asked>>
  <1>t. /\ Inv /\ TypeOK /\ TypeOK' /\ Purpose(u)
        /\ pc \in [Users -> Stages] /\ req \in [Users -> Request]
        /\ config \in [Ids -> Configurations \cup {Absent}] /\ token \in [Ids -> Users \cup {Absent}]
        /\ i \in Ids
        /\ Absent \notin Configurations /\ Absent \notin Users /\ Absent \notin Ids
    BY SourcesAssumption DEF DirectoryInv, SerialInv, Inv, TypeOK, Prepared, Served
  <1>1. \A v \in Users \ {u} : pc'[v] = pc[v] /\ req'[v] = req[v]
    BY <1>t, OneMoves
  <1>2. \A v \in Users \ {u} : ~Served(v) /\ ~Served(v)'
    BY <1>1 DEF Calm, Overlapping, Served
  <1>3. /\ ~Committed(u) => Listed = config
        /\ ~Committed(u)' => Listed' = config'
        /\ Asked' = [Asked EXCEPT ![u] = IF Asking(u)' THEN req'[u] ELSE NoRequest]
        /\ Asking(u) => Asked[u] = req[u]
        /\ ~Deleted(u) /\ ~Committed(u) => Asking(u)
    BY <1>t, <1>2, Alone DEF Asked, Asking
  <1>g. \A stage : Goto(u, stage) =>
          pc'[u] = stage /\ req'[u] = IF stage = "idle" THEN NoRequest ELSE req[u]
    BY <1>t DEF Goto
  <1>n. /\ NoRequest = Directory!NoRequest
        /\ req[u] # NoRequest
    BY <1>t DEF NoRequest, Directory!NoRequest
  \* A request that ends is decided.
  <1>e. ASSUME Goto(u, "idle"), Asking(u)
        PROVE  Directory!Decided(u) /\ Listed' = config'
    <2>1. ~Served(u)' /\ ~Committed(u)'
      BY <1>e, <1>g DEF Served, Committed
    <2>2. QED
      BY <1>e, <1>3, <1>n, <2>1 DEF Directory!Decided, Asking
  <1>d. ASSUME Goto(u, "idle"), Asking(u), config' = config, Secrets' = Secrets
        PROVE  Goal
    BY <1>d, <1>e, <1>3 DEF Asking, Directory!Serve, Directory!Decline
  \* A request that goes on is not.
  <1>s. ASSUME NEW stage \in {"create", "readToken", "writeToken", "update"}, Goto(u, stage),
               Asking(u), stage = "update" => req[u].token # "replace",
               stage \in {"readToken", "writeToken"} => config[i] # Absent, config' = config, Secrets' = Secrets
        PROVE  Goal
    <2>1. Asking(u)' /\ req'[u] = req[u] /\ ~Committed(u)
      BY <1>s, <1>g DEF Asking, Served, Committed, Deleted
    <2>2. Asked' = [Asked EXCEPT ![u] = Asked[u]]
      BY <1>s, <1>3, <2>1
    <2>3. QED
      BY <1>s, <1>3, <2>1, <2>2 DEF Asked, Asking
  \* What was checked about names is what the directory asks for.
  <1>f. ASSUME Checked(u), Listed = config
        PROVE  Directory!Free(i, c)
    BY <1>f DEF Calm, Orderly, IsUnique, Existing, Directory!Free
  <1>5. ASSUME CreateToken(u) PROVE Goal
    <2>1. Asking(u) /\ Goto(u, "create") /\ config' = config /\ token' = [token EXCEPT ![i] = u]
      BY <1>5, <1>3 DEF CreateToken, Committed, Deleted
    <2>2. config[i] = Absent
      BY <1>5, <1>t DEF CreateToken, Inv, NewIsUnknown, Creating
    <2>3. Secrets' = Secrets
      BY <1>t, <2>1, <2>2 DEF Secrets
    <2>4. QED
      BY <1>s, <2>1, <2>3
  <1>6. ASSUME CreateSource(u) PROVE Goal
    <2>1. /\ pc[u] = "create" /\ ~Committed(u) /\ Asking(u) /\ Goto(u, "idle")
          /\ config' = [config EXCEPT ![i] = c] /\ token' = token
      BY <1>6, <1>3 DEF CreateSource, Committed, Deleted
    <2>2. config[i] = Absent /\ c # Absent
      BY <1>t, <2>1 DEF Inv, NewIsUnknown, Creating, Prepared
    <2>3. token[i] = IF c.mode = "access-token" THEN u ELSE Absent
      BY <1>t, <2>1 DEF Purpose
    <2>4. Listed = config /\ Listed' = config' /\ Asked[u] = req[u] /\ Directory!Decided(u)
      BY <1>3, <1>e, <2>1
    <2>5. Secrets' = [Secrets EXCEPT ![i] = token[i]]
      BY <1>t, <2>1, <2>2 DEF Secrets
    <2>6. Directory!Free(i, c)
      BY <1>f, <2>1, <2>4 DEF Checked, Creating
    <2>7. Directory!Create(u, req[u])
      BY <2>1, <2>2, <2>3, <2>4, <2>5, <2>6 DEF Directory!Create
    <2>8. QED
      BY <2>4, <2>7 DEF Directory!Serve
  <1>7. ASSUME CreateFails(u) PROVE Goal
    <2>1. /\ pc[u] = "create" /\ Asking(u) /\ Goto(u, "idle")
          /\ config' = config /\ token' = [token EXCEPT ![i] = Absent]
      BY <1>7, <1>3 DEF CreateFails, Committed, Deleted
    <2>2. config[i] = Absent
      BY <1>t, <2>1 DEF Inv, NewIsUnknown, Creating
    <2>3. Secrets' = Secrets
      BY <1>t, <2>1, <2>2 DEF Secrets
    <2>4. QED
      BY <1>d, <2>1, <2>3
  <1>8. ASSUME CheckNames(u) PROVE Goal
    <2>1. /\ Asking(u) /\ config' = config /\ token' = token
          /\ \/ Goto(u, "idle") \/ Goto(u, "readToken")
             \/ Goto(u, "update") /\ req[u].token # "replace"
      BY <1>8, <1>3 DEF CheckNames, Committed, Deleted, stored
    <2>2. Secrets' = Secrets
      BY <2>1 DEF Secrets
    <2>3. UpToDate(u)
      BY <1>8 DEF CheckNames, Calm, Orderly, Erasing, Paging
    <2>4. config[i] # Absent
      BY <1>8, <1>t, <2>3 DEF CheckNames, Inv, PageIsTrue, GoneIsGone, UpToDate, Paging
    <2>5. QED
      BY <1>d, <1>s, <2>1, <2>2, <2>4
  \* The rest of a deletion is not seen.
  <1>a. ASSUME Deleted(u), ~Asking(u)', ~Committed(u)', config' = config, \A j \in Ids \ {i} : token'[j] = token[j]
        PROVE  Goal
    <2>1. ~Committed(u) /\ Asked[u] = NoRequest /\ config[i] = Absent
      BY <1>a DEF Deleted, Committed, Asked, Asking
    <2>2. Listed' = Listed
      BY <1>a, <1>3, <2>1
    <2>3. Asked' = Asked
      <3>1. Asked' = [Asked EXCEPT ![u] = NoRequest]
        BY <1>a, <1>3
      <3>2. QED
        BY <2>1, <3>1 DEF Asked
    <2>4. Secrets' = Secrets
      BY <1>a, <2>1 DEF Secrets
    <2>5. QED
      BY <2>2, <2>3, <2>4
  <1>9. ASSUME ReadToken(u) PROVE Goal
    <2>1. /\ pc[u] = "readToken" /\ ~Committed(u) /\ config' = config /\ token' = token
          /\ Goto(u, "idle") \/ Goto(u, "writeToken")
      BY <1>9 DEF ReadToken, Committed
    <2>2. Secrets' = Secrets
      BY <2>1 DEF Secrets
    <2>3. CASE Deleted(u)
      <3>1. pc'[u] = "idle" \/ (pc'[u] = "writeToken" /\ req'[u] = req[u])
        BY <1>g, <2>1
      <3>2. ~Asking(u)' /\ ~Committed(u)'
        BY <2>1, <2>3, <3>1 DEF Asking, Served, Deleted, Committed
      <3>3. QED
        BY <1>a, <2>1, <2>3, <3>2
    <2>4. CASE ~Deleted(u)
      <3>1. Asking(u) /\ config[i] # Absent
        BY <1>3, <2>1, <2>4 DEF Deleted
      <3>2. QED
        BY <1>d, <1>s, <2>1, <2>2, <3>1
    <2>5. QED
      BY <2>3, <2>4
  <1>b. ASSUME WriteToken(u), Deleted(u) PROVE Goal
    <2>1. pc[u] = "writeToken" /\ config[i] = Absent /\ config' = config /\ u \in holders[i]
      BY <1>b DEF WriteToken, Deleted, Calm, Orderly
    <2>2. ~UpToDate(u)
      BY <1>t, <2>1 DEF Inv, PageIsTrue, GoneIsGone, UpToDate, Paging
    <2>3. req[u].token = "delete"
      BY <2>1, <2>2 DEF Calm, Orderly, Erasing, Paging
    <2>4. Goto(u, "idle") /\ token' = [token EXCEPT ![i] = Absent]
      BY <1>b, <2>1, <2>3 DEF WriteToken, Removes
    <2>5. ~Asking(u)' /\ ~Committed(u)'
      BY <1>g, <2>4 DEF Asking, Served, Committed
    <2>6. QED
      BY <1>a, <1>b, <1>t, <2>1, <2>4, <2>5
  <1>10. ASSUME WriteToken(u), ~Deleted(u) PROVE Goal
    <2>1. pc[u] = "writeToken" /\ ~Committed(u) /\ Asking(u) /\ config' = config /\ config[i] # Absent
      BY <1>10, <1>3 DEF WriteToken, Committed, Deleted
    <2>2. req[u].token \in {"replace", "remove"} /\ req[u].saw = config[i]
      <3>1. req[u].token \in {"replace", "remove", "delete"} /\ req[u].token # "delete"
        BY <1>t, <2>1 DEF Purpose, TypeOK, Request, Inv, Prepared, Ready, GoneIsGone
      <3>2. UpToDate(u)
        BY <2>1, <3>1 DEF Calm, Orderly, Erasing, Paging
      <3>3. QED
        BY <1>t, <2>1, <3>1, <3>2 DEF Inv, PageIsTrue, Paging
    <2>3. Listed = config /\ Asked[u] = req[u]
      BY <1>3, <2>1
    <2>4. CASE u \notin holders[i]
      <3>1. Goto(u, "idle") /\ token' = token
        BY <1>10, <2>4 DEF WriteToken
      <3>2. Secrets' = Secrets
        BY <2>1, <3>1 DEF Secrets
      <3>3. QED
        BY <1>d, <2>1, <3>1, <3>2
    <2>5. CASE u \in holders[i] /\ req[u].token = "remove"
      <3>1. Goto(u, "idle") /\ token' = [token EXCEPT ![i] = Absent]
        BY <1>10, <2>5 DEF WriteToken, Removes
      <3>2. Secrets' = [Secrets EXCEPT ![i] = Absent]
        BY <1>t, <2>1, <2>2, <3>1 DEF Secrets
      <3>3. config[i].mode # "access-token"
        BY <1>t, <2>1, <2>2, <2>5 DEF Inv, Prepared, Ready
      <3>4. Directory!Decided(u) /\ Listed' = Listed
        BY <1>e, <2>1, <2>3, <3>1
      <3>5. Directory!Remove(u, req[u])
        BY <2>1, <2>2, <2>3, <2>5, <3>2, <3>3, <3>4 DEF Directory!Remove
      <3>6. QED
        BY <2>3, <3>5 DEF Directory!Serve
    <2>6. CASE u \in holders[i] /\ req[u].token = "replace"
      <3>1. Goto(u, "update") /\ token' = [token EXCEPT ![i] = u]
        BY <1>10, <2>6 DEF WriteToken, Removes
      <3>2. Committed(u)' /\ Served(u)' /\ req'[u] = req[u]
        BY <1>g, <2>6, <3>1 DEF Committed, Served
      <3>3. Secrets' = [Secrets EXCEPT ![i] = u]
        BY <1>t, <2>1, <2>2, <3>1 DEF Secrets
      <3>4. Directory!Decided(u)
        BY <1>3, <1>n, <2>3, <3>2 DEF Asking, Directory!Decided
      <3>5. Listed' = [Listed EXCEPT ![i] = c]
        <4>1. \A v \in Users \ {u} : ~Committed(v)'
          BY <1>2 DEF Served, Committed
        <4>2. Listed'[i] = c
          BY <3>2, ListedIs DEF Listing, DirectoryInv, SerialInv
        <4>3. \A j \in Ids \ {i} : Listed'[j] = config[j]
          BY <2>1, <3>2, <4>1, ListedIs DEF Unchanging
        <4>4. Listed' = [j \in Ids |-> Listed'[j]]
          BY DEF Listed
        <4>5. QED
          BY <1>t, <2>3, <4>2, <4>3, <4>4
      <3>6. Directory!Free(i, c)
        BY <1>f, <2>1, <2>3, <2>6 DEF Checked, Removes
      <3>7. Directory!Change(u, req[u])
        BY <2>1, <2>2, <2>3, <2>6, <3>3, <3>4, <3>5, <3>6 DEF Directory!Change
      <3>8. QED
        BY <2>3, <3>7 DEF Directory!Serve
    <2>7. QED
      BY <2>2, <2>4, <2>5, <2>6
  <1>11. ASSUME Update(u) PROVE Goal
    <2>1. /\ pc[u] = "update" /\ Goto(u, "idle")
          /\ config' = [config EXCEPT ![i] = c] /\ token' = token
          /\ req[u].token \in {"keep", "replace"}
      BY <1>11, <1>t DEF Update, Purpose, Removes, TypeOK, Request
    <2>2. config[i] # Absent /\ req[u].saw = config[i] /\ c # Absent
      BY <1>11, <1>t, <2>1 DEF Update, Inv, PageIsTrue, GoneIsGone, UpToDate, Paging, TypeOK
    <2>3. Secrets' = Secrets
      BY <1>t, <2>1, <2>2 DEF Secrets
    <2>4. ~Committed(u)' /\ ~Asking(u)' /\ ~Deleted(u)
      BY <1>g, <2>1 DEF Committed, Asking, Served, Deleted
    <2>5. CASE Committed(u)
      <3>1. Listed' = config'
        BY <1>3, <2>4
      <3>2. Listed = [config EXCEPT ![i] = c]
        <4>1. \A v \in Users \ {u} : ~Committed(v)
          BY <1>2 DEF Served, Committed
        <4>2. Listed[i] = c
          BY <1>t, <2>5, ListedIs DEF Listing, Calm
        <4>3. \A j \in Ids \ {i} : Listed[j] = config[j]
          BY <4>1, ListedIs DEF Unchanging
        <4>4. Listed = [j \in Ids |-> Listed[j]]
          BY DEF Listed
        <4>5. QED
          BY <1>t, <4>2, <4>3, <4>4
      <3>3. Asked' = Asked
        <4>1. Asked' = [Asked EXCEPT ![u] = NoRequest] /\ Asked[u] = NoRequest
          BY <1>3, <2>4, <2>5 DEF Asked, Asking
        <4>2. QED
          BY <4>1 DEF Asked
      <3>4. QED
        BY <2>1, <2>3, <3>1, <3>2, <3>3
    <2>6. CASE ~Committed(u)
      <3>1. req[u].token = "keep"
        BY <2>1, <2>6 DEF Committed
      <3>2. Listed = config /\ Listed' = config' /\ Asked[u] = req[u] /\ Directory!Decided(u)
        BY <1>3, <1>e, <2>1, <2>4, <2>6
      <3>3. Directory!Free(i, c)
        BY <1>f, <2>1, <3>2 DEF Checked
      <3>4. Directory!Change(u, req[u])
        BY <2>1, <2>2, <2>3, <3>1, <3>2, <3>3 DEF Directory!Change
      <3>5. QED
        BY <3>2, <3>4 DEF Directory!Serve
    <2>7. QED
      BY <2>5, <2>6
  <1>12. ~UpdateRefused(u) /\ ~DeleteRefused(u)
    BY DEF UpdateRefused, DeleteRefused, Calm, Orderly, Erasing, Paging
  <1>13. ASSUME DeleteSource(u) PROVE Goal
    <2>1. /\ pc[u] = "delete" /\ Goto(u, "readToken") /\ UpToDate(u)
          /\ config' = [config EXCEPT ![i] = Absent] /\ token' = token
      BY <1>13 DEF DeleteSource
    <2>2. /\ req[u].token = "delete" /\ config[i] # Absent /\ req[u].saw = config[i]
      BY <1>t, <2>1 DEF Inv, Prepared, Ready, PageIsTrue, GoneIsGone, UpToDate, Paging
    <2>3. pc'[u] = "readToken" /\ req'[u] = req[u] /\ config'[i] = Absent
      BY <1>g, <1>t, <2>1
    <2>4. ~Committed(u) /\ Asking(u) /\ ~Committed(u)' /\ ~Asking(u)'
      BY <1>3, <2>1, <2>3 DEF Committed, Deleted, Asking
    <2>5. Listed = config /\ Listed' = config' /\ Asked[u] = req[u]
      BY <1>3, <2>4
    <2>6. Directory!Decided(u)
      BY <1>3, <1>n, <2>4, <2>5 DEF Directory!Decided
    <2>7. Secrets' = [Secrets EXCEPT ![i] = Absent]
      BY <1>t, <2>1 DEF Secrets
    <2>8. Directory!Delete(u, req[u])
      BY <2>1, <2>2, <2>5, <2>6, <2>7 DEF Directory!Delete
    <2>9. QED
      BY <2>5, <2>8 DEF Directory!Serve
  <1>14. Continue(u)
    BY DEF Served, Browse, Open, Submit, Create, Stale, Act, Remove, Delete, Put
  <1>15. QED
    BY <1>5, <1>6, <1>7, <1>8, <1>9, <1>b, <1>10, <1>11, <1>12, <1>13, <1>14 DEF Continue

LEMMA DirectoryStep ==
  DirectoryInv /\ DirectoryInv' /\ [Next]_vars => [Directory!Next]_<<Listed, Secrets, Asked>>
  <1> SUFFICES ASSUME DirectoryInv, DirectoryInv', [Next]_vars
               PROVE  Directory!Next \/ UNCHANGED <<Listed, Secrets, Asked>>
    OBVIOUS
  <1>1. CASE UNCHANGED vars
    BY <1>1 DEF vars, stored, Listed, Secrets, Asked, Asking, Deleted, Committed, Served
  <1>2. CASE Next /\ overlapped'
    BY <1>2 DEF Directory!Next
  <1>3. CASE Next /\ ~overlapped'
    <2>1. PICK u \in Users : Browse(u) \/ Submit(u) \/ Continue(u)
      BY <1>3 DEF Next, Step
    <2>2. ~overlapped /\ ~Overlapping'
      BY <1>3 DEF Next
    <2>3. Inv /\ Calm /\ ~Overlapping /\ Inv' /\ TypeOK'
      BY <2>2 DEF DirectoryInv, SerialInv, Calm, Inv
    <2>4. CASE Served(u)
      BY <2>1, <2>2, <2>3, <2>4, ServingDecides DEF Directory!Next
    <2>5. CASE ~Served(u) /\ Served(u)'
      BY <2>1, <2>2, <2>3, <2>5, SubmittingAsks DEF Directory!Next, Directory!Serve
    <2>6. CASE ~Served(u) /\ ~Served(u)'
      BY <2>1, <2>2, <2>3, <2>6, LookingIsNothing
    <2>7. QED
      BY <2>4, <2>5, <2>6
  <1>4. QED
    BY <1>1, <1>2, <1>3

\* Served one after the other, requests act like single steps on a directory of
\* sources and tokens: each is done as a whole or changes nothing, for any number of
\* users, sources and names.
THEOREM SourcesImplementDirectory == Spec => ImplementsDirectory
  <1>1. Init => Directory!Init
    BY DEF Init, Directory!Init, Listed, Secrets, Asked, Asking, Committed, Served, NoRequest, Directory!NoRequest
  <1>2. QED
    BY <1>1, InitDirectoryInv, DirectoryNextInv, DirectoryStep, PTL
       DEF Spec, ImplementsDirectory, Directory!Spec, Directory!vars
===============================================================================
