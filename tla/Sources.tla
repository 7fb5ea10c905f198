-------------------------------- MODULE Sources --------------------------------
(***************************************************************************)
(* The requests of api.py that create, change and delete sources: their    *)
(* Connect names, their authentication mode, and the access token that is  *)
(* kept apart from them in the secret store.  (What else a deletion takes  *)
(* with it, the operation, its file and the refresh token, is in OAuth.)   *)
(*                                                                         *)
(* A user opens a page, which carries the version of the source, and       *)
(* submits it later.  As in OAuth, the version a request holds is          *)
(* represented by its membership in the set of those that are current.     *)
(***************************************************************************)
EXTENDS Integers

CONSTANTS
  Users,   \* users, each with one page or request at a time
  Ids,     \* identities of sources
  Names,   \* Connect names, up to case and surrounding blanks
  Absent   \* there is no such source, or token

Configurations == [name : Names, mode : {"discovery", "access-token"}]

ASSUME SourcesAssumption == Absent \notin Configurations \cup Users \cup Ids

VARIABLES
  config,   \* the stored configuration of each source, or Absent
  pages,    \* for each source, the users who hold its current version
  gone,     \* the sources that were deleted: their identities never come back
  token,    \* the user whose access token is stored for each source, or Absent
  holders,  \* for each source, the requests that hold the version of its token
  overlapped, \* history: two requests were served at the same time
  pc,       \* where each user is
  req       \* the source a page or request is about, the configuration the page
            \* showed, the one to be stored, and what is to be done to the token
stored == <<config, gone, pages, token, holders>>
vars   == <<stored, pc, req, overlapped>>

Request == [id : Ids \cup {Absent},
            saw : Configurations \cup {Absent},
            draft : Configurations \cup {Absent},
            token : {"keep", "replace", "remove", "delete"}]
NoRequest == [id |-> Absent, saw |-> Absent, draft |-> Absent, token |-> "keep"]

Init ==
  /\ config = [i \in Ids |-> Absent]
  /\ gone = {}
  /\ pages = [i \in Ids |-> {}]
  /\ token = [i \in Ids |-> Absent]
  /\ holders = [i \in Ids |-> {}]
  /\ overlapped = FALSE
  /\ pc = [u \in Users |-> "idle"]
  /\ req = [u \in Users |-> NoRequest]

Existing == {i \in Ids : config[i] # Absent}

\* A request goes on, or returns and drops its locals.
Goto(u, stage) ==
  /\ pc' = [pc EXCEPT ![u] = stage]
  /\ req' = IF stage = "idle" THEN [req EXCEPT ![u] = NoRequest] ELSE req

GotoWith(u, stage, request) ==
  /\ pc' = [pc EXCEPT ![u] = stage]
  /\ req' = [req EXCEPT ![u] = request]

\* The page of u shows the stored version of its source.
UpToDate(u) == u \in pages[req[u].id]

\* Mutation: only a source that is created is checked.
IsUniqueAtCreation(c, i) == i \notin Existing => \A j \in Existing : config[j].name # c.name

\* ensure_unique_connect_names() for source i with configuration c.
IsUnique(c, i) == \A j \in Existing \ {i} : config[j].name # c.name

-----------------------------------------------------------------------------
(* create().  The token is stored before the source it belongs to.         *)

\* The identity is a fresh uuid4.
Create(u, i, c) ==
  /\ pc[u] = "idle"
  /\ i \notin Existing \cup gone /\ \A v \in Users : req[v].id # i
  /\ IsUnique(c, i)
  /\ GotoWith(u, IF c.mode = "access-token" THEN "createToken" ELSE "create",
              [NoRequest EXCEPT !.id = i, !.draft = c])
  /\ UNCHANGED stored

CreateToken(u) ==
  /\ pc[u] = "createToken"
  /\ token' = [token EXCEPT ![req[u].id] = u]
  /\ Goto(u, "create")
  /\ UNCHANGED <<config, gone, pages, holders>>

CreateSource(u) ==
  /\ pc[u] = "create"
  /\ config' = [config EXCEPT ![req[u].id] = req[u].draft]
  /\ Goto(u, "idle")
  /\ UNCHANGED <<gone, pages, token, holders>>

\* The store refuses the source, and its token is deleted again.
CreateFails(u) ==
  /\ pc[u] = "create"
  /\ token' = [token EXCEPT ![req[u].id] = Absent]
  /\ Goto(u, "idle")
  /\ UNCHANGED <<config, gone, pages, holders>>

-----------------------------------------------------------------------------
(* A page of a source, and what is submitted from it.                      *)

Open(u, i) ==
  /\ pc[u] = "idle"
  /\ i \in Existing
  /\ pages' = [pages EXCEPT ![i] = @ \cup {u}]
  /\ GotoWith(u, "page", [NoRequest EXCEPT !.id = i, !.saw = config[i]])
  /\ UNCHANGED <<config, gone, token, holders>>

\* "source changed; refresh and retry"
Stale(u) ==
  /\ pc[u] = "page"
  /\ ~UpToDate(u)
  /\ Goto(u, "idle")
  /\ UNCHANGED stored

\* Mutation: the version of the page is left to the store.
PutUnchecked(u, c, change) ==
  /\ pc[u] = "page"
  /\ GotoWith(u, "names", [req[u] EXCEPT !.draft = c, !.token = change])
  /\ UNCHANGED stored

\* PUT: configuration c, with a new access token or without.
Put(u, c, change) ==
  /\ pc[u] = "page"
  /\ UpToDate(u)
  /\ GotoWith(u, "names", [req[u] EXCEPT !.draft = c, !.token = change])
  /\ UNCHANGED stored

CheckNames(u) ==
  /\ pc[u] = "names"
  /\ Goto(u, CASE ~IsUnique(req[u].draft, req[u].id) -> "idle"
               [] OTHER -> IF req[u].token = "replace" THEN "readToken" ELSE "update")
  /\ UNCHANGED stored

\* start, stop and restart change the version, not the configuration, and nothing
\* if the source is in the desired state already, or must be enabled first.
Act(u) ==
  /\ pc[u] = "page"
  /\ UpToDate(u)
  /\ \/ GotoWith(u, "update", [req[u] EXCEPT !.draft = req[u].saw])
     \/ Goto(u, "idle")
  /\ UNCHANGED stored

\* Mutation: the mode is not checked.
MayRemoveAlways(c) == TRUE

MayRemove(c) == c.mode # "access-token"

\* clear-access-token
Remove(u) ==
  /\ pc[u] = "page"
  /\ UpToDate(u)
  /\ IF MayRemove(req[u].saw)
     THEN GotoWith(u, "readToken", [req[u] EXCEPT !.token = "remove"])
     ELSE Goto(u, "idle")
  /\ UNCHANGED stored

\* DELETE, if the source is disabled and has stopped.
Delete(u) ==
  /\ pc[u] = "page"
  /\ UpToDate(u)
  /\ GotoWith(u, "delete", [req[u] EXCEPT !.token = "delete"]) \/ Goto(u, "idle")
  /\ UNCHANGED stored

\* Mutation: the token of a deleted source is kept.
DeleteSourceOnly(u) ==
  /\ pc[u] = "delete"
  /\ UpToDate(u)
  /\ config' = [config EXCEPT ![req[u].id] = Absent]
  /\ gone' = gone \cup {req[u].id}
  /\ pages' = [pages EXCEPT ![req[u].id] = {}]
  /\ Goto(u, "idle")
  /\ UNCHANGED <<token, holders>>

\* The source is deleted before its token.
DeleteSource(u) ==
  /\ pc[u] = "delete"
  /\ UpToDate(u)
  /\ config' = [config EXCEPT ![req[u].id] = Absent]
  /\ gone' = gone \cup {req[u].id}
  /\ pages' = [pages EXCEPT ![req[u].id] = {}]
  /\ Goto(u, "readToken")
  /\ UNCHANGED <<token, holders>>

DeleteRefused(u) ==
  /\ pc[u] = "delete"
  /\ ~UpToDate(u)
  /\ Goto(u, "idle")
  /\ UNCHANGED stored

\* The request removes a token, and stores none.
Removes(u) == req[u].token \in {"remove", "delete"}

ReadToken(u) ==
  /\ pc[u] = "readToken"
  /\ LET i == req[u].id IN
     IF Removes(u) /\ token[i] = Absent
     THEN Goto(u, "idle") /\ UNCHANGED holders
     ELSE Goto(u, "writeToken") /\ holders' = [holders EXCEPT ![i] = @ \cup {u}]
  /\ UNCHANGED <<config, gone, pages, token>>

WriteToken(u) ==
  /\ pc[u] = "writeToken"
  /\ LET i == req[u].id IN
     IF u \in holders[i]
     THEN /\ token' = [token EXCEPT ![i] = IF Removes(u) THEN Absent ELSE u]
          /\ holders' = [holders EXCEPT ![i] = {}]
          /\ Goto(u, IF Removes(u) THEN "idle" ELSE "update")
     ELSE /\ Goto(u, "idle")
          /\ UNCHANGED <<token, holders>>
  /\ UNCHANGED <<config, gone, pages>>

\* Mutation: the version is not passed to the store.
UpdateBlindly(u) ==
  /\ pc[u] = "update"
  /\ config' = [config EXCEPT ![req[u].id] = req[u].draft]
  /\ pages' = [pages EXCEPT ![req[u].id] = {}]
  /\ Goto(u, "idle")
  /\ UNCHANGED <<gone, token, holders>>

Update(u) ==
  /\ pc[u] = "update"
  /\ UpToDate(u)
  /\ config' = [config EXCEPT ![req[u].id] = req[u].draft]
  /\ pages' = [pages EXCEPT ![req[u].id] = {}]
  /\ Goto(u, "idle")
  /\ UNCHANGED <<gone, token, holders>>

UpdateRefused(u) ==
  /\ pc[u] = "update"
  /\ ~UpToDate(u)
  /\ Goto(u, "idle")
  /\ UNCHANGED stored

-----------------------------------------------------------------------------
Browse(u) == \E i \in Ids : Open(u, i)

Submit(u) ==
  \/ \E i \in Ids, c \in Configurations : Create(u, i, c)
  \/ Stale(u) \/ Act(u) \/ Remove(u) \/ Delete(u)
  \/ \E c \in Configurations, change \in {"keep", "replace"} : Put(u, c, change)

Continue(u) ==
  \/ CreateToken(u) \/ CreateSource(u) \/ CreateFails(u)
  \/ CheckNames(u) \/ ReadToken(u) \/ WriteToken(u) \/ Update(u) \/ UpdateRefused(u)
  \/ DeleteSource(u) \/ DeleteRefused(u)

Step == \E u \in Users : Browse(u) \/ Submit(u) \/ Continue(u)

\* However many pages are open, a request is served once one of them is submitted.
Served(u) == pc[u] \notin {"idle", "page"}

Overlapping == \E u, v \in Users : u # v /\ Served(u) /\ Served(v)

Next == Step /\ overlapped' = (overlapped \/ Overlapping')

Spec == Init /\ [][Next]_vars

-----------------------------------------------------------------------------
(* Properties of every schedule.                                           *)

Stages == {"idle", "page", "createToken", "create", "names", "readToken", "writeToken", "update",
           "delete"}

\* Each variable has its type, and what is stored was submitted.
TypeOK ==
  /\ config \in [Ids -> Configurations \cup {Absent}]
  /\ gone \subseteq Ids
  /\ pages \in [Ids -> SUBSET Users]
  /\ token \in [Ids -> Users \cup {Absent}]
  /\ holders \in [Ids -> SUBSET Users]
  /\ overlapped \in BOOLEAN
  /\ pc \in [Users -> Stages]
  /\ req \in [Users -> Request]
  /\ \A u \in Users : pc[u] \in {"create", "names", "update"} => req[u].draft # Absent

\* A source is changed or deleted only by a request whose page showed what is
\* replaced: between the check of the page's version and the write nothing is lost.
NoLostUpdate ==
  [][\A i \in Existing :
       config'[i] # config[i] =>
         \E u \in Users : pc[u] \in {"update", "delete"} /\ req[u].id = i /\ req[u].saw = config[i]]_vars

\* A request that creates or deletes source i still has to deal with its token.
CaresFor(u, i) ==
  /\ req[u].id = i
  /\ \/ pc[u] = "create"
     \/ pc[u] \in {"readToken", "writeToken"} /\ req[u].token = "delete"

\* A stored token belongs to a source, or to one that a request creates or deletes and
\* will deal with.  Only a deleted source may leave one, and only once requests have
\* overlapped: a PUT stores its token also if the source is gone by then, and the
\* deletion does not look again.
NoOrphanToken ==
  \A i \in Ids :
    token[i] # Absent /\ config[i] = Absent =>
      (\E u \in Users : CaresFor(u, i)) \/ (i \in gone /\ overlapped)

-----------------------------------------------------------------------------
(* What users are promised.  It holds as long as the requests are served   *)
(* one after the other, which the code does not enforce.                   *)

\* Connect names are unique.
NamesUnique ==
  \A i, j \in Existing : config[i].name = config[j].name => i = j \/ overlapped

\* A token is not removed while the source authenticates with it.
TokenInUseIsKept ==
  [][\A i \in Existing :
       token[i] # Absent /\ token'[i] = Absent => config[i].mode # "access-token" \/ overlapped]_vars

\* The request has stored its token: it is decided, and its configuration follows.
Committed(u) == pc[u] = "update" /\ req[u].token = "replace"

\* The source is deleted: its token follows.
Deleted(u) == pc[u] \in {"readToken", "writeToken"} /\ config[req[u].id] = Absent

\* The configurations, tokens and requests of the directory: a token without a source
\* is not seen, and a request that was decided is not asked any more.
Listed == [i \in Ids |->
  IF \E u \in Users : Committed(u) /\ req[u].id = i
  THEN req[CHOOSE u \in Users : Committed(u) /\ req[u].id = i].draft
  ELSE config[i]]
Secrets == [i \in Ids |-> IF config[i] = Absent THEN Absent ELSE token[i]]
Asking(u) == Served(u) /\ ~Committed(u) /\ ~Deleted(u)
Asked == [u \in Users |-> IF Asking(u) THEN req[u] ELSE NoRequest]

\* Requests act like single steps: the token is stored before the configuration and
\* apart from it, but a request that is refused on the way has changed nothing, and
\* one that is served has passed every check on what it replaces.
Directory == INSTANCE SourceDirectory WITH config <- Listed, token <- Secrets, asked <- Asked
ImplementsDirectory == Directory!Spec
===============================================================================
