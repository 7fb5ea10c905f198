---------------------------- MODULE SourceDirectory ----------------------------
(***************************************************************************)
(* What the API promises about sources, with no pages, versions or stores: *)
(* a directory that serves each request in one step, all of it or nothing. *)
(* It promises this as long as no two requests are served at once.         *)
(***************************************************************************)

CONSTANTS Users, Ids, Names, Absent

Configurations == [name : Names, mode : {"discovery", "access-token"}]
Request == [id : Ids \cup {Absent},
            saw : Configurations \cup {Absent},
            draft : Configurations \cup {Absent},
            token : {"keep", "replace", "remove", "delete"}]
NoRequest == [id |-> Absent, saw |-> Absent, draft |-> Absent, token |-> "keep"]

VARIABLES
  config,      \* the configuration of each source, or Absent
  token,       \* the user whose access token each source has, or Absent
  asked,       \* the request of each user that is not decided yet
  overlapped   \* two requests were served at once
vars == <<config, token, asked>>

Init ==
  /\ config = [i \in Ids |-> Absent]
  /\ token = [i \in Ids |-> Absent]
  /\ asked = [u \in Users |-> NoRequest]

Ask(u) ==
  /\ asked[u] = NoRequest
  /\ \E r \in Request : asked' = [asked EXCEPT ![u] = r]
  /\ UNCHANGED <<config, token>>

\* No other source has the name of configuration c.
Free(i, c) == \A j \in Ids \ {i} : config[j] # Absent => config[j].name # c.name

Decided(u) == asked[u] # NoRequest /\ asked' = [asked EXCEPT ![u] = NoRequest]

\* Whatever the reason, a declined request changes nothing.
Decline(u) == Decided(u) /\ UNCHANGED <<config, token>>

\* A new source, with a token if it authenticates with one.
Create(u, r) ==
  /\ Decided(u)
  /\ config[r.id] = Absent /\ Free(r.id, r.draft)
  /\ config' = [config EXCEPT ![r.id] = r.draft]
  /\ token' = [token EXCEPT ![r.id] = IF r.draft.mode = "access-token" THEN u ELSE Absent]

\* The source is as the user saw it, and gets the configuration and the token together.
Change(u, r) ==
  /\ Decided(u)
  /\ r.token \in {"keep", "replace"}
  /\ config[r.id] # Absent /\ r.saw = config[r.id] /\ Free(r.id, r.draft)
  /\ config' = [config EXCEPT ![r.id] = r.draft]
  /\ token' = IF r.token = "replace" THEN [token EXCEPT ![r.id] = u] ELSE token

\* A source that authenticates with its token keeps it.
Remove(u, r) ==
  /\ Decided(u)
  /\ r.token = "remove"
  /\ config[r.id] # Absent /\ config[r.id].mode # "access-token"
  /\ token' = [token EXCEPT ![r.id] = Absent]
  /\ UNCHANGED config

\* The source is as the user saw it, and goes together with its token.
Delete(u, r) ==
  /\ Decided(u)
  /\ r.token = "delete"
  /\ config[r.id] # Absent /\ r.saw = config[r.id]
  /\ config' = [config EXCEPT ![r.id] = Absent]
  /\ token' = [token EXCEPT ![r.id] = Absent]

Serve(u) ==
  \/ Ask(u) \/ Decline(u)
  \/ LET r == asked[u] IN Create(u, r) \/ Change(u, r) \/ Remove(u, r) \/ Delete(u, r)

Next == overlapped' \/ \E u \in Users : Serve(u)

Spec == Init /\ [][Next]_vars
===============================================================================
