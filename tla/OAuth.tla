-------------------------------- MODULE OAuth --------------------------------
(***************************************************************************)
(* Guided authorization of one source: OAuthOperations of oauth.py and the *)
(* packaged helper it runs, the requests of api.py that lead to them or    *)
(* write the same secrets (the deletion of the source, the removal of its  *)
(* access token and an edit that brings one included), and the token       *)
(* refresh at activation.                                                  *)
(*                                                                         *)
(* Requests run in threads of the web host.  Every call of a store, of the *)
(* file system or of the helper is one step.  The stores are optimistic: a *)
(* write names the version the request read and is refused if there is a   *)
(* newer one.  Versions are never reused, so instead of a number we keep   *)
(* for each store the set of requests whose last read is still current.    *)
(* An authorization, its URL and the tokens it grants are one number.      *)
(***************************************************************************)
EXTENDS Integers

CONSTANTS
  Requests,     \* threads that serve requests for this source
  MaxAttempts   \* bound: how often the helper may begin an authorization

Nothing == 0
Supplied == -1  \* stands for an access token that a user typed in
Attempts == 1 .. MaxAttempts
Stores == {"operation", "instance", "access", "refresh"}

ASSUME OAuthAssumption == MaxAttempts \in Nat

VARIABLES
  state,     \* state of the stored record, "none" if there is none
  due,       \* its expiresAtUnix has passed
  url,       \* the authorization its authorizationUrl belongs to
  pending,   \* the authorization in pending.json
  begun,     \* how many authorizations the helper began
  shown,     \* authorizations whose URL a user received
  secret,    \* the authorization the stored tokens come from
  deleted,   \* the source was deleted
  current,   \* for each store, the requests whose last read is current
  grant,     \* history: the locals of the exchange that succeeded
  overlapped, \* history: two requests were under way at the same time
  pc,        \* where each request is
  mem        \* its locals: its job; the authorization it began, or whose callback
             \* URL was pasted into it, or whose token it refreshes; and (history)
             \* the stores it wrote on its way

record    == <<state, due, url, grant>>
files     == <<pending, begun, shown>>
stores    == <<secret, deleted, current>>
locals    == <<pc, mem>>
vars      == <<record, files, stores, locals, overlapped>>

Active   == {"waiting-for-callback", "validating"}
Settled  == {"succeeded", "failed", "cancelled", "expired"}
States   == Active \cup Settled \cup {"none"}
Jobs     == {"none", "status", "begin", "exchange", "cancel", "delete", "refresh",
             "edit", "remove"}
Stages   == {"idle", "expire", "unlink", "beginUnlink", "beginHelper", "beginPut",
             "validate", "validated", "helper", "redeem", "access", "accessSet", "refresh",
             "refreshSet", "readInstance", "updateInstance", "succeed", "fail",
             "cancel", "clear", "deleteInstance", "refreshing", "edit"}

NoLocals == [job |-> "none", auth |-> Nothing, wrote |-> {}]

Init ==
  /\ state = "none"
  /\ due = FALSE
  /\ url = Nothing
  /\ pending = Nothing
  /\ begun = 0
  /\ shown = {}
  /\ secret = [s \in {"access", "refresh"} |-> Nothing]
  /\ deleted = FALSE
  /\ current = [s \in Stores |-> {}]
  /\ grant = NoLocals
  /\ overlapped = FALSE
  /\ pc = [t \in Requests |-> "idle"]
  /\ mem = [t \in Requests |-> NoLocals]

-----------------------------------------------------------------------------
(* Stores and requests.                                                    *)

\* A request goes on, or returns and drops its locals.
Goto(t, stage) ==
  /\ pc' = [pc EXCEPT ![t] = stage]
  /\ mem' = IF stage = "idle" THEN [mem EXCEPT ![t] = NoLocals] ELSE mem

\* The same after it wrote to a store.
GotoHaving(t, stage, s) ==
  /\ pc' = [pc EXCEPT ![t] = stage]
  /\ mem' = IF stage = "idle" THEN [mem EXCEPT ![t] = NoLocals]
            ELSE [mem EXCEPT ![t].wrote = @ \cup {s}]

Read(t, s) == current' = [current EXCEPT ![s] = @ \cup {t}]

IsCurrent(t, s) == t \in current[s]

\* The writer knows the version its own write created.
Wrote(t, s) == current' = [current EXCEPT ![s] = {t}]

\* Mutation: the version is not checked.
PutBlindly(t, newState) ==
  /\ state' = newState
  /\ Wrote(t, "operation")

\* A stored document of the operation goes to another state.
Put(t, newState) ==
  /\ IsCurrent(t, "operation")
  /\ state' = newState
  /\ Wrote(t, "operation")

Refused(t, s, stage) ==
  /\ ~IsCurrent(t, s)
  /\ Goto(t, stage)
  /\ UNCHANGED <<record, files, stores>>

\* A request for the source arrives and reads the operation.
Arrive(t, job, auth, stage) ==
  /\ pc[t] = "idle"
  /\ ~deleted
  /\ pc' = [pc EXCEPT ![t] = stage]
  /\ mem' = [mem EXCEPT ![t] = [job |-> job, auth |-> auth, wrote |-> {}]]

\* pending.json is removed, unless the source and with it the path is gone.
Unlink(t) ==
  /\ pc[t] = "unlink"
  /\ pending' = IF deleted THEN pending ELSE Nothing
  /\ Goto(t, IF mem[t].job = "delete" THEN "deleteInstance" ELSE "idle")
  /\ UNCHANGED <<record, begun, shown, stores>>

-----------------------------------------------------------------------------
(* status(): every observation of the source calls it.                     *)

Status(t) ==
  /\ state \in Active /\ due
  /\ Arrive(t, "status", Nothing, "expire")
  /\ Read(t, "operation")
  /\ UNCHANGED <<record, files, secret, deleted>>

Expire(t) ==
  /\ pc[t] = "expire"
  /\ Put(t, "expired")
  /\ Goto(t, "unlink")
  /\ UNCHANGED <<due, url, grant, files, secret, deleted>>

ExpireRefused(t) == pc[t] = "expire" /\ Refused(t, "operation", "idle")

-----------------------------------------------------------------------------
(* begin().                                                                *)

\* Mutation: an operation in progress is not respected.
MayBeginAlways == TRUE

MayBegin == state \in Active => due

Begin(t) ==
  /\ MayBegin
  /\ Arrive(t, "begin", Nothing, "beginUnlink")
  /\ Read(t, "operation")
  /\ UNCHANGED <<record, files, secret, deleted>>

BeginUnlink(t) ==
  /\ pc[t] = "beginUnlink"
  /\ pending' = IF deleted THEN pending ELSE Nothing
  /\ Goto(t, IF deleted THEN "idle" ELSE "beginHelper")
  /\ UNCHANGED <<record, begun, shown, stores>>

\* The helper writes a new pending.json.
BeginHelper(t) ==
  /\ pc[t] = "beginHelper"
  /\ begun < MaxAttempts
  /\ begun' = begun + 1
  /\ pending' = begun'
  /\ pc' = [pc EXCEPT ![t] = "beginPut"]
  /\ mem' = [mem EXCEPT ![t].auth = begun']
  /\ UNCHANGED <<record, shown, stores>>

\* The helper fails, takes too long or answers nothing useful, perhaps after it wrote
\* the file.
BeginHelperFails(t) ==
  /\ pc[t] = "beginHelper"
  /\ \/ UNCHANGED <<begun, pending>>
     \/ /\ begun < MaxAttempts
        /\ begun' = begun + 1
        /\ pending' = begun'
  /\ Goto(t, "idle")
  /\ UNCHANGED <<record, shown, stores>>

BeginPut(t) ==
  /\ pc[t] = "beginPut"
  /\ Put(t, "waiting-for-callback")
  /\ due' = FALSE
  /\ url' = mem[t].auth
  /\ shown' = shown \cup {mem[t].auth}
  /\ Goto(t, "idle")
  /\ UNCHANGED <<grant, pending, begun, secret, deleted>>

BeginRefused(t) == pc[t] = "beginPut" /\ Refused(t, "operation", "idle")

-----------------------------------------------------------------------------
(* exchange(): the user pasted the callback URL of authorization a, or     *)
(* something else (Nothing).                                               *)

Exchange(t, a) ==
  /\ state = "waiting-for-callback" /\ ~due
  /\ Arrive(t, "exchange", a, "validate")
  /\ Read(t, "operation")
  /\ UNCHANGED <<record, files, secret, deleted>>

Validate(t) ==
  /\ pc[t] = "validate"
  /\ Put(t, "validating")
  /\ Goto(t, "validated")
  /\ UNCHANGED <<due, url, grant, files, secret, deleted>>

ValidateRefused(t) == pc[t] = "validate" /\ Refused(t, "operation", "idle")

\* load_runtime_assets() is outside the try: if it raises, nothing is undone.
LoadHelper(t) ==
  /\ pc[t] = "validated"
  /\ Goto(t, "idle") \/ Goto(t, "helper")
  /\ UNCHANGED <<record, files, stores>>

\* Mutation: the CSRF state of the callback is not compared.
AcceptsAny(t) == pending # Nothing

Accepts(t) == pending # Nothing /\ mem[t].auth = pending

\* The helper compares the callback with pending.json.
HelperAccepts(t) ==
  /\ pc[t] = "helper"
  /\ Accepts(t)
  /\ Goto(t, "redeem")
  /\ UNCHANGED <<record, files, stores>>

\* Mutation: success is recorded before the tokens are stored.
HelperRedeemsFirst(t) ==
  /\ pc[t] = "redeem"
  /\ pending # Nothing
  /\ pending' = Nothing
  /\ Goto(t, "succeed")
  /\ UNCHANGED <<record, begun, shown, stores>>

\* Spotify grants the tokens, and the helper removes whatever pending.json is
\* there now.
HelperRedeems(t) ==
  /\ pc[t] = "redeem"
  /\ pending # Nothing
  /\ pending' = Nothing
  /\ Goto(t, "access")
  /\ UNCHANGED <<record, begun, shown, stores>>

\* The helper rejects the callback, Spotify refuses, pending.json is missing, or
\* the time is up before or after it was removed.
HelperFails(t) ==
  /\ \/ pc[t] = "helper" /\ UNCHANGED pending
     \/ pc[t] = "redeem" /\ pending' \in {pending, Nothing}
  /\ Goto(t, "fail")
  /\ UNCHANGED <<record, begun, shown, stores>>

UpdateInstance(t) ==
  \/ /\ pc[t] = "readInstance"
     /\ ~deleted
     /\ Read(t, "instance")
     /\ Goto(t, "updateInstance")
     /\ UNCHANGED <<record, files, secret, deleted>>
  \/ /\ pc[t] = "updateInstance"
     /\ IsCurrent(t, "instance")
     /\ Wrote(t, "instance")
     /\ GotoHaving(t, "succeed", "instance")
     /\ UNCHANGED <<record, files, secret, deleted>>

UpdateFails(t) ==
  /\ \/ pc[t] = "readInstance" /\ deleted
     \/ pc[t] = "updateInstance" /\ ~IsCurrent(t, "instance")
  /\ Goto(t, "fail")
  /\ UNCHANGED <<record, files, stores>>

Succeed(t) ==
  /\ pc[t] = "succeed"
  /\ Put(t, "succeeded")
  /\ grant' = mem[t]
  /\ Goto(t, "idle")
  /\ UNCHANGED <<due, url, files, secret, deleted>>

SucceedRefused(t) == pc[t] = "succeed" /\ Refused(t, "operation", "fail")

\* The except branch of exchange().  A refused put ends it: the file stays.
Fail(t) ==
  /\ pc[t] = "fail"
  /\ Put(t, "failed")
  /\ Goto(t, "unlink")
  /\ UNCHANGED <<due, url, grant, files, secret, deleted>>

FailRefused(t) == pc[t] = "fail" /\ Refused(t, "operation", "idle")

-----------------------------------------------------------------------------
(* The secrets: exchange() and refresh_oauth_access_token() replace both,  *)
(* the deletion of the source removes both (auth is Nothing).  An edit     *)
(* replaces the access token before it stores its configuration, and       *)
(* clear-access-token removes it.                                          *)

\* The secret that a stage is about.
Cell(stage) == IF stage \in {"access", "accessSet"} THEN "access" ELSE "refresh"

AfterSecret(t, s) ==
  CASE mem[t].job = "edit"   -> "edit"
    [] mem[t].job = "remove" -> "idle"
    [] OTHER -> IF s = "access" THEN "refresh"
                ELSE IF mem[t].job = "exchange" THEN "readInstance" ELSE "idle"

ReadSecret(t) ==
  /\ pc[t] \in {"access", "refresh"}
  /\ Read(t, pc[t])
  /\ Goto(t, IF pc[t] = "access" THEN "accessSet" ELSE "refreshSet")
  /\ UNCHANGED <<record, files, secret, deleted>>

\* Mutation: the deletion forgets the refresh token.
SkipSecretAlways(t) ==
  /\ pc[t] = "refresh"
  /\ Goto(t, AfterSecret(t, "refresh"))
  /\ UNCHANGED <<record, files, stores>>

\* No new refresh token was granted, or there is no secret to delete.
SkipSecret(t) ==
  /\ IF mem[t].job \in {"delete", "remove"}
     THEN pc[t] \in {"access", "refresh"} /\ secret[pc[t]] = Nothing
     ELSE pc[t] = "refresh"
  /\ Goto(t, AfterSecret(t, pc[t]))
  /\ UNCHANGED <<record, files, stores>>

WriteSecret(t) ==
  /\ pc[t] \in {"accessSet", "refreshSet"}
  /\ LET s == Cell(pc[t]) IN
     /\ IsCurrent(t, s)
     /\ Wrote(t, s)
     /\ secret' = [secret EXCEPT ![s] = mem[t].auth]
     /\ GotoHaving(t, AfterSecret(t, s), s)
  /\ UNCHANGED <<record, files, deleted>>

SecretRefused(t) ==
  /\ pc[t] \in {"accessSet", "refreshSet"}
  /\ Refused(t, Cell(pc[t]), IF mem[t].job = "exchange" THEN "fail" ELSE "idle")

\* A PUT with a token, and clear-access-token; Sources has their checks.
EditWithToken(t) ==
  /\ Arrive(t, "edit", Supplied, "access")
  /\ Read(t, "instance")
  /\ UNCHANGED <<record, files, secret, deleted>>

RemoveToken(t) ==
  /\ Arrive(t, "remove", Nothing, "access")
  /\ UNCHANGED <<record, files, stores>>

EditInstance(t) ==
  /\ pc[t] = "edit"
  /\ IsCurrent(t, "instance")
  /\ Wrote(t, "instance")
  /\ Goto(t, "idle")
  /\ UNCHANGED <<record, files, secret, deleted>>

EditRefused(t) == pc[t] = "edit" /\ Refused(t, "instance", "idle")

\* refresh_oauth_access_token() resolves the stored refresh token.
Refresh(t) ==
  /\ secret["refresh"] # Nothing
  /\ Arrive(t, "refresh", secret["refresh"], "refreshing")
  /\ UNCHANGED <<record, files, stores>>

\* Spotify grants another access token, or refuses.
Refreshed(t) ==
  /\ pc[t] = "refreshing"
  /\ Goto(t, "idle") \/ Goto(t, "access")
  /\ UNCHANGED <<record, files, stores>>

-----------------------------------------------------------------------------
(* cancel().                                                               *)

\* Mutation: an operation that is settled can be cancelled.
CancelAny(t) ==
  /\ state # "none"
  /\ Arrive(t, "cancel", Nothing, "cancel")
  /\ Read(t, "operation")
  /\ UNCHANGED <<record, files, secret, deleted>>

Cancel(t) ==
  /\ state \in Active
  /\ Arrive(t, "cancel", Nothing, "cancel")
  /\ Read(t, "operation")
  /\ UNCHANGED <<record, files, secret, deleted>>

\* Mutation: pending.json is kept.
CancelPutKeepsFile(t) ==
  /\ pc[t] = "cancel"
  /\ Put(t, "cancelled")
  /\ Goto(t, "idle")
  /\ UNCHANGED <<due, url, grant, files, secret, deleted>>

CancelPut(t) ==
  /\ pc[t] = "cancel"
  /\ Put(t, "cancelled")
  /\ Goto(t, "unlink")
  /\ UNCHANGED <<due, url, grant, files, secret, deleted>>

CancelRefused(t) == pc[t] = "cancel" /\ Refused(t, "operation", "idle")

-----------------------------------------------------------------------------
(* DELETE of the source: clear(), the instance, then its two secrets.      *)

Delete(t) ==
  /\ Arrive(t, "delete", Nothing, IF state = "none" THEN "unlink" ELSE "clear")
  /\ current' = [current EXCEPT !["operation"] = @ \cup {t}, !["instance"] = @ \cup {t}]
  /\ UNCHANGED <<record, files, secret, deleted>>

Clear(t) ==
  /\ pc[t] = "clear"
  /\ Put(t, "none")
  /\ due' = FALSE
  /\ url' = Nothing
  /\ Goto(t, "unlink")
  /\ UNCHANGED <<grant, files, secret, deleted>>

ClearRefused(t) == pc[t] = "clear" /\ Refused(t, "operation", "idle")

DeleteInstance(t) ==
  /\ pc[t] = "deleteInstance"
  /\ IsCurrent(t, "instance")
  /\ deleted' = TRUE
  /\ current' = [current EXCEPT !["instance"] = {}]
  /\ Goto(t, "access")
  /\ UNCHANGED <<record, files, secret>>

DeleteRefused(t) == pc[t] = "deleteInstance" /\ Refused(t, "instance", "idle")

-----------------------------------------------------------------------------
(* Ten minutes pass; somebody edits the source without a token or enables  *)
(* it.                                                                     *)

Age ==
  /\ state \in Active
  /\ ~due
  /\ due' = TRUE
  /\ UNCHANGED <<state, url, grant, files, stores, locals>>

Edit ==
  /\ ~deleted
  /\ current' = [current EXCEPT !["instance"] = {}]
  /\ UNCHANGED <<record, files, secret, deleted, locals>>

Request(t) ==
  \/ Status(t) \/ Begin(t) \/ Cancel(t) \/ Delete(t) \/ Refresh(t)
  \/ EditWithToken(t) \/ RemoveToken(t)
  \/ \E a \in shown \cup {Nothing} : Exchange(t, a)

Continue(t) ==
  \/ Unlink(t) \/ Expire(t) \/ ExpireRefused(t)
  \/ BeginUnlink(t) \/ BeginHelper(t) \/ BeginHelperFails(t) \/ BeginPut(t) \/ BeginRefused(t)
  \/ Validate(t) \/ ValidateRefused(t) \/ LoadHelper(t)
  \/ HelperAccepts(t) \/ HelperRedeems(t) \/ HelperFails(t)
  \/ ReadSecret(t) \/ SkipSecret(t) \/ WriteSecret(t) \/ SecretRefused(t) \/ Refreshed(t)
  \/ EditInstance(t) \/ EditRefused(t)
  \/ UpdateInstance(t) \/ UpdateFails(t)
  \/ Succeed(t) \/ SucceedRefused(t) \/ Fail(t) \/ FailRefused(t)
  \/ CancelPut(t) \/ CancelRefused(t)
  \/ Clear(t) \/ ClearRefused(t) \/ DeleteInstance(t) \/ DeleteRefused(t)

Step ==
  \/ \E t \in Requests : Request(t) \/ Continue(t)
  \/ Age
  \/ Edit

Idle == \A t \in Requests : pc[t] = "idle"

Overlapping == \E t, u \in Requests : t # u /\ pc[t] # "idle" /\ pc[u] # "idle"

Next == Step /\ overlapped' = (overlapped \/ Overlapping')

Spec == Init /\ [][Next]_vars

-----------------------------------------------------------------------------
(* Properties of every schedule.                                           *)

Locals == [job : Jobs, auth : Attempts \cup {Nothing, Supplied}, wrote : SUBSET Stores]

\* Each variable has its type.
TypeOK ==
  /\ state \in States
  /\ due \in BOOLEAN
  /\ {url, pending} \subseteq Attempts \cup {Nothing}
  /\ begun \in 0 .. MaxAttempts
  /\ shown \subseteq Attempts
  /\ secret \in [{"access", "refresh"} -> Attempts \cup {Nothing, Supplied}]
  /\ {deleted, overlapped} \subseteq BOOLEAN
  /\ current \in [Stores -> SUBSET Requests]
  /\ pc \in [Requests -> Stages]
  /\ mem \in [Requests -> Locals]
  /\ grant \in Locals

\* An operation succeeds only with the tokens granted for its own URL, although
\* pending.json is one file that overlapping begins and exchanges share.
SucceedsByItsOwnUrl == state = "succeeded" => grant.auth = url

\* An operation is shown as succeeded only by an exchange that stored its access token
\* and then switched the source to it, however many requests write the same places
\* meanwhile.  (A later request may remove or replace the token: clear-access-token and
\* an edit do not touch the operation.)
SucceededIsStored == state = "succeeded" => {"access", "instance"} \subseteq grant.wrote

\* The stored operation behaves like the operation promised to the user, whatever
\* requests overlap: no late write revives or overwrites what was settled.
Operation == INSTANCE AuthorizationOperation
ImplementsOperation == Operation!Spec

-----------------------------------------------------------------------------
(* What users are promised.  It holds as long as the requests for this     *)
(* source are served one after the other, which the code does not enforce. *)

\* An authorization that was cancelled leaves no tokens behind.
CancelHolds ==
  Idle /\ ~overlapped /\ state = "cancelled" => secret["access"] # url

\* An operation that waits for its callback can be completed: the helper still
\* has the verifier of its URL (pending.json is outside of the versioned store).
WaitingCanComplete ==
  Idle /\ ~overlapped /\ state = "waiting-for-callback" /\ ~due => pending = url

\* Nothing private is left of a deleted source, although clear(), the instance and
\* its two secrets are removed in separate steps.
DeletionIsComplete ==
  Idle /\ ~overlapped /\ deleted =>
    /\ state = "none"
    /\ pending = Nothing
    /\ \A s \in {"access", "refresh"} : secret[s] = Nothing

\* What a settled operation leaves on disk: no verifier that a callback could redeem.
\* begin() may have failed since and left a file, but nobody was shown its URL.
VerifierGone == Idle /\ ~overlapped /\ state \in Settled => pending \notin shown
===============================================================================
