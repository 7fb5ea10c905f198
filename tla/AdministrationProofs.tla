-------------------------- MODULE AdministrationProofs --------------------------
(***************************************************************************)
(* What holds of a source from its creation to its removal, for any        *)
(* switches, fields and directories.  What is stored and launched is as in *)
(* LaunchingProofs, whose invariant Inv is part of the one here.           *)
(***************************************************************************)
EXTENDS Administration, LaunchingProofs

\* A restart that is pending launches something that is announced or holds a token, with
\* the same exception.
PlanIsSound ==
  plan # NoPlan =>
    /\ plan.mode \in Modes
    /\ \/ "disable-discovery" \notin plan.options
       \/ plan.token
       \/ /\ plan.mode = "oauth-cache" /\ plan.bare
          /\ "disable-credential-cache" \notin plan.options

\* What runs, or is about to run again, was started by the host and can be found.
Held ==
  running # NoPlan \/ monitor = "asleep" =>
    registered /\ private /\ plugin /\ observed = "started"

Matches(p) == desired = "enabled" /\ p.mode = stored.mode /\ p.options = Options(stored)

\* Unless the host has yet to act, it is what the stored configuration asks for.
Follows ==
  stored # NoDocument /\ ~due =>
    /\ running # NoPlan => Matches(running)
    /\ monitor = "asleep" => Matches(plan)

Gone ==
  desired = "deleted" =>
    /\ ~access /\ ~refresh
    /\ ~due => running = NoPlan /\ ~registered /\ ~private

Kept == Held /\ Follows /\ Gone

AdminInv == AdminTypeOK /\ Inv /\ PlanIsSound /\ (undone \/ Kept)

LEMMA InitAdminInv == AdminInit => AdminInv
  <1> SUFFICES ASSUME AdminInit PROVE AdminInv
    OBVIOUS
  <1>1. Inv /\ TypeOK /\ stored = NoDocument /\ running = NoPlan
    BY InitInv, InitType DEF AdminInit, Init
  <1>2. AdminTypeOK
    BY <1>1 DEF AdminInit, AdminTypeOK
  <1>3. PlanIsSound /\ Kept
    BY <1>1 DEF AdminInit, PlanIsSound, Kept, Held, Follows, Gone
  <1>4. QED
    BY <1>1, <1>2, <1>3 DEF AdminInv

-----------------------------------------------------------------------------
(* The requests.                                                           *)

\* A request that leads to a later call, or that leaves the configuration alone.
LEMMA RequestKept ==
  ASSUME Kept, UNCHANGED <<running, observed, plugin, supervision, private>>,
         due' \/ UNCHANGED <<stored, desired, due>>,
         desired' = "deleted" => (due' \/ desired = "deleted") /\ ~access' /\ ~refresh'
  PROVE  Kept'
  BY DEF Kept, Held, Follows, Gone, Matches, supervision

LEMMA StoreInv ==
  ASSUME AdminInv,
         \/ \E doc \in Document, token \in BOOLEAN : AdminSubmit(doc, token)
         \/ AdminSubmitRefused \/ ClearAccessToken \/ AdminAuthorize \/ AdminRemount
  PROVE  AdminInv'
  <1>1. Next
    BY DEF Next, AdminSubmit, AdminSubmitRefused, ClearAccessToken, AdminAuthorize, AdminRemount
  <1>2. TypeOK' /\ Inv'
    BY <1>1, NextInv, TypeStep DEF AdminInv, AdminTypeOK
  <1>3. UNCHANGED <<running, observed, plugin, supervision, private>>
    BY DEF AdminSubmit, AdminSubmitRefused, ClearAccessToken, AdminAuthorize, AdminRemount,
           Submit, SubmitRefused, RemoveToken, Authorize, Remount, host
  <1> DEFINE Written ==
        /\ due' \in BOOLEAN
        /\ due' \/ UNCHANGED <<stored, desired, due>>
        /\ desired' \in {"none", "enabled", "disabled", "deleted"}
        /\ stored' = NoDocument <=> desired' \in {"none", "deleted"}
        /\ desired' = "deleted" => desired = "deleted" /\ UNCHANGED <<access, refresh>>
  <1>4. Written
    <2>1. ASSUME NEW doc \in Document, NEW token \in BOOLEAN, AdminSubmit(doc, token) PROVE Written
      <3>1. doc # NoDocument
        BY DEF Document, Modes, NoDocument
      <3>2. QED
        BY <2>1, <3>1 DEF AdminSubmit, Submit, AdminInv, AdminTypeOK
    <2>2. CASE AdminAuthorize
      <3>1. [stored EXCEPT !.mode = "oauth-cache", !.on = @ \cup {"credentialsEnabled"}] # NoDocument
        <4>1. stored \in Document
          BY <2>2 DEF AdminAuthorize, Authorize, AdminInv, AdminTypeOK, TypeOK
        <4>2. QED
          BY <4>1 DEF Document, NoDocument
      <3>2. QED
        BY <2>2, <3>1 DEF AdminAuthorize, Authorize, AdminInv, AdminTypeOK
    <2>3. CASE AdminSubmitRefused \/ ClearAccessToken \/ AdminRemount
      BY <2>3 DEF AdminSubmitRefused, ClearAccessToken, AdminRemount, SubmitRefused, RemoveToken, Remount,
                  host, AdminInv, AdminTypeOK
    <2>4. QED
      BY <2>1, <2>2, <2>3
  <1>5. facts' = facts
    BY DEF AdminSubmit, AdminSubmitRefused, ClearAccessToken, AdminAuthorize, AdminRemount, host
  <1>6. AdminTypeOK'
    BY <1>2, <1>3, <1>4, <1>5 DEF AdminInv, AdminTypeOK, supervision
  <1>7. undone' \/ Kept'
    <2>1. ASSUME Kept, desired' = "deleted" PROVE ~access' /\ ~refresh'
      BY <1>4, <2>1 DEF Kept, Gone
    <2>2. QED
      BY <1>3, <1>4, <2>1, RequestKept DEF AdminInv, supervision
  <1>8. QED
    BY <1>2, <1>3, <1>6, <1>7 DEF AdminInv, PlanIsSound, supervision

LEMMA ActInv ==
  ASSUME AdminInv, NEW a \in {"start", "stop", "restart"}, Act(a)
  PROVE  AdminInv'
  <1>1. /\ due' = TRUE /\ stored # NoDocument
        /\ UNCHANGED <<vars, observed, facts, plugin, supervision, private>>
    BY DEF Act, Served
  <1>2. desired' \in {"enabled", "disabled"}
    BY <1>1 DEF Act, AdminInv, AdminTypeOK
  <1>3. Inv' /\ TypeOK'
    BY <1>1, NextInv, TypeStep DEF AdminInv, AdminTypeOK
  <1>4. undone' \/ Kept'
    BY <1>1, <1>2, RequestKept DEF AdminInv, vars, supervision
  <1>5. QED
    BY <1>1, <1>2, <1>3, <1>4 DEF AdminInv, AdminTypeOK, PlanIsSound, vars, supervision

LEMMA DeleteInv ==
  ASSUME AdminInv, Delete
  PROVE  AdminInv'
  <1>1. /\ stored' = NoDocument /\ access' = FALSE /\ refresh' = FALSE /\ outcome' = "none"
        /\ desired' = "deleted" /\ due' = TRUE
        /\ UNCHANGED <<readable, running, observed, facts, plugin, supervision, private>>
    BY DEF Delete
  <1>2. Inv'
    BY <1>1 DEF AdminInv, Inv, StoredIsSound, RaisedForCause, OnlyBareIsUnreachable
  <1>3. AdminTypeOK'
    BY <1>1 DEF AdminInv, AdminTypeOK, TypeOK, supervision
  <1>4. undone' \/ Kept'
    BY <1>1, RequestKept DEF AdminInv, supervision
  <1>5. QED
    BY <1>1, <1>2, <1>3, <1>4 DEF AdminInv, PlanIsSound, supervision

-----------------------------------------------------------------------------
(* The supervisor.                                                         *)

LEMMA CrashInv ==
  ASSUME AdminInv, Crash
  PROVE  AdminInv'
  <1>1. /\ running # NoPlan /\ running' = NoPlan /\ monitor = "none" /\ explicit' = FALSE
        /\ \/ monitor' = "asleep" /\ plan' = running
           \/ UNCHANGED <<monitor, plan>>
        /\ UNCHANGED <<stored, access, refresh, readable, outcome, host, registered, private, undone>>
    BY DEF Crash
  <1>2. Deactivate
    BY <1>1 DEF Deactivate
  <1>3. Inv' /\ TypeOK'
    BY <1>2, NextInv, TypeStep DEF AdminInv, AdminTypeOK, Next
  <1>4. AdminTypeOK'
    BY <1>1, <1>3 DEF AdminInv, AdminTypeOK, host
  <1>5. PlanIsSound'
    BY <1>1 DEF AdminInv, AdminTypeOK, TypeOK, Inv, OnlyBareIsUnreachable, PlanIsSound
  <1>6. undone' \/ Kept'
    BY <1>1 DEF AdminInv, Kept, Held, Follows, Gone, Matches, host
  <1>7. QED
    BY <1>3, <1>4, <1>5, <1>6 DEF AdminInv

LEMMA WakeInv ==
  ASSUME AdminInv, Wake
  PROVE  AdminInv'
  <1>1. /\ monitor # "none" /\ monitor' = "none" /\ plan' = NoPlan
        /\ running' \in {plan, NoPlan} /\ explicit' \in BOOLEAN
        /\ undone' = (undone \/ monitor = "late")
        /\ UNCHANGED <<stored, access, refresh, readable, outcome, host, registered, private>>
    BY DEF Wake
  <1>2. Inv'
    BY <1>1 DEF AdminInv, PlanIsSound, Inv, StoredIsSound, RaisedForCause, CanPlan, Valid, OnlyBareIsUnreachable
  <1>3. AdminTypeOK'
    BY <1>1 DEF AdminInv, AdminTypeOK, TypeOK, PlanIsSound, host
  <1>4. undone' \/ Kept'
    BY <1>1 DEF AdminInv, AdminTypeOK, Kept, Held, Follows, Gone, Matches, host
  <1>5. QED
    BY <1>1, <1>2, <1>3, <1>4 DEF AdminInv, PlanIsSound

-----------------------------------------------------------------------------
(* The calls of the host.                                                  *)

LEMMA StoppedEffect ==
  ASSUME AdminInv, Stopped, UNCHANGED plan
  PROVE  /\ running' = NoPlan /\ explicit' = TRUE
         /\ monitor' \in {"none", "late"} /\ (monitor' = "none" <=> plan' = NoPlan)
         /\ PlanIsSound'
  BY DEF AdminInv, AdminTypeOK, Stopped, Disturbed, PlanIsSound

\* An activation, in the two situations the host makes one.
LEMMA ActivateWithInv ==
  ASSUME AdminInv, Reconcile, desired = "enabled",
         NEW kept \in {running, NoPlan}, NEW stops \in BOOLEAN, ActivateWith(kept, stops),
         \/ kept = NoPlan /\ stops
         \/ kept = running /\ observed # "started"
  PROVE  AdminInv'
  <1>1. /\ due' = FALSE /\ facts' = "none" /\ plugin /\ stored # NoDocument
        /\ UNCHANGED <<desired, plugin, plan, undone, stored, refresh, readable>>
    BY DEF Reconcile, ActivateWith, AdminInv, AdminTypeOK
  <1>2. Activate
    BY <1>1 DEF ActivateWith, Activate
  <1>3. Inv' /\ TypeOK'
    BY <1>2, NextInv, TypeStep DEF AdminInv, AdminTypeOK, Next
  <1>4. /\ registered' \in BOOLEAN /\ explicit' \in BOOLEAN /\ private' \in BOOLEAN
        /\ monitor' \in {monitor, Disturbed}
        /\ observed' = IF outcome' = "launched" THEN "started" ELSE "failed"
    BY DEF ActivateWith, AdminInv, AdminTypeOK
  <1>5. Disturbed \in {"none", "late"} /\ (Disturbed = "none" <=> monitor = "none")
    BY DEF Disturbed, AdminInv, AdminTypeOK
  <1>6. AdminTypeOK'
    BY <1>1, <1>3, <1>4, <1>5 DEF AdminInv, AdminTypeOK
  <1>7. ASSUME Kept PROVE Kept'
    <2>1. kept = NoPlan /\ (stops \/ monitor # "asleep")
      BY <1>7 DEF Kept, Held
    <2>2. \/ running' = NoPlan /\ monitor' # "asleep"
          \/ /\ registered' /\ private' /\ outcome' = "launched" /\ monitor' # "asleep"
             /\ running' = [mode |-> stored.mode, options |-> Options(stored),
                          token |-> Token(access'), bare |-> ~access /\ ~refresh]
      BY <2>1, <1>5 DEF ActivateWith, Unavailable, Plan
    <2>3. Held'
      BY <1>1, <1>4, <2>2 DEF Held
    <2>4. Follows'
      BY <1>1, <2>2 DEF Follows, Matches
    <2>5. QED
      BY <1>1, <2>3, <2>4 DEF Kept, Gone
  <1>8. QED
    BY <1>1, <1>3, <1>6, <1>7 DEF AdminInv, PlanIsSound

LEMMA ReconcileInv ==
  ASSUME AdminInv, Reconcile
  PROVE  AdminInv'
  <1>1. CASE desired = "enabled" /\ Start
    BY <1>1, ActivateWithInv DEF Start
  <1>2. CASE desired = "enabled" /\ Reconfigure
    BY <1>2, ActivateWithInv DEF Reconfigure
  <1>3. CASE desired = "disabled" /\ HostDeactivate
    <2>1. /\ Stopped /\ observed' = "stopped" /\ registered' = TRUE /\ private' = TRUE
          /\ due' = FALSE /\ facts' = "none"
          /\ UNCHANGED <<stored, access, refresh, readable, outcome, desired, plugin, plan, undone>>
      BY <1>3 DEF HostDeactivate, Reconcile
    <2>2. /\ running' = NoPlan /\ explicit' = TRUE
          /\ monitor' \in {"none", "late"} /\ (monitor' = "none" <=> plan' = NoPlan)
          /\ PlanIsSound'
      BY <2>1, StoppedEffect
    <2>3. Deactivate
      BY <2>1, <2>2 DEF Deactivate
    <2>4. Inv' /\ TypeOK'
      BY <2>3, NextInv, TypeStep DEF AdminInv, AdminTypeOK, Next
    <2>5. AdminTypeOK'
      BY <2>1, <2>2, <2>4 DEF AdminInv, AdminTypeOK
    <2>6. undone' \/ Kept'
      BY <1>3, <2>1, <2>2 DEF AdminInv, Kept, Held, Follows, Gone
    <2>7. QED
      BY <2>2, <2>4, <2>5, <2>6 DEF AdminInv
  <1>4. QED
    BY <1>1, <1>2, <1>3 DEF Reconcile

LEMMA CleanupInv ==
  ASSUME AdminInv, Cleanup
  PROVE  AdminInv'
  <1>1. /\ Stopped /\ registered' = FALSE /\ desired = "deleted"
        /\ private' = due' /\ private' \in BOOLEAN
        /\ UNCHANGED <<stored, access, refresh, readable, outcome,
                       desired, observed, facts, plugin, plan, undone>>
    BY DEF Cleanup, AdminInv, AdminTypeOK
  <1>2. /\ running' = NoPlan /\ explicit' = TRUE
        /\ monitor' \in {"none", "late"} /\ (monitor' = "none" <=> plan' = NoPlan)
        /\ PlanIsSound'
    BY <1>1, StoppedEffect
  <1>3. Deactivate
    BY <1>1, <1>2 DEF Deactivate
  <1>4. Inv' /\ TypeOK'
    BY <1>3, NextInv, TypeStep DEF AdminInv, AdminTypeOK, Next
  <1>5. AdminTypeOK'
    BY <1>1, <1>2, <1>4 DEF AdminInv, AdminTypeOK
  <1>6. undone' \/ Kept'
    BY <1>1, <1>2 DEF AdminInv, AdminTypeOK, Kept, Held, Follows, Gone
  <1>7. QED
    BY <1>2, <1>4, <1>5, <1>6 DEF AdminInv

LEMMA ObserveInv ==
  ASSUME AdminInv, Observe
  PROVE  AdminInv'
  <1>1. /\ stored # NoDocument /\ facts' = Lifecycle /\ registered' = TRUE /\ private' = TRUE
        /\ UNCHANGED <<vars, desired, observed, due, plugin, explicit, monitor, plan, undone>>
    BY DEF Observe, Served
  <1>2. Inv' /\ TypeOK'
    BY <1>1, NextInv, TypeStep DEF AdminInv, AdminTypeOK
  <1>3. Lifecycle \in {"none", "running", "stopped", "failed"}
    BY DEF Lifecycle
  <1>4. AdminTypeOK'
    BY <1>1, <1>2, <1>3 DEF AdminInv, AdminTypeOK, vars
  <1>5. undone' \/ Kept'
    BY <1>1 DEF AdminInv, AdminTypeOK, Kept, Held, Follows, Gone, Matches, vars
  <1>6. QED
    BY <1>1, <1>2, <1>4, <1>5 DEF AdminInv, PlanIsSound

LEMMA DisableInv ==
  ASSUME AdminInv, Disable
  PROVE  AdminInv'
  <1>1. /\ plugin' = FALSE
        /\ IF registered THEN Stopped ELSE UNCHANGED <<running, explicit, monitor>>
        /\ UNCHANGED <<stored, access, refresh, readable, outcome,
                       desired, observed, due, facts, registered, plan, private, undone>>
    BY DEF Disable
  <1>2. /\ running' \in {running, NoPlan} /\ explicit' \in BOOLEAN
        /\ monitor' \in {"none", "asleep", "late"} /\ (monitor' = "none" <=> plan' = NoPlan)
        /\ PlanIsSound'
    <2>1. CASE registered
      BY <1>1, <2>1, StoppedEffect
    <2>2. CASE ~registered
      BY <1>1, <2>2 DEF AdminInv, AdminTypeOK, PlanIsSound
    <2>3. QED
      BY <2>1, <2>2
  <1>3. Deactivate \/ UNCHANGED vars
    BY <1>1, <1>2 DEF Deactivate, vars
  <1>4. Inv' /\ TypeOK'
    BY <1>3, NextInv, TypeStep DEF AdminInv, AdminTypeOK, Next
  <1>5. AdminTypeOK'
    BY <1>1, <1>2, <1>4 DEF AdminInv, AdminTypeOK
  <1>6. ASSUME Kept PROVE Kept'
    <2>1. running' = NoPlan /\ monitor' # "asleep"
      BY <1>1, <1>6, StoppedEffect DEF Kept, Held
    <2>2. QED
      BY <1>1, <1>6, <2>1 DEF Kept, Held, Follows, Gone
  <1>7. QED
    BY <1>1, <1>2, <1>4, <1>5, <1>6 DEF AdminInv

LEMMA EnableInv ==
  ASSUME AdminInv, Enable
  PROVE  AdminInv'
  <1>1. /\ ~plugin /\ plugin' = TRUE /\ observed' = "stopped" /\ facts' = "none"
        /\ due' = (desired # "none" /\ (desired # "deleted" \/ due))
        /\ UNCHANGED <<vars, desired, supervision, private>>
    BY DEF Enable
  <1>2. Inv' /\ TypeOK'
    BY <1>1, NextInv, TypeStep DEF AdminInv, AdminTypeOK
  <1>3. AdminTypeOK'
    BY <1>1, <1>2 DEF AdminInv, AdminTypeOK, vars, supervision
  <1>4. undone' \/ Kept'
    BY <1>1 DEF AdminInv, AdminTypeOK, Kept, Held, Follows, Gone, vars, supervision
  <1>5. QED
    BY <1>1, <1>2, <1>3, <1>4 DEF AdminInv, PlanIsSound, supervision

LEMMA AdminNextInv == AdminInv /\ [AdminNext]_allVars => AdminInv'
  <1> SUFFICES ASSUME AdminInv, [AdminNext]_allVars PROVE AdminInv'
    OBVIOUS
  <1>1. CASE UNCHANGED allVars
    <2>1. UNCHANGED <<vars, host, supervision, private>>
      BY <1>1 DEF allVars
    <2>2. Inv' /\ TypeOK'
      BY <2>1, NextInv, TypeStep DEF AdminInv, AdminTypeOK
    <2>3. QED
      BY <2>1, <2>2 DEF vars, host, supervision, AdminInv, AdminTypeOK, PlanIsSound, Kept, Held,
                        Follows, Gone, Matches
  <1>2. QED
    BY <1>1, StoreInv, ActInv, DeleteInv, CrashInv, WakeInv, ReconcileInv, CleanupInv, ObserveInv,
       DisableInv, EnableInv DEF AdminNext

-----------------------------------------------------------------------------
\* The inductive invariant: the stored configuration, the registry, the sleeping
\* monitor and what runs agree until a restart undoes a stop.
THEOREM AdminInvariance == AdminSpec => []AdminInv
  BY InitAdminInv, AdminNextInv, PTL DEF AdminSpec

\* Each variable keeps its type.
THEOREM AdminTypeCorrect == AdminSpec => []AdminTypeOK
  <1>1. AdminInv => AdminTypeOK
    BY DEF AdminInv
  <1>2. QED
    BY <1>1, AdminInvariance, PTL

\* Crashes, restarts and deletions included, a configuration without directories and
\* omitted fields is never refused at activation.
THEOREM PlainAlwaysLaunches == AdminSpec => []PlainCanLaunch
  <1>1. AdminInv => PlainCanLaunch
    BY DEF AdminInv, Inv, StoredIsSound, RaisedForCause, PlainCanLaunch, CanPlan, Valid
  <1>2. QED
    BY <1>1, AdminInvariance, PTL

\* Whatever runs, also after a restart, is announced or was given a token, except in mode
\* oauth-cache for a source that had none.
THEOREM RestartedHoldsToken == AdminSpec => []OnlyBareIsUnreachable
  <1>1. AdminInv => OnlyBareIsUnreachable
    BY DEF AdminInv, Inv
  <1>2. QED
    BY <1>1, AdminInvariance, PTL

\* Whatever runs is registered, has its directories and an enabled distribution.
THEOREM AlwaysOwned == AdminSpec => []RunningIsOwned
  <1>1. AdminInv => RunningIsOwned
    BY DEF AdminInv, Kept, Held, RunningIsOwned
  <1>2. QED
    BY <1>1, AdminInvariance, PTL

\* Whatever runs for a settled source is what its stored configuration asks for.
THEOREM StoredIsRun == AdminSpec => []RunsWhatIsStored
  <1>1. AdminInv => RunsWhatIsStored
    BY DEF AdminInv, Kept, Follows, Matches, Settled, Served, RunsWhatIsStored
  <1>2. QED
    BY <1>1, AdminInvariance, PTL

\* A source that was cleaned up leaves nothing behind.
THEOREM NothingIsLeft == AdminSpec => []NothingRemains
  <1>1. AdminInv => NothingRemains
    BY DEF AdminInv, Kept, Gone, NothingRemains
  <1>2. QED
    BY <1>1, AdminInvariance, PTL

\* The page of a settled source offers nothing that the API refuses or ignores, but
\* for Start.
THEOREM HonestOffers == AdminSpec => []OffersAreHonest
  <1>1. AdminInv => OffersAreHonest
    <2> SUFFICES ASSUME AdminInv, Settled, ~undone, NEW a \in Offered
                 PROVE  Accepts(a) /\ (Changes(a) \/ (desired = "enabled" /\ running = NoPlan))
      BY DEF OffersAreHonest
    <2>1. running # NoPlan => desired = "enabled"
      BY DEF AdminInv, Kept, Follows, Matches, Settled, Served
    <2>2. desired \in {"enabled", "disabled"}
      BY DEF AdminInv, AdminTypeOK, Settled, Served
    <2>3. CASE a \in OfferedByFacts
      <3>1. facts = "running" <=> (facts # "none" /\ running # NoPlan)
        BY DEF Settled, Lifecycle
      <3>2. CASE facts = "none"
        BY <2>2, <2>3, <3>2 DEF OfferedByFacts, Accepts, Changes
      <3>3. CASE facts = "running"
        BY <2>1, <2>2, <2>3, <3>1, <3>3 DEF OfferedByFacts, Accepts, Changes
      <3>4. CASE facts \notin {"none", "running"}
        BY <2>2, <2>3, <3>1, <3>4 DEF OfferedByFacts, Accepts, Changes
      <3>5. QED
        BY <3>2, <3>3, <3>4
    <2>4. CASE a \in OfferedByStore
      BY <2>4 DEF OfferedByStore, Accepts, Changes
    <2>5. QED
      BY <2>3, <2>4 DEF Offered
  <1>2. QED
    BY <1>1, AdminInvariance, PTL
===============================================================================
