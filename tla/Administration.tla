---------------------------- MODULE Administration ----------------------------
(***************************************************************************)
(* The life of one source from its creation to the removal of its private  *)
(* files: the actions that its page offers (api.py, provider.py), the      *)
(* calls that the host makes to carry them out (provider.py, plugin.py),   *)
(* the registry of supervisors (supervision.py), and crashes in between.   *)
(*                                                                         *)
(* What is stored, and what an activation makes of it, is Launching.  As   *)
(* there, a request or a call is one step; a monitor that sleeps before    *)
(* its restart is the one thing that calls may overlap.                    *)
(***************************************************************************)
EXTENDS Launching

VARIABLES
  desired,     \* desired_state; "none" before the source exists, then "deleted"
  observed,    \* observed_state, the outcome of the last call
  due,         \* the source was written and the host has not called since
  facts,       \* lifecycle in the facts of the page, "none" if they offer no actions
  plugin,      \* the distribution is enabled
  registered,  \* the registry has a supervisor for the source
  explicit,    \* its _explicitly_stopped
  monitor,     \* "asleep" before a restart, "late" if it was stopped or started since
  plan,        \* what the sleeping monitor will launch
  private,     \* the private directories of the source exist
  undone       \* history: a late monitor restarted its group
host        == <<desired, observed, due, facts, plugin>>
supervision == <<registered, explicit, monitor, plan, undone>>
allVars     == <<vars, host, supervision, private>>

AdminInit ==
  /\ Init
  /\ desired = "none"
  /\ observed = "stopped"
  /\ due = FALSE
  /\ facts = "none"
  /\ plugin = TRUE
  /\ registered = FALSE
  /\ explicit = TRUE
  /\ monitor = "none"
  /\ plan = NoPlan
  /\ private = FALSE
  /\ undone = FALSE

\* lifecycle of observation(), in which a pending restart counts as failed.
Lifecycle ==
  IF running # NoPlan THEN "running" ELSE IF explicit THEN "stopped" ELSE "failed"

-----------------------------------------------------------------------------
(* The page: actions() of the provider, and _observe() of the API.         *)

\* Mutation: what runs is not looked at.
OfferedAlways == {"start", "stop", "restart"}

\* The actions of the last observation, or one that follows from the store.
OfferedByFacts ==
  CASE facts = "none"    -> {IF desired = "enabled" THEN "stop" ELSE "start"}
    [] facts = "running" -> {"stop", "restart"}
    [] OTHER             -> {"start"}

OfferedByStore ==
  {a \in {"clear-access-token", "delete"} :
     CASE a = "delete" -> desired = "disabled" /\ observed = "stopped"
       [] OTHER        -> access /\ stored.mode # "access-token"}

Offered == OfferedByFacts \cup OfferedByStore

\* The API does not raise.
Accepts(a) ==
  CASE a = "restart"            -> desired = "enabled"
    [] a = "clear-access-token" -> stored.mode # "access-token"
    [] a = "delete"             -> desired = "disabled" /\ observed = "stopped"
    [] OTHER                    -> TRUE

\* An action that is accepted with 202 changes something.
Changes(a) ==
  CASE a = "start"              -> desired # "enabled"
    [] a = "stop"               -> desired # "disabled"
    [] a = "clear-access-token" -> access
    [] OTHER                    -> TRUE

-----------------------------------------------------------------------------
(* The requests, whether or not the page offers them.                      *)

\* Mutation: a source that does not exist is found.
ServedAlways == plugin

Served == plugin /\ stored # NoDocument

\* create() and PUT.
AdminSubmit(doc, token) ==
  /\ plugin
  /\ desired # "deleted"
  /\ Submit(doc, token)
  /\ desired' = IF stored = NoDocument THEN "enabled" ELSE desired
  /\ due' = TRUE
  /\ UNCHANGED <<observed, facts, plugin, supervision, private>>

AdminSubmitRefused == plugin /\ SubmitRefused /\ UNCHANGED <<host, supervision, private>>

\* start, stop and restart; a restart stores the configuration again.
Act(a) ==
  /\ Served
  /\ Accepts(a) /\ Changes(a)
  /\ desired' = CASE a = "start"   -> "enabled"
                  [] a = "stop"    -> "disabled"
                  [] a = "restart" -> desired
  /\ due' = TRUE
  /\ UNCHANGED <<vars, observed, facts, plugin, supervision, private>>

ClearAccessToken == plugin /\ RemoveToken /\ UNCHANGED <<host, supervision, private>>

\* A guided authorization was finished, or failed half way.
AdminAuthorize ==
  /\ plugin
  /\ Authorize
  /\ due' \in {due, TRUE}
  /\ stored' # stored => due'
  /\ UNCHANGED <<desired, observed, facts, plugin, supervision, private>>

AdminRemount == Remount /\ UNCHANGED <<host, supervision, private>>

\* DELETE, and the two secrets that it removes.
Delete ==
  /\ Served
  /\ Accepts("delete")
  /\ desired' = "deleted"
  /\ due' = TRUE
  /\ stored' = NoDocument
  /\ access' = FALSE
  /\ refresh' = FALSE
  /\ outcome' = "none"
  /\ UNCHANGED <<readable, running, observed, facts, plugin, supervision, private>>

-----------------------------------------------------------------------------
(* The supervisor, as module Supervisor has it in detail.                  *)

\* stop() or start() of the supervisor leaves a sleeping monitor asleep.
Disturbed == IF monitor = "asleep" THEN "late" ELSE monitor

\* A group that crashed is restarted after a delay, or given up.
\* Bound: one monitor sleeps at a time.
Crash ==
  /\ running # NoPlan
  /\ monitor = "none"
  /\ running' = NoPlan
  /\ \/ monitor' = "asleep" /\ plan' = running
     \/ UNCHANGED <<monitor, plan>>
  /\ explicit' = FALSE
  /\ UNCHANGED <<stored, access, refresh, readable, outcome, host, registered, private, undone>>

\* The restart, which replaces whatever runs by then, may fail.
Wake ==
  /\ monitor # "none"
  /\ \/ running' = plan /\ explicit' = FALSE
     \/ running' = NoPlan /\ explicit' = TRUE
  /\ monitor' = "none"
  /\ plan' = NoPlan
  /\ undone' = (undone \/ monitor = "late")
  /\ UNCHANGED <<stored, access, refresh, readable, outcome, host, registered, private>>

-----------------------------------------------------------------------------
(* The calls of the host.                                                  *)

Stopped ==
  /\ running' = NoPlan
  /\ explicit' = TRUE
  /\ monitor' = Disturbed

\* activate(), where kept is what runs if the supervisor is not called.
ActivateWith(kept, stops) ==
  /\ \/ /\ Unavailable(kept)
        /\ private' \in {private, TRUE}
        /\ explicit' = (explicit \/ stops)
        /\ monitor' = IF stops THEN Disturbed ELSE monitor
        /\ registered' = registered
     \/ /\ Plan(kept)
        /\ private' = TRUE
        /\ IF outcome' = "raised"
           THEN /\ explicit' = (explicit \/ stops)
                /\ monitor' = IF stops THEN Disturbed ELSE monitor
                /\ registered' = registered
           ELSE /\ explicit' = (outcome' = "failed")
                /\ monitor' = Disturbed
                /\ registered' = TRUE
  /\ observed' = IF outcome' = "launched" THEN "started" ELSE "failed"
  /\ UNCHANGED <<stored, refresh, readable>>

\* Mutation: what runs is not stopped first.
ReconfigureRunning == observed = "started" /\ ActivateWith(running, FALSE)

\* The configuration of a source that was started has changed.
Reconfigure == observed = "started" /\ ActivateWith(NoPlan, TRUE)

\* activate() of a source that was not started.
Start == observed # "started" /\ ActivateWith(running, FALSE)

\* deactivate()
HostDeactivate ==
  /\ Stopped
  /\ observed' = "stopped"
  /\ registered' = TRUE
  /\ private' = TRUE
  /\ UNCHANGED <<stored, access, refresh, readable, outcome>>

\* The source was written and the host carries it out.
Reconcile ==
  /\ plugin /\ due
  /\ \/ desired = "enabled" /\ (Start \/ Reconfigure)
     \/ desired = "disabled" /\ HostDeactivate
  /\ due' = FALSE
  /\ facts' = "none"
  /\ UNCHANGED <<desired, plugin, plan, undone>>

\* Mutation: the supervisor stays in the registry.
CleanupRegistered ==
  /\ plugin /\ due
  /\ desired = "deleted"
  /\ Stopped
  /\ private' = FALSE
  /\ due' = FALSE
  /\ UNCHANGED <<stored, access, refresh, readable, outcome, registered,
                 desired, observed, facts, plugin, plan, undone>>

\* cleanup() of a deleted source; a directory that cannot be removed makes it fail.
Cleanup ==
  /\ plugin /\ due
  /\ desired = "deleted"
  /\ Stopped
  /\ registered' = FALSE
  /\ \/ private' = FALSE /\ due' = FALSE
     \/ private' = TRUE /\ UNCHANGED due
  /\ UNCHANGED <<stored, access, refresh, readable, outcome,
                 desired, observed, facts, plugin, plan, undone>>

\* observe(); the page shows it from now on.
Observe ==
  /\ Served
  /\ facts' = Lifecycle
  /\ registered' = TRUE
  /\ private' = TRUE
  /\ UNCHANGED <<vars, desired, observed, due, plugin, explicit, monitor, plan, undone>>

\* Mutation: the supervisors are left alone.
DisableQuietly ==
  /\ plugin
  /\ plugin' = FALSE
  /\ UNCHANGED <<vars, supervision, desired, observed, due, facts, private>>

\* stop() of the plugin, which stops the supervisors that are registered.
Disable ==
  /\ plugin
  /\ plugin' = FALSE
  /\ IF registered THEN Stopped ELSE UNCHANGED <<running, explicit, monitor>>
  /\ UNCHANGED <<stored, access, refresh, readable, outcome,
                 desired, observed, due, facts, registered, plan, private, undone>>

\* The host begins anew with what is stored.
Enable ==
  /\ ~plugin
  /\ plugin' = TRUE
  /\ observed' = "stopped"
  /\ facts' = "none"
  /\ due' = (desired # "none" /\ (desired # "deleted" \/ due))
  /\ UNCHANGED <<vars, desired, supervision, private>>

-----------------------------------------------------------------------------
AdminNext ==
  \/ \E doc \in Document, token \in BOOLEAN : AdminSubmit(doc, token)
  \/ AdminSubmitRefused
  \/ \E a \in {"start", "stop", "restart"} : Act(a)
  \/ ClearAccessToken \/ AdminAuthorize \/ AdminRemount \/ Delete
  \/ Crash \/ Wake
  \/ Reconcile \/ Cleanup \/ Observe \/ Disable \/ Enable

AdminSpec == AdminInit /\ [][AdminNext]_allVars

-----------------------------------------------------------------------------
\* Each variable has its type; a source has a configuration from its creation to
\* its deletion, and whoever sleeps has something to launch.
AdminTypeOK ==
  /\ TypeOK
  /\ desired \in {"none", "enabled", "disabled", "deleted"}
  /\ observed \in {"started", "stopped", "failed"}
  /\ facts \in {"none", "running", "stopped", "failed"}
  /\ {due, plugin, registered, explicit, private, undone} \subseteq BOOLEAN
  /\ monitor \in {"none", "asleep", "late"}
  /\ monitor = "none" <=> plan = NoPlan
  /\ stored = NoDocument <=> desired \in {"none", "deleted"}

\* The host has carried out what is stored, and the page shows what came of it.
Settled == Served /\ ~due /\ facts \in {Lifecycle, "none"}

\* The properties below promise nothing once a restart has undone a stop: that is
\* StopIsFinal of module Supervisor.

\* The page of a settled source offers nothing that the API refuses, and nothing
\* that it accepts without doing anything; except Start for a source that is wanted
\* and does not run, which FailureCanBeAnswered is about.
OffersAreHonest ==
  Settled =>
    \/ \A a \in Offered :
         Accepts(a) /\ (Changes(a) \/ (desired = "enabled" /\ running = NoPlan))
    \/ undone

\* What runs for a settled source is wanted, and has the mode and the options of the
\* configuration that is stored: no edit, authorization, failure or restart after a
\* crash leaves a group of an earlier configuration behind.
RunsWhatIsStored ==
  Settled /\ running # NoPlan =>
    \/ /\ desired = "enabled"
       /\ running.mode = stored.mode
       /\ running.options = Options(stored)
    \/ undone

\* Whatever runs can be found and stopped: its supervisor is registered, its
\* private directories exist and its distribution is enabled.
RunningIsOwned == running # NoPlan => (registered /\ private /\ plugin) \/ undone

\* Once cleanup() of a deleted source succeeded, no process, supervisor, private
\* file or token of it is left, even if an earlier attempt failed half way.
NothingRemains ==
  desired = "deleted" /\ ~due =>
    (running = NoPlan /\ ~registered /\ ~private /\ ~access /\ ~refresh) \/ undone

\* A source that is shown as failed can be started again from its page.
FailureCanBeAnswered ==
  Settled /\ facts = "failed" =>
    \E a \in Offered \cap {"start", "restart"} : Accepts(a) /\ Changes(a)
===============================================================================
