# Verification of open-cinema-librespot

This directory holds TLA+ models of the plugin in `src/`, TLC configurations that
check them on small instances, and TLAPS proofs of what matters most for every
size.  It is meant to be kept beside the code: `PROJECT.json` maps each
definition to the lines it models, and each property to a mutation of the model
that breaks it.

To check a module: `tlc -config Supervisor_small.cfg Supervisor.tla`; to check
its proofs: `tlapm SupervisorProofs.tla`.

## 1. The system

The plugin runs Spotify Connect receivers ("sources", "instances") inside a host,
Open Cinema.  The host is not in the repository; it keeps the sources and their
secrets in versioned stores, serves the HTTP API, and calls the provider.

| Component (file) | State it keeps | Operations | What is hard about it |
|---|---|---|---|
| resource supervisor (`supervision.py`) | published processes, receiver, generation, desired and stopped flags, restart times, backoff, last error | `start`, `stop`, `observation`, the monitor thread; the registry's `get`, `cleanup`, `stop_all` | calls of the host and restarts of monitors interleave between critical sections; processes die at any time; starting fails half way; a monitor sleeps up to 8 s |
| event relay and receiver (`events.py`) | a socket path per instance, a sequence number, last events | relay process, `start`, `stop`, the receiving thread | relays outlive their group; one path is shared by the groups of an instance |
| provider (`provider.py`) | what was dispatched last for each group, automation errors | `observe`, `activate`, `deactivate`, `reconfigure`, `prepare`, `cleanup` | observers overlap; automations run without the lock; numbers begin again with each group; facts outlive processes; `cleanup` fails half way; a call fails after it has stopped the old group |
| guided OAuth (`oauth.py`, helper `main.rs`) | operation document, `pending.json`, two secrets, the mode of the source | `status`, `begin`, `exchange`, `cancel`, `clear`, refresh at activation | a request makes up to nine writes to five places, none of them together; requests overlap; the helper, Spotify and the stores fail |
| HTTP API (`api.py`) | none of its own; the page caches the last facts and actions | create, edit, actions, token removal, deletion | pages that are out of date; checks on what was read before a write; actions are offered by what runs and accepted by what is wanted |
| configuration and launch plan (`configuration.py`, `options.py`) | none | validation, uniqueness of names, `build_launch_plan` | validated at two times with different arguments, and rewritten in between |
| graph, UI, registration, assets, scripts | none | descriptions, files | sequential; not modelled |

The provider turns a host call into calls of the supervisor; the supervisor owns
the processes and the `EventReceiver`; a relay process that librespot runs sends
each event to the receiver's socket; `observe()` reads the supervisor and
dispatches the last event to automations.  API requests change the stores; a
finished authorization changes the configuration of the source, upon which
the host reconfigures it, and activation then refreshes the token.

What makes each component correct, in one sentence each:

* *supervisor*: at most one group is alive per instance, nothing runs after a stop,
  the newest generation wins, every crash is answered, restarts are bounded, and
  what is shown is what is the case;
* *events*: an event is delivered to automations in order, once, and never as an
  event of another generation;
* *OAuth*: an operation is settled once, by tokens of its own URL, and nothing
  private is left behind when it is cancelled, has failed or its source is deleted;
* *API*: names are unique, no update is lost, a refused request has no effect, and a
  token is kept while its source needs it and goes with it;
* *configuration*: what is accepted can be launched, and what runs can be reached by a user;
* *the whole*: what runs is what is stored, can be found and stopped, is answered by an
  action that has an effect, and leaves nothing behind once the source is deleted.

## 2. Modules

| Module | Models | State and actions |
|---|---|---|
| `ReceiverService` | promise of the supervisor (abstract) | what the host wants, which groups live; request, launch, retire |
| `Supervisor` | `supervision.py` | one action per critical section of `self._lock` or per system call between two of them, for each host thread and each monitor |
| `RestartWindow` | the clock in `_monitor` | `_restart_times`, purge, limit and delays, in ticks; the restarts that are pending, beside starts and stops of the host |
| `Events` | `events.py`, `observe`, `_dispatch_events`, `activeSignal` | relays in flight, receiver, observations in hand, what was dispatched |
| `AuthorizationOperation` | promise of an OAuth operation (abstract) | state and expiry |
| `OAuth` | `oauth.py`, `main.rs`, the requests that lead there | one action per call of a store, a file or the helper, for each request |
| `SourceDirectory` | promise of the API about sources (abstract) | sources, tokens and undecided requests; ask, decline, create, change, remove, delete |
| `Sources` | create, edit, actions, token removal and deletion of `api.py` | one action per call of a store, for each user; pages that carry a version |
| `Launching` | `configuration.py`, `options.py`, `activate` | the stored document, tokens, the plan that runs; one action per request or call |
| `Administration` | EXTENDS `Launching`: `actions`, `execute`, deletion, the calls of the host, `SupervisorRegistry`, the plugin's start and stop | desired and observed state, registry, a monitor that sleeps, private directories; one action per request or call |
| `SupervisorProofs`, `SupervisorSerialProofs`, `RestartWindowProofs`, `EventsProofs`, `OAuthProofs`, `SourcesProofs`, `LaunchingProofs`, `AdministrationProofs` | | theorems |
| `MCRestartWindow`, `MCOAuth`, `MCSources`, `MCLaunching`, `MCAdministration` | | constants and symmetry of TLC's instances |

`Administration` composes `Launching` with the life of a source and with the supervisor, of
which it keeps what the other parts see.  `ReceiverService`, `AuthorizationOperation` and
`SourceDirectory` are the abstract specifications that `Supervisor`, `OAuth` and `Sources` are
shown to implement.

An operator that begins with the comment `Mutation:` is not part of a model: it is
a faulty version of the definition after it, used to show that a property
notices the fault.

### Supervisor

A group is launched as incarnation 1, 2, ...; the monitor thread that watches
incarnation *i* is thread *i*.  A restart is a new incarnation of the same
generation, exactly as in the code, where the monitor compares generations only
(`supervision.py:239`).  `start()` is `Check`, then the three steps of `stop()` (`Mark`,
the `Kill...` steps, `Quiet`, `Clear`), then `Bind`, `Spawn`, `Publish`, and the two
failures.  A monitor is `Quit` / `Detect`, the `Kill...` steps, then `GiveUp` or `Wake`,
which is a `start()` of its own, or `RestartError` if that raised.  The fields that
`start()` assigns together and `stop()` clears together are the one variable `current`.

Abstracted: the 3 s deadline of `_terminate_group` (`KillForce` may happen at any
time, `KillWait` when the published children are gone); how many restart times are
inside the window (any number up to those recorded; `RestartWindow` has the clock);
log tails, process ids and argument lists.  Bound: `MaxStarts` launches; near the bound
processes stop crashing, so that a crash always has a launch left to answer it.

### RestartWindow

Time advances in ticks of 0.25 s, the shortest delay of the code, and all decisions of
one monitor pass are one step.  The bounds are the number of ticks and of crashes.

A monitor that sleeps is one element of `pending`.  `stop()` and `start()` neither wake nor
cancel it, and a give-up of another monitor does not either: it launches its group when its
delay is over, in place of whatever runs by then (`Restart`).  Since the host may start a
group meanwhile, which may crash as well, several restarts can be pending, and all of them
draw on the one `_restart_times`.

A storm is therefore not told by what the host did in between but by what the launches
answered: the crash of a group that an automatic restart launched, and that crashed
promptly, prolongs the row of the crash it answered (`Place`, `chain`); any other crash
begins a row.  `StormStopped` says that no row gets more than `Limit` of its crashes
answered.  It needs a window that such a row fits into (`StormFits`), which
`MCRestartWindow` assumes and TLC evaluates.  With the code's numbers the longest delay of
a row of 5 is 4 s, so a row fits if a restart is at most 4 s later than its delay and the
new group crashes within 4 s: 5 * (4 + 4 + 4) = 60 s.  A restart may be later
than that: to stop a group takes up to 5 s if it ignores SIGTERM and then SIGKILL is slow,
and a restart may have two to stop, its own and one of the host's.  Such a row is no storm
in this sense; `RestartsSpaced` bounds its restarts without any assumption.

### Events

The supervisor is reduced to what events see of it.  A relay is an event in flight
that is delivered late, out of order, to the receiver of a later group, or lost; a
receiver accepts an event of its own generation only.  `observe()` is three steps of an
observer: `Observe` reads the receiver, `Dispatch` claims the event under the provider's
lock, and `Record` stores the errors of its automations under the lock again, after the
automations ran without it.  The hold after a pause (`activityHoldMs`) is reduced to its
end.

### OAuth and Sources

The stores of the host are external.  From their use in `oauth.py` and `api.py` they
are taken to be optimistic: a write names the version it read and is refused if there
is a newer one; versions are not reused; `expected_version=None` is the version
"there is none yet"; nothing spans two calls.  So the models do not count versions:
for each store they keep the set of requests whose last read is still current.

An authorization, its URL and the tokens it grants are one number in `OAuth`; a
configuration is a name and a mode in `Sources`.

The access token has more writers than the authorization: an edit may bring one, the
action `clear-access-token` removes it (in every mode but `access-token`), and the
deletion of the source takes it away.  All of them are requests of `OAuth`, so
`SucceededIsStored` cannot say that there *is* a token while the operation is shown as
succeeded.  It says that the exchange that succeeded had stored the token and then
switched the source to it; `grant`, the locals of that exchange when it wrote its success,
holds what it wrote (`wrote`).  `BeginHelper` and `BeginHelperFails` share one effect: the
helper may have written `pending.json` before it fails or is too late.  So a settled
operation may have such a file beside it, of which nobody was shown the URL, and
`VerifierGone` speaks of the files that somebody could redeem.

In `Sources` a deletion removes the source and then its token, and identities never come
back (`gone`).  A PUT that checked its page before the deletion stores its token after it,
for a source that is gone; nothing removes it.  So `NoOrphanToken` excuses a deleted
source once requests have overlapped, and nothing else: no creation in any schedule, and
no deletion as long as requests are served one after the other.

`SourceDirectory` is what a user takes the API for: a request is undecided until one step
does all of it or declines it without a trace.  `Sources` does it in up to five steps,
with the token and the configuration in two stores.  The refinement mapping says when a
request is decided: a change that brings a token when the token is written (its
configuration is `Listed` from then on, and must follow), every other one when the source
is stored; and a token that is stored before its source exists, or left after it, is not
seen.  As the promise needs requests that take turns, `SourceDirectory` allows anything
once `overlapped` is true.

### Launching

Each request or call is one step (the other modules interleave them); what is
modelled is the chain of decisions: the validation with the media roots, the
unvalidated rewriting by `exchange()`, the validation without media roots at
activation, and the choice of options and of the token.

`OnlyBareIsUnreachable` says what runs can be reached: it is announced on the network, or
it was given a token.  There is one exception, which the code does not prevent.  A source
of mode `oauth-cache` may be hidden and yet never have been authorized: the validation
asks for the credential cache only, `refresh_oauth_access_token()` returns nothing without
a refresh token, and the presence of an access token is checked in mode `access-token`
only (`provider.py:323-333`).  Such a source is launched and cannot be reached, unless
librespot finds credentials of an earlier session.  `bare` remembers that no token was
stored when the plan was built; the property says that this is the only way.

### Administration

One source, from its creation to the removal of its private files.  Requests change what is
stored and set `due`; `Reconcile` and `Cleanup` are the host's calls that answer them;
`Observe` is the page's look at the processes, which decides the actions it offers from
then on (`OfferedByFacts`), while the API decides by what is stored whether it accepts
them (`Accepts`) and whether they change anything (`Changes`).  `Disable` and `Enable`
are the plugin's `stop()` and the host beginning anew with what is stored.

Requests and calls are one step each; the modules above interleave what is inside them.
The one thing that overlaps is a monitor: after `Crash` it is `asleep` until `Wake`, and
whatever happens in between finds the source without a group.  A stop or start meanwhile
makes it `late`, since the code does not wake it.  If a late monitor restarts its group,
a stop has been undone; that is the disagreement `StopIsFinal`, the history variable
`undone` says that it happened, and the properties promise nothing from then on.  So they
say what the administration ensures by itself, also with restarts that are asleep
and may still come.  Bound: one monitor sleeps at a time.

## 3. Schedules: what the code ensures and what it relies on

Many promises of the documentation hold only while operations do not overlap, and
nothing in the plugin prevents that they do.  The models say so explicitly.

* `Supervisor`: `Spec` has every schedule.  `SerialSpec` assumes that the host never
  calls while a restart or another call is under way.  A restart includes the backoff
  delay; crashes, failing starts and processes that ignore SIGTERM are anywhere.
* `OAuth`, `Sources`, `Events`: the history variable `overlapped` becomes true once two
  requests (observers) are under way at the same time.  A property with `overlapped` in it
  is promised until then.  Pages that are open do not count as requests.

What fails when operations do overlap, found with the same modules:

| Promise | Where | What happens |
|---|---|---|
| `StopIsFinal` | `supervision.py:269` | run `stop_undone`: a restart that slept through `stop()` launches the group again |
| `OneGroup` (theorem `SingleGroup`) | `supervision.py:202` | a start of the host and a restart both get past `stop()` before either publishes; the group published first is never killed |
| `RunningIsWanted` | `supervision.py:267` | a monitor that gives up, or whose restart failed, clears `_desired_running` of the generation the host has started since |
| `NewestGenerationWins` | `supervision.py:271` | a restart that slept replaces the generation the host has started since |
| `EventsReachable` | `events.py:182` | the late `stop()` of the old receiver unlinks the socket of the new one |
| order and uniqueness of dispatch | `provider.py:58` | two observers with observations of different groups drop each other's record; an event is dispatched again (`TwiceOnlyAfterSwitch` says this is the only way) |
| `ErrorsOfTheLast` | `provider.py:90` | the errors of an older event overwrite those of a newer one that another observer dispatched |
| `CancelHolds` | `oauth.py:244` | an exchange stores tokens and mode while `cancel()` is confirmed |
| `WaitingCanComplete` | `oauth.py:188` | `begin`, `status` and `cancel` remove the one `pending.json` next to a `begin` that just wrote it |
| `DeletionIsComplete` | `oauth.py:322` | a `begin`, `exchange` or edit under way stores its operation or tokens after the deletion |
| a token without a source (`NoOrphanToken`) | `api.py:389` | a PUT that checked its page before the deletion stores its token after it |
| `NamesUnique` | `api.py:346` | two requests both find a name free (unless the host's store checks names itself) |
| `ImplementsDirectory` | `api.py:424` | a PUT whose update is refused has already replaced the token |
| `TokenInUseIsKept` | `api.py:455` | the mode is checked on what was read, and the token removed after another user switched to it |

Five disagreements with the documentation are runs of their own (section 4).

## 4. Runs

| Run | Question | Bounds | Result |
|---|---|---|---|
| `supervisor` | What do the lock and the generations ensure in every schedule (`OneWatcher`, `WatchedWhileDesired`, `ReapsItsOwn`, `BackoffBacked`, `EarlyReturnUnused`)?  Does every call return, and is every crash answered? | 2 host threads, 2 launches, 1 restart in a window | holds, 161k states |
| `supervisor_serial` | What the documentation promises, without overlap: what runs is wanted, final stops, the newest generation, `EventsReachable`, `ExhaustionReported`, both processes end together (`GroupReaped`), and the refinement of `ReceiverService` | 1 host thread, 3 launches | holds, 23k states |
| `stop_undone` | Is a stop final in every schedule? | same | **violated** |
| `failed_restart_hidden` | Is a restart that failed shown as failed, even without overlap? | same | **violated** |
| `restart_window` | Are answered crashes spaced by the window, and does a storm end, whatever the host does while restarts sleep? | limit 2, window 8 ticks, 5 crashes in 13 ticks (the code: 5 and 60 s); any number of pending restarts | holds, 1.3M states |
| `events` | Order, uniqueness, generation and eventual dispatch, and whose errors are shown | 2 observers, 2 groups, 3 events of one kind (none of these properties reads it) | holds, 99k states |
| `signal_of_the_dead` | Is the signal of a receiver that was given up inactive? | 1 observer, 2 groups, 2 kinds | **violated** |
| `oauth` | The operation, its tokens, its files and its source, with the refinement of `AuthorizationOperation` | 2 requests, 2 authorizations | holds, 2.7M states |
| `sources` | Names, versions and tokens, with the refinement of `SourceDirectory` | 2 users, 2 sources, 2 names | holds, 1.5M states |
| `administration` | Is what is stored launchable, what runs reachable, found and what was asked for, what is offered honest, and everything gone in the end? | 2 switches, 1 directory, 1 sleeping monitor | holds, 1.05M states |
| `restart_not_offered` | Can a source that is shown as failed be started again from its page? | 2 switches | **violated** |
| `local_directories_refused` | Can what is accepted be launched? | 3 switches, 1 directory inside the media roots and 1 outside, all fields given | **violated** |

Why the bounds are enough.  Three launches are the first number at which a restart
meets a start of the host and a restart of that again (`supervisor_serial`, `stop_undone`);
two host threads with two launches let calls overlap each other and a restart, and
`SupervisorProofs` has no bound on either.  Two groups and three events
give events that overtake each other within a group and across a restart.  Two
requests are the least that overlap, and every step of a request depends on the
others only through the stores; two authorizations let a callback belong to the
wrong one.  With two users and two sources there is every conflict between two
pages of one source and two sources of one name.  In `administration` the two switches are the
ones that decide whether a receiver can be reached, and the directory makes an activation
fail that comes after the old group was stopped.
The theorems below have no bounds.

`CHECK_DEADLOCK FALSE` is used where the system does stop: after the bounds on launches
and events (`Events`), after the source is deleted (`OAuth`), and after every identity was
used and deleted (`Sources`).

Fairness.  `Supervisor`: each thread eventually runs its next step (threads are
scheduled; waits in the code have timeouts) and a process that was sent SIGKILL exits.
The host is not fair: it may never call.  A process may ignore SIGTERM and need
not crash.  `Events`: an observer eventually observes again, since `observe()`
asks for the next call after 1000 ms (`provider.py:271`), then dispatches, and its
automations return.
Nothing is assumed of relays, groups or the host.  The other modules state safety only.

`EventuallyDispatched` speaks of the *last* event: `observe()` dispatches only the last
event that was received, so an event that another one follows within a second is
never dispatched; this is what the code does and the property says so.

## 5. Disagreements that are runs

1. `stop_undone` (`supervision.py:269`).  After the backoff delay the monitor calls `start()`
   without looking again at `_desired_running` or `_explicitly_stopped`.
2. `failed_restart_hidden` (`supervision.py:272`).  The `start()` of a restart runs `stop()`,
   which sets `_explicitly_stopped`; if it then raises, `observation()` shows `stopped` and
   healthy.
3. `signal_of_the_dead` (`provider.py:151`).  `activeSignal` is computed from the last
   playback event alone and survives the processes.
4. `local_directories_refused` (`provider.py:335`).  `activate()` calls `build_launch_plan()`
   without media roots, which refuses every configuration that has a local directory.
5. `restart_not_offered` (`provider.py:243`).  A source that crashed and was given up is
   still to be enabled.  Its page offers only *Start*, since nothing runs that could be
   restarted; the API answers *Start* with 202 and does nothing, since the source is
   enabled already.  *Restart*, which the documentation prescribes, would be accepted.

## 6. Theorems

All are for every value of the constants, from the named assumptions of the modules only.

* `SupervisorProofs` (every schedule).  The inductive invariant `Inv` adds to `TypeOK`
  which incarnations have a name and who holds it: an incarnation that is not yet
  published belongs to exactly one thread, a published one has a monitor, an earlier
  incarnation of the same generation has ended or is restarting, and a stage after
  `Detect` has captured its own leader.  Without the ownership part, `Publish` could start
  a second monitor of one generation.  From it follow `TypeCorrect`, `SingleWatcher`,
  `AlwaysWatched`, `OwnGroupOnly`, `BackoffEnds` and `NoEarlyReturn`.
* `SupervisorSerialProofs` (`SerialSpec`).  The invariant adds what the one busy thread
  has done so far: which groups may be alive at each stage of `stop()` and `start()`.
  From it follow `SingleGroup`, `FinalStop`, `NewestWins`, `WantedRuns`, and
  `SupervisorImplementsService`: every step is a step of the safety part of
  `ReceiverService` or a stutter.  `ShownInv` adds, stage by stage, which receiver is bound to
  the socket (`Receivers`: `stop()` unlinks it before `Bind` binds the next, and nothing is
  published in between) and that a group which is published but no longer wanted has lost a
  process, with an error recorded (`Reported`); it gives
  `ReceiverIsReachable` and `ExhaustionIsShown`.
* `RestartWindowProofs`.  For every limit, window and delay function the answered crash
  *n* lies more than a window after crash *n - Limit* (`SpacedRestarts`), and no interval
  of the length of the window holds more than `Limit` of them (`BoundedRestarts`; its
  property `WindowBound` follows from `RestartsSpaced` and is proved only).  `StormEnds`
  proves `StormStopped` from `StormFits`: `Storm` says that if a crash is number *n* of
  its row, then the crash *n - 1* before it (of any row) lies at most *n - 1* times a
  `Round` back, the longest delay and the times to reap and to crash again; so the crash
  that exceeds the limit lies within the window of the one `Limit` before it, which
  `RestartsSpaced` excludes if it is answered.  No part of the invariant speaks of what
  the host does or of which restarts are pending, except that none of them is later than
  `Reap`.  That a longer window does not shorten the delay (`DelayGrows`) is proved by the
  sizes of power sets, since exponents are out of reach of the arithmetic and induction is
  not available.
* `OAuthProofs` (every schedule, any number of requests and authorizations).  `Inv` has
  three parts beside `TypeOK`.  `Informed`: a request that still holds the current version
  of the operation (nobody has written it since its read) may rely on what it read, such
  as `validating` from `Validate` to `Succeed` or `Fail`.  `OwnUrls`: `pending.json` is of
  the authorization that was begun last, and the URL of an operation is the newest one
  that was shown; so a callback that matches the file, pasted into a request that still
  holds the operation, is of the operation's own URL.  `Stored`: what an exchange has
  written itself when it comes to a stage (not what is stored by then, which an edit or
  the removal of the token may have changed).  From these follow `TypeCorrect`,
  `OAuthImplementsOperation` (overlapping requests never revive or overwrite a settled
  operation), `OwnUrl` and `StoredFirst`.  For requests that take turns, `TurnsInv` adds
  what each of them finds and leaves (`Rest`: the file of a waiting operation, no file of
  a settled one that anybody was shown the URL of, no token of one that was cancelled,
  nothing of a deleted source) and how far the only request has got in between (`Tidy`:
  its versions are current, so that no write is refused, and the file, the tokens and the
  deletion are as its stage says).  `Origins`, for every schedule, says that stored tokens
  come from URLs that were shown, or from a user, hence never from the URL that is about
  to be shown.  From it follow `CancelIsFinal`, `WaitingCompletes`, `NothingPrivateIsLeft`
  and `NoVerifierIsLeft`.
* `EventsProofs` (any number of groups, events and observers).  `Inv` says that each event
  is with its relay or counted, at most once (`Counted`), that the published group is the
  latest and its last event of its generation (`Published`), that what observers saw and
  what was dispatched was so when they saw it (`Views`), that the mark is what was
  dispatched last (`MarkIsLast`) and that the numbers rise until another group comes in
  between (`Rising`).  From it follow `TypeCorrect`, `GenerationsApart` and
  `TwiceAfterSwitch`.  For observers that take turns, `TurnsInv` adds that the log is in order
  up to the one observation in hand, which gives `InOrder`, and that the errors that
  are shown belong to the last event unless its automations still run, which gives
  `ErrorsAreLatest`.
* `SourcesProofs` (any number of users, sources and names).  `Inv` says, beside types,
  that a user has a source and a draft ready when it is needed (`Prepared`), that an id
  under creation is known to nobody else (`NewIsUnknown`), that a page which holds the
  current version shows what is stored (`PageIsTrue`, the part that makes versions work),
  that no page is current for a deleted source (`GoneIsGone`) and that a token without a
  source is one of a creation or a deletion (`OrphanIsKnown`).  From it follow
  `TypeCorrect` and `UpdatesAreNotLost`, however requests overlap.  `SerialInvariance`
  adds what the one request under way has checked, and that a token without a source is
  one it still takes care of (`OrphanIsCaredFor`).  This gives `UniqueNames` and
  `TokensInUseStay`, and with `OrphanIsKnown`, `TokensHaveSources`.  `DirectoryInv` adds
  that the stages of a request belong to what it does to the token (`Purpose`), and with
  it `SourcesImplementDirectory` shows that a step which opens or leaves a page is a
  stutter (`LookingIsNothing`), one that submits a request is `Ask` (`SubmittingAsks`),
  and one of the request that is served decides it, or changes nothing that can be seen
  (`ServingDecides`).
* `LaunchingProofs`.  `Inv` says that every stored document has a mode that fits its other
  fields, also after `exchange()` rewrote it.  From it follow `TypeCorrect`, `PlainLaunches`
  and `HiddenHoldsToken`, for any set of switches, fields and directories.
* `AdministrationProofs`.  The invariant of `LaunchingProofs` is kept, since each step is one
  of `Launching` or leaves its variables to the supervisor.  Added are `PlanIsSound` (the plan
  that a sleeping monitor will launch is as the property asks of one that runs, or a restart
  would break it)
  and, unless a stop was undone, `Kept`: a group or a sleeping monitor belongs to a
  registered supervisor (`Held`), both are what the stored configuration asks for unless the
  host has yet to act (`Follows`), and a deleted source loses its tokens at once and the
  rest with `cleanup()` (`Gone`).  The properties speak of what runs; the invariant has to
  say the same of what is about to run again.  From it follow all properties of the run
  `administration`.

Each of these invariants was checked by TLC on the instance of its run before it was
proved.

Only model-checked: liveness (`CallsReturn`, `CrashAnswered`, `GroupReaped`,
`EventuallyDispatched`, the fairness part of `ReceiverService`), which the prover does
not handle.  Every safety property of a passing run is a theorem.

## 7. Not modelled

* What is only shown: log tails, rendered documents and their wording, PipeWire properties
  and correlation, cache sizes, the playback facts other than `activeSignal`.
* The check of the owner, which decides who may send a request and not what it does.
* Single-field rules of the schema (one verdict in `Launching`), the values of options and
  the arguments of `pw-cat`: they are tables, and nothing depends on an order of steps.
* The inside of `prepare()`: it creates directories or raises (`Unavailable`).
* Failures of the host's stores other than a version that is not current.  A deletion that
  such a failure ends half way leaves a secret behind, since the source is gone and cannot
  be deleted again; the code has nothing that would repeat it.  `Administration` deletes
  in one step; the steps are in `OAuth` and `Sources`.
* The action `oauth-begin` of the page, which leads to `Begin` of `OAuth`.
* The activity hold before its end: it is a comparison with the clock of the observation,
  without a state of its own.
* A host that dies: its process groups live on, the next host does not know them, and the
  plugin has no code for it.
* The graph, the UI contract, registration, asset checks and the build scripts: they
  declare or write files once, in sequence, and keep no state.

## 8. Plan

Done in this order, each by importance: `Supervisor` with its promise, `RestartWindow`,
`OAuth` with its promise, `Events`, `Sources`, `Launching`; then the proofs of `Events`
and `Sources`, the errors of automations, and `Administration` with its proofs; then
`ShownInv`, `StormEnds`, `TurnsInv` of `OAuth`, and `Sources` with its promise; then
restarts that outlive stops and starts in `RestartWindow`, all writers of the access token in
`OAuth`, and deletion in `Sources`.

Next:

1. `Supervisor` and `Events` composed, so that the binding and unlinking of the shared
   socket meets relays; `EventsReachable` has the supervisor's half of it.
2. What the token refresh at activation may do to an exchange it overlaps
   (`oauth.py:69`): `Origins` is the part of it that holds in every schedule.
