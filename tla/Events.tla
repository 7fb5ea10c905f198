-------------------------------- MODULE Events --------------------------------
(***************************************************************************)
(* The way of a playback event of one instance: librespot runs a relay     *)
(* process for it, the relay sends it to the socket of the instance, the   *)
(* EventReceiver of the published process group (events.py) numbers it,    *)
(* and the host's next observation (provider.py) invokes the automations.  *)
(*                                                                         *)
(* The supervisor is reduced to what the events see of it: group run is    *)
(* published, it crashes, is restarted under its generation or given up,   *)
(* and the host starts and stops it.                                       *)
(***************************************************************************)
EXTENDS Integers, Sequences

CONSTANTS
  Observers,  \* threads of the host that observe the instance
  MaxRuns,    \* bound on the groups that are launched
  MaxEvents,  \* bound on the events they emit
  Kinds       \* bound on what the events say

None == 0
Runs == 1 .. MaxRuns

\* "playing" makes the signal active, "paused" does not (once the hold is over),
\* and "volume" is no playback event.
Playback == {"playing", "paused"}

ASSUME EventsAssumption ==
  /\ MaxRuns \in Nat
  /\ MaxEvents \in Nat
  /\ Kinds \subseteq Playback \cup {"volume"}

\* An event, with the generation its relay has from the environment.
Event == [gen : 0 .. MaxRuns, id : 1 .. MaxEvents, kind : Kinds]
NoEvent == [gen |-> 0, id |-> 0, kind |-> "none"]

VARIABLES
  run,           \* the published group, or None
  group,         \* what it does: "up", "crashed" or "abandoned"
  launched,      \* how many groups were launched
  gen,           \* the generation of each group
  emitted,       \* how many events were emitted
  relays,        \* the events whose relay process has not sent them yet
  sequence,      \* _sequence of the published receiver
  lastEvent,     \* its last event
  lastPlayback,  \* its _last_playback_event
  seen,          \* the observation that each observer is dispatching
  mark,          \* _dispatched_sequences: one group and its last number
  invoking,      \* the observers whose automations are being invoked
  shown,         \* _automation_errors: the event whose errors they are
  log,           \* history: what was dispatched, in that order
  overlapped     \* history: two observers held observations at the same time
supervisor == <<run, group, launched, gen>>
receiver   == <<sequence, lastEvent, lastPlayback>>
dispatch   == <<seen, mark, invoking, shown, log>>
vars       == <<supervisor, emitted, relays, receiver, dispatch, overlapped>>

View == [run : Runs \cup {None}, sequence : 0 .. MaxEvents, event : Event \cup {NoEvent}]
NoView == [run |-> None, sequence |-> 0, event |-> NoEvent]

Init ==
  /\ run = None
  /\ group = "up"
  /\ launched = 0
  /\ gen = [i \in Runs |-> 0]
  /\ emitted = 0
  /\ relays = {}
  /\ sequence = 0
  /\ lastEvent = NoEvent
  /\ lastPlayback = NoEvent
  /\ seen = [o \in Observers |-> NoView]
  /\ mark = [run |-> None, sequence |-> 0]
  /\ invoking = {}
  /\ shown = NoView
  /\ log = <<>>
  /\ overlapped = FALSE

-----------------------------------------------------------------------------
(* The supervisor: see module Supervisor for how it does this.             *)

\* Without a receiver there is no event state; a new receiver starts afresh.
FreshReceiver ==
  /\ sequence' = 0
  /\ lastEvent' = NoEvent
  /\ lastPlayback' = NoEvent

\* A group is launched, under a new generation or, by a restart, under its own.
Launch(g) ==
  /\ launched < MaxRuns
  /\ launched' = launched + 1
  /\ run' = launched + 1
  /\ group' = "up"
  /\ gen' = [gen EXCEPT ![launched + 1] = g]
  /\ FreshReceiver
  /\ UNCHANGED <<emitted, relays, dispatch>>

Start == run = None /\ Launch(launched + 1)

Restart == run # None /\ group = "crashed" /\ Launch(gen[run])

Crash ==
  /\ run # None /\ group = "up"
  /\ group' \in {"crashed", "abandoned"}
  /\ UNCHANGED <<run, launched, gen, emitted, relays, receiver, dispatch>>

Stop ==
  /\ run # None
  /\ run' = None
  /\ group' = "up"
  /\ FreshReceiver
  /\ UNCHANGED <<launched, gen, emitted, relays, dispatch>>

-----------------------------------------------------------------------------
(* The relays and the receiver.                                            *)

\* librespot runs a relay, which may outlive it.
Emit(kind) ==
  /\ run # None /\ group = "up"
  /\ emitted < MaxEvents
  /\ emitted' = emitted + 1
  /\ relays' = relays \cup {[gen |-> gen[run], id |-> emitted + 1, kind |-> kind]}
  /\ UNCHANGED <<supervisor, receiver, dispatch>>

\* Mutation: the generation is not compared.
AcceptsAny(e) == TRUE

Accepts(e) == e.gen = gen[run]

\* The published receiver reads what a relay sent.
Deliver(e) ==
  /\ run # None
  /\ relays' = relays \ {e}
  /\ IF Accepts(e)
     THEN /\ sequence' = sequence + 1
          /\ lastEvent' = e
          /\ lastPlayback' = IF e.kind \in Playback THEN e ELSE lastPlayback
     ELSE UNCHANGED receiver
  /\ UNCHANGED <<supervisor, emitted, dispatch>>

\* No socket is bound, or the receiver that is bound is being replaced.
Lose(e) ==
  /\ relays' = relays \ {e}
  /\ UNCHANGED <<supervisor, emitted, receiver, dispatch>>

-----------------------------------------------------------------------------
(* observe() of the provider: observation(), then _dispatch_events().      *)

Observe(o) ==
  /\ seen[o] = NoView
  /\ run # None /\ sequence > 0
  /\ seen' = [seen EXCEPT ![o] = [run |-> run, sequence |-> sequence, event |-> lastEvent]]
  /\ UNCHANGED <<supervisor, emitted, relays, receiver, mark, invoking, shown, log>>

\* Mutation: the numbers of different groups are compared.
IsNewByNumber(view) == view.sequence > mark.sequence

\* Mutation: a number is dispatched again.
IsNewOrEqual(view) == view.run = mark.run => view.sequence >= mark.sequence

\* The number is above the one recorded for the group; what was recorded for
\* another group of the instance is dropped first.
IsNew(view) == view.run = mark.run => view.sequence > mark.sequence

\* The event is claimed under the lock, and its automations are invoked without it.
Dispatch(o) ==
  /\ seen[o] # NoView
  /\ o \notin invoking
  /\ IF IsNew(seen[o])
     THEN /\ mark' = [run |-> seen[o].run, sequence |-> seen[o].sequence]
          /\ log' = Append(log, seen[o])
          /\ invoking' = invoking \cup {o}
          /\ UNCHANGED seen
     ELSE /\ seen' = [seen EXCEPT ![o] = NoView]
          /\ UNCHANGED <<mark, invoking, log>>
  /\ UNCHANGED <<supervisor, emitted, relays, receiver, shown>>

\* Mutation: errors are recorded only if there are some.
RecordErrors(o) ==
  /\ o \in invoking
  /\ invoking' = invoking \ {o}
  /\ shown' \in {shown, seen[o]}
  /\ seen' = [seen EXCEPT ![o] = NoView]
  /\ UNCHANGED <<supervisor, emitted, relays, receiver, mark, log>>

\* The automations returned or raised; the errors replace those of an earlier event.
Record(o) ==
  /\ o \in invoking
  /\ invoking' = invoking \ {o}
  /\ shown' = seen[o]
  /\ seen' = [seen EXCEPT ![o] = NoView]
  /\ UNCHANGED <<supervisor, emitted, relays, receiver, mark, log>>

Step ==
  \/ Start \/ Restart \/ Crash \/ Stop
  \/ \E kind \in Kinds : Emit(kind)
  \/ \E e \in relays : Deliver(e) \/ Lose(e)
  \/ \E o \in Observers : Observe(o) \/ Dispatch(o) \/ Record(o)

Overlapping == \E o, p \in Observers : o # p /\ seen[o] # NoView /\ seen[p] # NoView

Track == overlapped' = (overlapped \/ Overlapping')

Next == Step /\ Track

ObserverStep(o) == (Observe(o) \/ Dispatch(o) \/ Record(o)) /\ Track

\* observe() asks to be called again after a second.
Spec == Init /\ [][Next]_vars /\ \A o \in Observers : WF_vars(ObserverStep(o))

-----------------------------------------------------------------------------
\* Each variable has its type, and only a published group has event state.
TypeOK ==
  /\ run \in Runs \cup {None}
  /\ group \in {"up", "crashed", "abandoned"}
  /\ launched \in 0 .. MaxRuns
  /\ gen \in [Runs -> 0 .. MaxRuns]
  /\ emitted \in 0 .. MaxEvents
  /\ relays \subseteq Event
  /\ sequence \in 0 .. MaxEvents
  /\ {lastEvent, lastPlayback} \subseteq Event \cup {NoEvent}
  /\ seen \in [Observers -> View]
  /\ overlapped \in BOOLEAN
  /\ mark \in [run : Runs \cup {None}, sequence : 0 .. MaxEvents]
  /\ invoking \subseteq Observers
  /\ shown \in View
  /\ run = None => sequence = 0 /\ lastEvent = NoEvent /\ lastPlayback = NoEvent

\* An event of a group that the host replaced never reaches an automation as an
\* event of the new one, although both use one socket path (EventReceiver._run).
OwnGeneration ==
  \A i \in DOMAIN log : log[i].event.gen = gen[log[i].run]

Earlier(u, v) == u.run < v.run \/ (u.run = v.run /\ u.sequence < v.sequence)

\* Observers that take turns invoke the automations in the order of the events,
\* across the restarts at which the numbers begin again, and once for each event.
DispatchedInOrder ==
  \A i, j \in DOMAIN log : i < j => Earlier(log[i], log[j]) \/ overlapped

\* Once the automations of an event have returned, the errors that the page shows are
\* those of the event that was dispatched last, and none of an earlier one.
ErrorsOfTheLast ==
  log # <<>> /\ invoking = {} => shown = log[Len(log)] \/ overlapped

\* When observers overlap, an event is dispatched twice only if an event of another
\* group was dispatched in between.
TwiceOnlyAfterSwitch ==
  \A i, j \in DOMAIN log :
    i < j /\ log[i].run = log[j].run /\ log[i].sequence = log[j].sequence
      => \E k \in i .. j : log[k].run # log[i].run

\* The last event of a group is dispatched, unless another one follows it or the
\* group is replaced or stopped first.
EventuallyDispatched ==
  \A i \in Runs, n \in 1 .. MaxEvents :
    (run = i /\ sequence = n)
      ~> (run # i \/ sequence # n \/ \E k \in DOMAIN log : log[k].run = i /\ log[k].sequence = n)

\* activeSignal of _playback_facts(), once the hold is over.
ActiveSignal == lastPlayback.kind = "playing"

\* The signal of a receiver that was given up is not active.
SignalMeansRunning == group = "abandoned" => ~ActiveSignal
===============================================================================
