------------------------------ MODULE EventsProofs ------------------------------
(***************************************************************************)
(* What reaches the automations of one instance, for any number of groups, *)
(* events and observers.                                                   *)
(***************************************************************************)
EXTENDS Events, FiniteSets, FiniteSetTheorems, TLAPS

-----------------------------------------------------------------------------
(* What holds however observers overlap.                                   *)

\* Each event is with its relay or was counted, at most once.
Counted == IsFiniteSet(relays) /\ sequence + Cardinality(relays) <= emitted

\* What is published is the latest launch, and its last event is one of its generation.
Published ==
  /\ run # None => run = launched
  /\ run # None => gen[run] # 0
  /\ sequence > 0 => run # None /\ lastEvent.gen = gen[run]

\* What an observer saw was an event of its group.
Genuine(view) ==
  /\ view.run \in Nat /\ 0 < view.run /\ view.run <= launched
  /\ view.sequence > 0
  /\ view.event.gen = gen[view.run]

Views ==
  /\ \A o \in Observers : seen[o] # NoView => Genuine(seen[o])
  /\ log \in Seq(View)
  /\ \A i \in DOMAIN log : Genuine(log[i])

\* The mark is what was dispatched last.
MarkIsLast ==
  IF log = <<>> THEN mark.run = None
  ELSE mark.run = log[Len(log)].run /\ mark.sequence = log[Len(log)].sequence

\* As long as no other group comes in between, the numbers rise.
Rising ==
  \A i, j \in DOMAIN log :
    i < j /\ (\A k \in i .. j : log[k].run = log[i].run) => log[i].sequence < log[j].sequence

Inv == TypeOK /\ Counted /\ Published /\ Views /\ MarkIsLast /\ Rising

LEMMA NoViewIsView == NoView \in View /\ NoView.run = None
  BY EventsAssumption DEF NoView, View, NoEvent, None

\* The numbers of the type invariant.
LEMMA Numbers ==
  ASSUME TypeOK
  PROVE  /\ MaxRuns \in Nat /\ MaxEvents \in Nat
         /\ launched \in Nat /\ launched <= MaxRuns
         /\ emitted \in Nat /\ emitted <= MaxEvents
         /\ sequence \in Nat /\ sequence <= MaxEvents
         /\ run \in Nat /\ run <= MaxRuns
  <1>1. MaxRuns \in Nat /\ MaxEvents \in Nat
    BY EventsAssumption
  <1>2. launched \in 0 .. MaxRuns /\ emitted \in 0 .. MaxEvents /\ sequence \in 0 .. MaxEvents
    BY DEF TypeOK
  <1>3. run \in Runs \cup {None}
    BY DEF TypeOK
  <1>4. \A n \in Runs \cup {None} : n \in Nat /\ n <= MaxRuns
    BY <1>1 DEF Runs, None
  <1>5. QED
    BY <1>1, <1>2, <1>3, <1>4

LEMMA ViewNumbers == \A view \in View : view.sequence \in Nat /\ view.run \in Nat
  BY EventsAssumption DEF View, Runs, None

LEMMA InitInv == Init => Inv
  <1> SUFFICES ASSUME Init PROVE Inv
    OBVIOUS
  <1>1. TypeOK
    <2>1. /\ 0 \in 0 .. MaxRuns /\ 0 \in 0 .. MaxEvents
      BY EventsAssumption
    <2>2. gen \in [Runs -> 0 .. MaxRuns] /\ seen \in [Observers -> View]
      BY <2>1, NoViewIsView DEF Init
    <2>3. mark \in [run : Runs \cup {None}, sequence : 0 .. MaxEvents]
      BY <2>1 DEF Init
    <2>4. shown \in View /\ invoking \subseteq Observers
      BY NoViewIsView DEF Init
    <2>5. QED
      BY <2>1, <2>2, <2>3, <2>4 DEF Init, TypeOK
  <1>2. Counted
    BY FS_EmptySet DEF Init, Counted
  <1>3. Published /\ Views /\ MarkIsLast /\ Rising
    BY DEF Init, Published, Views, MarkIsLast, Rising
  <1>4. QED
    BY <1>1, <1>2, <1>3 DEF Inv

-----------------------------------------------------------------------------
(* The steps of the supervisor, the relays and the receiver.               *)

\* A launch names a new group, and the generations of the others stay.
LEMMA LaunchInv ==
  ASSUME Inv, NEW g \in 1 .. MaxRuns, Launch(g), overlapped' \in BOOLEAN
  PROVE  Inv'
  <1>t. TypeOK /\ launched \in Nat /\ emitted \in Nat /\ MaxRuns \in Nat /\ MaxEvents \in Nat
    BY EventsAssumption DEF Inv, TypeOK
  <1>1. /\ launched < MaxRuns /\ launched' = launched + 1 /\ run' = launched + 1
        /\ gen' = [gen EXCEPT ![launched + 1] = g] /\ group' = "up"
        /\ sequence' = 0 /\ lastEvent' = NoEvent /\ lastPlayback' = NoEvent
        /\ UNCHANGED <<emitted, relays, seen, mark, invoking, shown, log>>
    BY DEF Launch, FreshReceiver, dispatch
  <1>2. launched + 1 \in Runs /\ launched + 1 # None
    BY <1>t, <1>1 DEF Runs, None
  <1>3. TypeOK'
    BY <1>t, <1>1, <1>2 DEF TypeOK, Runs, None
  <1>4. Counted'
    BY <1>t, <1>1, FS_CardinalityType DEF Inv, Counted, TypeOK
  <1>5. Published'
    <2>1. gen'[launched + 1] = g /\ g # 0
      BY <1>t, <1>1, <1>2 DEF TypeOK
    <2>2. QED
      BY <1>1, <2>1 DEF Published
  <1>6. \A view : Genuine(view) => Genuine(view)'
    BY <1>t, <1>1 DEF Genuine, TypeOK, Runs
  <1>7. Views'
    BY <1>1, <1>6 DEF Inv, Views
  <1>8. MarkIsLast' /\ Rising'
    BY <1>1 DEF Inv, MarkIsLast, Rising
  <1>9. QED
    BY <1>3, <1>4, <1>5, <1>7, <1>8 DEF Inv

LEMMA StopInv ==
  ASSUME Inv, Crash \/ Stop, overlapped' \in BOOLEAN
  PROVE  Inv'
  <1>t. TypeOK /\ emitted \in Nat /\ MaxEvents \in Nat
    BY EventsAssumption DEF Inv, TypeOK
  <1>1. /\ run' \in {run, None} /\ group' \in {"up", "crashed", "abandoned"}
        /\ \/ run' = run /\ UNCHANGED receiver
           \/ run' = None /\ sequence' = 0 /\ lastEvent' = NoEvent /\ lastPlayback' = NoEvent
        /\ UNCHANGED <<launched, gen, emitted, relays, seen, mark, invoking, shown, log>>
    BY DEF Crash, Stop, FreshReceiver, dispatch
  <1>2. TypeOK'
    BY <1>t, <1>1 DEF TypeOK, receiver
  <1>3. Counted'
    BY <1>t, <1>1, FS_CardinalityType DEF Inv, Counted, TypeOK, receiver
  <1>4. Published'
    BY <1>1 DEF Inv, Published, receiver
  <1>5. Views' /\ MarkIsLast' /\ Rising'
    BY <1>1 DEF Inv, Views, Genuine, MarkIsLast, Rising
  <1>6. QED
    BY <1>2, <1>3, <1>4, <1>5 DEF Inv

LEMMA EmitInv ==
  ASSUME Inv, NEW kind \in Kinds, Emit(kind), overlapped' \in BOOLEAN
  PROVE  Inv'
  <1> DEFINE e == [gen |-> gen[run], id |-> emitted + 1, kind |-> kind]
  <1>t. /\ TypeOK /\ emitted \in Nat /\ MaxEvents \in Nat /\ sequence \in Nat
        /\ IsFiniteSet(relays) /\ Cardinality(relays) \in Nat
        /\ sequence + Cardinality(relays) <= emitted
    BY EventsAssumption, FS_CardinalityType DEF Inv, TypeOK, Counted
  <1>1. /\ run # None /\ emitted < MaxEvents /\ emitted' = emitted + 1 /\ relays' = relays \cup {e}
        /\ UNCHANGED <<run, group, launched, gen, sequence, lastEvent, lastPlayback, seen, mark, invoking, shown, log>>
    BY DEF Emit, supervisor, receiver, dispatch
  <1>2. e \in Event
    <2>1. gen[run] \in 0 .. MaxRuns
      BY <1>t, <1>1 DEF TypeOK
    <2>2. emitted + 1 \in 1 .. MaxEvents
      BY <1>t, <1>1
    <2>3. QED
      BY <2>1, <2>2 DEF Event
  <1> HIDE DEF e
  <1>3. TypeOK'
    BY <1>t, <1>1, <1>2 DEF TypeOK
  <1>4. Counted'
    <2>1. IsFiniteSet(relays') /\ Cardinality(relays') \in {Cardinality(relays), Cardinality(relays) + 1}
      BY <1>t, <1>1, FS_AddElement
    <2>2. QED
      BY <1>t, <1>1, <2>1 DEF Counted
  <1>5. Published' /\ Views' /\ MarkIsLast' /\ Rising'
    BY <1>1 DEF Inv, Published, Views, Genuine, MarkIsLast, Rising
  <1>6. QED
    BY <1>3, <1>4, <1>5 DEF Inv

LEMMA DeliverInv ==
  ASSUME Inv, NEW e \in relays, Deliver(e) \/ Lose(e), overlapped' \in BOOLEAN
  PROVE  Inv'
  <1>t. /\ TypeOK /\ emitted \in 0 .. MaxEvents /\ MaxEvents \in Nat /\ sequence \in Nat
        /\ IsFiniteSet(relays) /\ Cardinality(relays) \in Nat /\ e \in Event
        /\ sequence + Cardinality(relays) <= emitted
    BY EventsAssumption, FS_CardinalityType DEF Inv, TypeOK, Counted
  <1>1. /\ relays' = relays \ {e}
        /\ UNCHANGED <<run, group, launched, gen, emitted, seen, mark, invoking, shown, log>>
        /\ \/ UNCHANGED <<sequence, lastEvent, lastPlayback>>
           \/ /\ run # None /\ e.gen = gen[run]
              /\ sequence' = sequence + 1 /\ lastEvent' = e /\ lastPlayback' \in {e, lastPlayback}
    BY DEF Deliver, Lose, Accepts, supervisor, receiver, dispatch
  <1>2. /\ IsFiniteSet(relays') /\ Cardinality(relays') = Cardinality(relays) - 1
        /\ Cardinality(relays') \in Nat
    BY <1>t, <1>1, FS_RemoveElement, FS_CardinalityType
  <1>3. Counted'
    BY <1>t, <1>1, <1>2 DEF Counted
  <1>4. sequence' \in 0 .. MaxEvents
    <2>1. sequence' \in Nat /\ sequence' + Cardinality(relays') <= emitted
      BY <1>t, <1>1, <1>2
    <2>2. \A s, c \in Nat : s + c <= emitted => s <= emitted
      BY <1>t
    <2>3. QED
      BY <1>t, <1>2, <2>1, <2>2
  <1>5. TypeOK'
    BY <1>t, <1>1, <1>4 DEF TypeOK
  <1>6. Published'
    BY <1>t, <1>1 DEF Inv, Published
  <1>7. Views' /\ MarkIsLast' /\ Rising'
    BY <1>1 DEF Inv, Views, Genuine, MarkIsLast, Rising
  <1>8. QED
    BY <1>3, <1>5, <1>6, <1>7 DEF Inv

-----------------------------------------------------------------------------
(* The steps of the observers.                                             *)

LEMMA ObserveInv ==
  ASSUME Inv, NEW o \in Observers, Observe(o), overlapped' \in BOOLEAN
  PROVE  Inv'
  <1> DEFINE view == [run |-> run, sequence |-> sequence, event |-> lastEvent]
  <1>t. TypeOK
    BY DEF Inv
  <1>1. /\ run # None /\ sequence > 0 /\ seen' = [seen EXCEPT ![o] = view]
        /\ UNCHANGED <<run, group, launched, gen, emitted, relays, sequence, lastEvent, lastPlayback, mark, invoking, shown, log>>
    BY DEF Observe, supervisor, receiver
  <1>2. view \in View /\ view.run = run /\ view.sequence = sequence /\ view.event = lastEvent
    BY <1>t DEF View, TypeOK
  <1>3. Genuine(view)
    <2>1. run = launched /\ lastEvent.gen = gen[run] /\ run \in Nat \ {0}
      BY <1>t, <1>1, EventsAssumption DEF Inv, Published, TypeOK, Runs, None
    <2>2. QED
      BY <1>1, <1>2, <2>1 DEF Genuine
  <1> HIDE DEF view
  <1>4. TypeOK' /\ Counted' /\ Published' /\ MarkIsLast' /\ Rising'
    BY <1>t, <1>1, <1>2 DEF Inv, TypeOK, Counted, Published, MarkIsLast, Rising
  <1>5. Views'
    BY <1>t, <1>1, <1>3 DEF Inv, Views, Genuine, TypeOK
  <1>6. QED
    BY <1>4, <1>5 DEF Inv

\* What is dispatched is appended to the log.
LEMMA Appended ==
  ASSUME Inv, NEW view \in View, log' = Append(log, view)
  PROVE  /\ log' \in Seq(View) /\ log' # <<>> /\ Len(log') = Len(log) + 1 /\ Len(log) \in Nat
         /\ DOMAIN log = 1 .. Len(log) /\ DOMAIN log' = 1 .. Len(log) + 1
         /\ \A i \in DOMAIN log : log'[i] = log[i]
         /\ log'[Len(log) + 1] = view
  BY DEF Inv, Views

\* The number of a new event is above the others of its group, back to the last event
\* of another one.
LEMMA RisesOn ==
  ASSUME Inv, NEW view \in View, IsNew(view), log' = Append(log, view)
  PROVE  Rising'
  <1> SUFFICES ASSUME NEW i \in DOMAIN log', NEW j \in DOMAIN log', i < j,
                      \A k \in i .. j : log'[k].run = log'[i].run
               PROVE  log'[i].sequence < log'[j].sequence
    BY DEF Rising
  <1> DEFINE n == Len(log)
  <1>a. /\ n \in Nat /\ DOMAIN log = 1 .. n /\ DOMAIN log' = 1 .. n + 1
        /\ \A k \in 1 .. n : log'[k] = log[k]
        /\ log'[n + 1] = view
    BY Appended
  <1> HIDE DEF n
  <1>1. CASE j \in 1 .. n
    <2>1. i \in 1 .. n /\ \A k \in i .. j : k \in 1 .. n
      BY <1>a, <1>1
    <2>2. \A k \in i .. j : log[k].run = log[i].run
      BY <1>a, <2>1
    <2>3. QED
      BY <1>a, <1>1, <2>1, <2>2 DEF Inv, Rising
  <1>2. CASE j = n + 1
    <2>1. i \in 1 .. n /\ n \in 1 .. n /\ n \in i .. j /\ \A k \in i .. n : k \in i .. j /\ k \in 1 .. n
      BY <1>a, <1>2
    <2>2. log[n].run = log[i].run /\ view.run = log[i].run
      BY <1>a, <1>2, <2>1
    <2>3. mark.run = log[n].run /\ mark.sequence = log[n].sequence
      BY <1>a, <2>1 DEF Inv, MarkIsLast, n
    <2>4. view.sequence > log[n].sequence
      BY <2>2, <2>3 DEF IsNew
    <2>5. i = n \/ log[i].sequence < log[n].sequence
      <3>1. \A k \in i .. n : log[k].run = log[i].run
        BY <1>a, <2>1
      <3>2. i < n \/ i = n
        BY <1>a, <2>1
      <3>3. QED
        BY <1>a, <2>1, <3>1, <3>2 DEF Inv, Rising
    <2>6. /\ view.sequence \in Nat /\ log[i].sequence \in Nat /\ log[n].sequence \in Nat
      <3>1. log[i] \in View /\ log[n] \in View
        BY <1>a, <2>1 DEF Inv, Views
      <3>2. QED
        BY <3>1, ViewNumbers
    <2>7. QED
      BY <1>a, <1>2, <2>1, <2>4, <2>5, <2>6
  <1>3. QED
    BY <1>a, <1>1, <1>2

LEMMA DispatchInv ==
  ASSUME Inv, NEW o \in Observers, Dispatch(o), overlapped' \in BOOLEAN
  PROVE  Inv'
  <1> DEFINE view == seen[o]
  <1>t. TypeOK /\ view \in View
    BY DEF Inv, TypeOK
  <1>1. /\ view # NoView /\ seen' \in {seen, [seen EXCEPT ![o] = NoView]}
        /\ invoking' \subseteq Observers
        /\ UNCHANGED <<run, group, launched, gen, emitted, relays, sequence, lastEvent, lastPlayback, shown>>
        /\ IF IsNew(view)
           THEN /\ mark' = [run |-> view.run, sequence |-> view.sequence]
                /\ log' = Append(log, view)
           ELSE UNCHANGED <<mark, log>>
    BY <1>t DEF Dispatch, supervisor, receiver, TypeOK
  <1>2. Genuine(view)
    BY <1>1 DEF Inv, Views
  <1> HIDE DEF view
  <1>3. TypeOK' /\ Counted' /\ Published'
    <2>1. mark' \in [run : Runs \cup {None}, sequence : 0 .. MaxEvents]
      BY <1>t, <1>1 DEF TypeOK, View
    <2>2. QED
      BY <1>t, <1>1, <2>1, NoViewIsView DEF Inv, TypeOK, Counted, Published
  <1>4. (\A p \in Observers : seen[p] # NoView => Genuine(seen[p]))'
    <2> SUFFICES ASSUME NEW p \in Observers, seen'[p] # NoView
                 PROVE  Genuine(seen[p])'
      OBVIOUS
    <2>1. seen'[p] = seen[p]
      BY <1>t, <1>1 DEF TypeOK
    <2>2. QED
      BY <1>1, <2>1 DEF Inv, Views, Genuine
  <1>5. CASE IsNew(view)
    <2>1. /\ log' \in Seq(View) /\ log' # <<>> /\ Len(log') = Len(log) + 1 /\ Len(log) \in Nat
          /\ DOMAIN log = 1 .. Len(log) /\ DOMAIN log' = 1 .. Len(log) + 1
          /\ \A i \in DOMAIN log : log'[i] = log[i]
          /\ log'[Len(log) + 1] = view
      BY <1>t, <1>1, <1>5, Appended
    <2>2. Views'
      <3>1. \A i \in DOMAIN log' : i \in DOMAIN log \/ i = Len(log) + 1
        BY <2>1
      <3>2. \A i \in DOMAIN log' : Genuine(log'[i])
        BY <1>2, <2>1, <3>1 DEF Inv, Views
      <3>3. (\A i \in DOMAIN log : Genuine(log[i]))'
        BY <1>1, <3>2 DEF Genuine
      <3>4. QED
        BY <1>4, <2>1, <3>3 DEF Views
    <2>3. MarkIsLast'
      BY <1>1, <1>5, <2>1 DEF MarkIsLast
    <2>4. Rising'
      BY <1>t, <1>1, <1>5, RisesOn
    <2>5. QED
      BY <1>3, <2>2, <2>3, <2>4 DEF Inv
  <1>6. CASE ~IsNew(view)
    <2>1. Views'
      BY <1>1, <1>4, <1>6 DEF Inv, Views, Genuine
    <2>2. MarkIsLast' /\ Rising'
      BY <1>1, <1>6 DEF Inv, MarkIsLast, Rising
    <2>3. QED
      BY <1>3, <2>1, <2>2 DEF Inv
  <1>7. QED
    BY <1>5, <1>6

LEMMA RecordInv ==
  ASSUME Inv, NEW o \in Observers, Record(o), overlapped' \in BOOLEAN
  PROVE  Inv'
  <1>t. TypeOK
    BY DEF Inv
  <1>1. /\ seen' = [seen EXCEPT ![o] = NoView] /\ invoking' \subseteq invoking /\ shown' = seen[o]
        /\ UNCHANGED <<run, group, launched, gen, emitted, relays, sequence, lastEvent, lastPlayback, mark, log>>
    BY DEF Record, supervisor, receiver
  <1>2. TypeOK' /\ Counted' /\ Published' /\ MarkIsLast' /\ Rising'
    BY <1>t, <1>1, NoViewIsView DEF Inv, TypeOK, Counted, Published, MarkIsLast, Rising
  <1>3. Views'
    BY <1>t, <1>1 DEF Inv, Views, Genuine, TypeOK
  <1>4. QED
    BY <1>2, <1>3 DEF Inv

LEMMA NextInv == Inv /\ [Next]_vars => Inv'
  <1> SUFFICES ASSUME Inv, [Next]_vars PROVE Inv'
    OBVIOUS
  <1>1. CASE Next
    <2>1. overlapped' \in BOOLEAN
      BY <1>1 DEF Next, Track, Inv, TypeOK
    <2>2. CASE Start
      <3>1. launched + 1 \in 1 .. MaxRuns
        BY <2>2, EventsAssumption DEF Start, Launch, Inv, TypeOK
      <3>2. QED
        BY <2>1, <2>2, <3>1, LaunchInv DEF Start
    <2>3. CASE Restart
      <3>1. gen[run] \in 1 .. MaxRuns
        BY <2>3, EventsAssumption DEF Restart, Inv, TypeOK, Published
      <3>2. QED
        BY <2>1, <2>3, <3>1, LaunchInv DEF Restart
    <2>4. QED
      BY <1>1, <2>1, <2>2, <2>3, StopInv, EmitInv, DeliverInv, ObserveInv, DispatchInv, RecordInv DEF Next, Step
  <1>2. CASE UNCHANGED vars
    BY <1>2 DEF vars, supervisor, receiver, dispatch, Inv, TypeOK, Counted, Published, Views, Genuine,
                MarkIsLast, Rising
  <1>3. QED
    BY <1>1, <1>2

\* The inductive invariant holds in every schedule.
THEOREM Invariance == Spec => []Inv
  BY InitInv, NextInv, PTL DEF Spec

\* Each variable of the events keeps its type.
THEOREM TypeCorrect == Spec => []TypeOK
  <1>1. Inv => TypeOK
    BY DEF Inv
  <1>2. QED
    BY <1>1, Invariance, PTL

\* An event is only ever dispatched as one of its own generation.
THEOREM GenerationsApart == Spec => []OwnGeneration
  <1>1. Inv => OwnGeneration
    BY DEF Inv, Views, Genuine, OwnGeneration
  <1>2. QED
    BY <1>1, Invariance, PTL

\* An event is dispatched twice only if one of another group came in between.
THEOREM TwiceAfterSwitch == Spec => []TwiceOnlyAfterSwitch
  <1>1. Inv => TwiceOnlyAfterSwitch
    <2> SUFFICES ASSUME Inv, NEW i \in DOMAIN log, NEW j \in DOMAIN log, i < j,
                        log[i].sequence = log[j].sequence
                 PROVE  \E k \in i .. j : log[k].run # log[i].run
      BY DEF TwiceOnlyAfterSwitch
    <2>1. ~(log[i].sequence < log[j].sequence)
      <3>1. log[i].sequence \in Nat
        BY ViewNumbers DEF Inv, Views
      <3>2. QED
        BY <3>1
    <2>2. QED
      BY <2>1 DEF Inv, Rising
  <1>2. QED
    BY <1>1, Invariance, PTL

-----------------------------------------------------------------------------
(* What holds while the observers take turns.                              *)

\* What was dispatched lies before what is seen, and that before what is yet to come.
AtMost(u, v) == Earlier(u, v) \/ (u.run = v.run /\ u.sequence = v.sequence)

Past(view) ==
  \/ view.run < launched
  \/ view.run = launched /\ (run # None => view.sequence <= sequence)

Turns ==
  /\ ~Overlapping
  /\ \A o \in Observers : seen[o] # NoView => Past(seen[o])
  /\ \A i \in DOMAIN log : Past(log[i])
  /\ \A i \in DOMAIN log, o \in Observers : seen[o] # NoView => AtMost(log[i], seen[o])
  /\ \A i, j \in DOMAIN log : i < j => Earlier(log[i], log[j])

\* Whose automations are being invoked claimed the last event; if there is nobody,
\* its errors are shown.
Answered ==
  /\ \A o \in invoking : seen[o] # NoView /\ log # <<>> /\ seen[o] = log[Len(log)]
  /\ log # <<>> /\ invoking = {} => shown = log[Len(log)]

TurnsInv == Inv /\ (~overlapped => Turns /\ Answered)

LEMMA InitTurnsInv == Init => TurnsInv
  BY InitInv DEF Init, TurnsInv, Turns, Answered, Overlapping

\* A step that leaves the dispatching alone keeps what is past in the past.
LEMMA PastStays ==
  ASSUME Inv, Turns, UNCHANGED dispatch, ~Overlapping',
         \/ UNCHANGED <<run, launched>> /\ sequence' \in Nat /\ sequence <= sequence'
         \/ launched' = launched + 1
         \/ run' = None /\ launched' = launched
  PROVE  Turns'
  <1>t. /\ launched \in Nat /\ sequence \in Nat /\ log \in Seq(View)
        /\ \A o \in Observers : seen[o] \in View
        /\ \A i \in DOMAIN log : log[i] \in View
    BY Numbers DEF Inv, TypeOK, Views
  <1>1. ASSUME NEW view \in View, Past(view)
        PROVE  Past(view)'
    BY <1>1, <1>t, ViewNumbers DEF Past
  <1>2. UNCHANGED <<seen, log>>
    BY DEF dispatch
  <1>3. (\A o \in Observers : seen[o] # NoView => Past(seen[o]))'
    BY <1>t, <1>1, <1>2 DEF Turns, Past
  <1>4. (\A i \in DOMAIN log : Past(log[i]))'
    BY <1>t, <1>1, <1>2 DEF Turns, Past
  <1>5. QED
    BY <1>2, <1>3, <1>4 DEF Turns

LEMMA ObserveTurns ==
  ASSUME Inv, Turns, Answered, NEW o \in Observers, Observe(o), ~Overlapping'
  PROVE  Turns' /\ Answered'
  <1> DEFINE view == [run |-> run, sequence |-> sequence, event |-> lastEvent]
  <1>t. /\ seen \in [Observers -> View] /\ launched \in Nat /\ sequence \in Nat
        /\ run # None => run = launched
        /\ \A i \in DOMAIN log : log[i] \in View
    BY Numbers DEF Inv, TypeOK, Views, Published
  <1>1. /\ run # None /\ seen' = [seen EXCEPT ![o] = view]
        /\ UNCHANGED <<run, launched, sequence, invoking, shown, log>>
        /\ seen[o] = NoView
    BY DEF Observe, supervisor, receiver
  <1>2. view.run = launched /\ view.sequence = sequence
    BY <1>t, <1>1
  <1> HIDE DEF view
  <1>3. Past(view)
    BY <1>t, <1>2 DEF Past
  <1>4. \A i \in DOMAIN log : AtMost(log[i], view)
    <2> SUFFICES ASSUME NEW i \in DOMAIN log PROVE AtMost(log[i], view)
      OBVIOUS
    <2>1. Past(log[i]) /\ log[i].run \in Nat /\ log[i].sequence \in Nat
      BY <1>t, ViewNumbers DEF Turns
    <2>2. QED
      BY <1>t, <1>1, <1>2, <2>1 DEF Past, AtMost, Earlier
  <1>5. \A p \in Observers : seen'[p] = IF p = o THEN view ELSE seen[p]
    BY <1>t, <1>1
  <1>6. (\A p \in Observers : seen[p] # NoView => Past(seen[p]))'
    BY <1>1, <1>3, <1>5 DEF Turns, Past
  <1>7. (\A i \in DOMAIN log, p \in Observers : seen[p] # NoView => AtMost(log[i], seen[p]))'
    BY <1>1, <1>4, <1>5 DEF Turns
  <1>8. (\A i \in DOMAIN log : Past(log[i]))' /\ (\A i, j \in DOMAIN log : i < j => Earlier(log[i], log[j]))'
    BY <1>1 DEF Turns, Past
  <1>9. Answered'
    BY <1>1, <1>5 DEF Answered, Inv, TypeOK
  <1>10. QED
    BY <1>6, <1>7, <1>8, <1>9 DEF Turns

\* What is new lies after everything that was dispatched.
LEMMA NewIsLater ==
  ASSUME Inv, Turns, NEW o \in Observers, seen[o] # NoView, IsNew(seen[o]), NEW i \in DOMAIN log
  PROVE  Earlier(log[i], seen[o])
  <1> DEFINE n == Len(log)
  <1>1. /\ n \in Nat /\ DOMAIN log = 1 .. n
        /\ \A k \in 1 .. n : log[k].run \in Nat /\ log[k].sequence \in Nat
        /\ seen[o].run \in Nat /\ seen[o].sequence \in Nat
    BY ViewNumbers DEF Inv, TypeOK, Views
  <1>2. n \in 1 .. n /\ log # <<>>
    BY <1>1
  <1>3. mark.run = log[n].run /\ mark.sequence = log[n].sequence
    BY <1>2 DEF Inv, MarkIsLast
  <1> HIDE DEF n
  <1>4. AtMost(log[n], seen[o])
    BY <1>1, <1>2 DEF Turns
  <1>5. Earlier(log[n], seen[o])
    BY <1>1, <1>2, <1>3, <1>4 DEF AtMost, Earlier, IsNew
  <1>6. i = n \/ Earlier(log[i], log[n])
    BY <1>1, <1>2 DEF Turns
  <1>7. QED
    BY <1>1, <1>2, <1>5, <1>6 DEF Earlier

\* While one observer has seen something, the others have not.
LEMMA Alone ==
  ASSUME Turns, NEW o \in Observers, seen[o] # NoView
  PROVE  \A p \in Observers \ {o} : seen[p] = NoView
  BY DEF Turns, Overlapping

LEMMA DispatchTurns ==
  ASSUME Inv, Turns, Answered, NEW o \in Observers, Dispatch(o), ~Overlapping'
  PROVE  Turns' /\ Answered'
  <1> DEFINE view == seen[o]
  <1>t. seen \in [Observers -> View] /\ view \in View /\ invoking \subseteq Observers
    BY DEF Inv, TypeOK
  <1>1. /\ view # NoView /\ o \notin invoking
        /\ UNCHANGED <<run, launched, sequence, shown>>
        /\ IF IsNew(view)
           THEN log' = Append(log, view) /\ UNCHANGED seen /\ invoking' = invoking \cup {o}
           ELSE UNCHANGED <<log, invoking>> /\ seen' = [seen EXCEPT ![o] = NoView]
    BY DEF Dispatch, supervisor, receiver
  <1>2. (\A p \in Observers \ {o} : seen[p] = NoView) /\ invoking = {}
    BY <1>t, <1>1, Alone DEF Answered
  <1>3. CASE IsNew(view)
    <2>1. /\ Len(log) \in Nat /\ log' # <<>> /\ Len(log') = Len(log) + 1
          /\ DOMAIN log = 1 .. Len(log) /\ DOMAIN log' = 1 .. Len(log) + 1
          /\ \A i \in DOMAIN log : log'[i] = log[i]
          /\ log'[Len(log) + 1] = view
      BY <1>t, <1>1, <1>3, Appended
    <2>2. \A i \in DOMAIN log' : i \in DOMAIN log \/ i = Len(log) + 1
      BY <2>1
    <2>3. Past(view)
      BY <1>1 DEF Turns
    <2>4. (\A i \in DOMAIN log : Past(log[i]))'
      BY <1>1, <2>1, <2>2, <2>3 DEF Turns, Past
    <2>5. \A i \in DOMAIN log : Earlier(log[i], view)
      BY <1>1, <1>3, NewIsLater
    <2>6. (\A i, j \in DOMAIN log : i < j => Earlier(log[i], log[j]))'
      <3> SUFFICES ASSUME NEW i \in DOMAIN log', NEW j \in DOMAIN log', i < j
                   PROVE  Earlier(log'[i], log'[j])
        BY DEF Earlier
      <3>1. i \in DOMAIN log
        BY <2>1
      <3>2. j \in DOMAIN log \/ j = Len(log) + 1
        BY <2>2
      <3>3. QED
        BY <2>1, <2>5, <3>1, <3>2 DEF Turns
    <2>7. \A p \in Observers : seen[p] # NoView => p = o
      BY <1>2
    <2>8. (\A i \in DOMAIN log, p \in Observers : seen[p] # NoView => AtMost(log[i], seen[p]))'
      <3> SUFFICES ASSUME NEW i \in DOMAIN log'
                   PROVE  AtMost(log'[i], view)
        BY <1>1, <1>3, <2>7 DEF AtMost, Earlier
      <3>1. QED
        BY <2>1, <2>2, <2>5 DEF AtMost
    <2>9. (\A p \in Observers : seen[p] # NoView => Past(seen[p]))'
      BY <1>1, <1>3, <2>3, <2>7 DEF Past
    <2>10. Turns'
      BY <2>4, <2>6, <2>8, <2>9 DEF Turns
    <2>11. Answered'
      BY <1>1, <1>2, <1>3, <2>1 DEF Answered
    <2>12. QED
      BY <2>10, <2>11
  <1>4. CASE ~IsNew(view)
    <2>1. \A p \in Observers : seen'[p] = NoView
      BY <1>t, <1>1, <1>2, <1>4
    <2>2. QED
      BY <1>1, <1>2, <1>4, <2>1 DEF Turns, Answered, Past
  <1>5. QED
    BY <1>3, <1>4

LEMMA RecordTurns ==
  ASSUME Inv, Turns, Answered, NEW o \in Observers, Record(o), ~Overlapping'
  PROVE  Turns' /\ Answered'
  <1>t. seen \in [Observers -> View] /\ invoking \subseteq Observers
    BY DEF Inv, TypeOK
  <1>1. /\ o \in invoking /\ invoking' = invoking \ {o} /\ shown' = seen[o]
        /\ seen' = [seen EXCEPT ![o] = NoView]
        /\ UNCHANGED <<run, launched, sequence, log>>
    BY DEF Record, supervisor, receiver
  <1>2. seen[o] # NoView /\ seen[o] = log[Len(log)]
    BY <1>1 DEF Answered
  <1>3. \A p \in Observers \ {o} : seen[p] = NoView
    BY <1>2, Alone
  <1>4. (\A p \in Observers : seen'[p] = NoView) /\ invoking' = {}
    BY <1>t, <1>1, <1>3 DEF Answered
  <1>5. QED
    BY <1>1, <1>2, <1>4 DEF Turns, Answered, Past

LEMMA TurnsNextInv == TurnsInv /\ [Next]_vars => TurnsInv'
  <1> SUFFICES ASSUME TurnsInv, [Next]_vars PROVE TurnsInv'
    OBVIOUS
  <1>1. Inv'
    BY NextInv DEF TurnsInv
  <1>2. CASE Next
    <2> SUFFICES ASSUME ~overlapped' PROVE Turns' /\ Answered'
      BY <1>1 DEF TurnsInv
    <2>1. Turns /\ Answered /\ Inv /\ ~Overlapping'
      BY <1>2 DEF Next, Track, TurnsInv
    <2>n. sequence \in Nat
      BY <2>1, Numbers DEF Inv
    <2>d. ASSUME UNCHANGED dispatch PROVE Answered'
      BY <2>1, <2>d DEF dispatch, Answered
    <2>2. ASSUME Start \/ Restart PROVE Turns' /\ Answered'
      BY <2>1, <2>d, <2>2, PastStays DEF Start, Restart, Launch
    <2>3. ASSUME Crash \/ Stop PROVE Turns' /\ Answered'
      BY <2>1, <2>d, <2>3, <2>n, PastStays DEF Crash, Stop, receiver
    <2>4. ASSUME NEW kind \in Kinds, Emit(kind) PROVE Turns' /\ Answered'
      BY <2>1, <2>d, <2>4, <2>n, PastStays DEF Emit, supervisor, receiver
    <2>5. ASSUME NEW e \in relays, Deliver(e) \/ Lose(e) PROVE Turns' /\ Answered'
      BY <2>1, <2>d, <2>5, <2>n, PastStays DEF Deliver, Lose, supervisor, receiver
    <2>6. QED
      BY <1>2, <2>1, <2>2, <2>3, <2>4, <2>5, ObserveTurns, DispatchTurns, RecordTurns DEF Next, Step
  <1>3. CASE UNCHANGED vars
    BY <1>1, <1>3 DEF vars, supervisor, receiver, dispatch, TurnsInv, Turns, Answered, Past, Overlapping
  <1>4. QED
    BY <1>2, <1>3

\* The inductive invariant of observers that take turns.
THEOREM TurnsInvariance == Spec => []TurnsInv
  <1>1. TurnsInv /\ [Next]_vars => TurnsInv'
    BY TurnsNextInv
  <1>2. QED
    BY <1>1, InitTurnsInv, PTL DEF Spec

\* Observers that take turns dispatch the events in their order and once each, across
\* any number of restarts.
THEOREM InOrder == Spec => []DispatchedInOrder
  <1>1. TurnsInv => DispatchedInOrder
    BY DEF TurnsInv, Turns, DispatchedInOrder
  <1>2. QED
    BY <1>1, TurnsInvariance, PTL

\* While observers take turns, the errors that are shown are those of the last event.
THEOREM ErrorsAreLatest == Spec => []ErrorsOfTheLast
  <1>1. TurnsInv => ErrorsOfTheLast
    BY DEF TurnsInv, Answered, ErrorsOfTheLast
  <1>2. QED
    BY <1>1, TurnsInvariance, PTL
===============================================================================
