------------------------------ MODULE Supervisor ------------------------------
(***************************************************************************)
(* ResourceSupervisor of open_cinema_librespot/supervision.py: the threads *)
(* that start, stop, watch and restart the process group of one receiver.  *)
(*                                                                         *)
(* A group is launched as incarnation 1, 2, ...; the monitor thread that   *)
(* Publish starts for incarnation i is thread i.  A restart is a new       *)
(* incarnation of the same generation.  The fields that start() assigns    *)
(* together and stop() clears together (_librespot, _bridge, _receiver,    *)
(* _generation, _started_at) are the one variable current.  Every critical *)
(* section of self._lock is one step; what runs outside it interleaves.    *)
(***************************************************************************)
EXTENDS Integers, FiniteSets

CONSTANTS
  Callers,       \* threads of the host that call start() and stop()
  MaxStarts,     \* bound: how many incarnations a behaviour may launch
  RestartLimit   \* restart_limit

Incarnations == 1 .. MaxStarts
NoGroup == 0
Threads == Callers \cup Incarnations
Roles == {"librespot", "bridge"}

ASSUME SupervisorAssumption ==
  /\ MaxStarts \in Nat \ {0}
  /\ RestartLimit \in Nat
  /\ Callers \cap Int = {}

VARIABLES
  desired,            \* _desired_running
  explicitlyStopped,  \* _explicitly_stopped
  current,            \* the published incarnation, or NoGroup
  lastError,          \* _last_error
  crashes,            \* len(_restart_times)
  backoff,            \* _backoff_until is not None
  alive,              \* the processes of each group that have not exited
  doomed,             \* groups that were sent SIGKILL
  open,               \* incarnations whose EventReceiver thread runs
  path,               \* the incarnation that bound the event socket file
  gen,                \* generation of each incarnation
  started,            \* how many incarnations have a name
  intent,             \* history: the generation the host asked for last,
                      \* 0 if it asked for a stop or its start() raised
  pc,                 \* where each thread is
  target,             \* the leader a thread captured
  fresh               \* the incarnation a thread is starting (0: it stops)

state   == <<desired, explicitlyStopped, current, lastError, crashes, backoff>>
os      == <<alive, doomed, open, path>>
names   == <<gen, started, intent>>
locals  == <<pc, target, fresh>>
vars    == <<state, os, names, locals>>

Killing  == {"kill", "reap", "reapLast"}
Resting  == {"idle", "unborn", "watch", "done"}
Calling  == {"check", "mark", "kill", "quiet", "clear", "bind", "spawn", "publish"}
Stages   == Resting \cup Killing \cup Calling \cup {"backoff", "giveup", "error"}
Errors   == {"none", "exited", "restart failed"}

Goto(t, stage) == pc' = [pc EXCEPT ![t] = stage]

\* Mutation: the monitor loops on after its restart.
ReturnedLoops(t) == IF t \in Callers THEN "idle" ELSE "watch"

\* A monitor thread ends with its restart; a caller is back in the host.
Returned(t) == IF t \in Callers THEN "idle" ELSE "done"

\* An exception out of start() reaches the host, or the monitor's handler.
Raise(t) ==
  /\ Goto(t, IF t \in Callers THEN "idle" ELSE "error")
  /\ intent' = IF t \in Callers THEN 0 ELSE intent

Init ==
  /\ desired = FALSE
  /\ explicitlyStopped = TRUE
  /\ current = NoGroup
  /\ lastError = "none"
  /\ crashes = 0
  /\ backoff = FALSE
  /\ alive = [i \in Incarnations |-> {}]
  /\ doomed = {}
  /\ open = {}
  /\ path = NoGroup
  /\ gen = [i \in Incarnations |-> 0]
  /\ started = 0
  /\ intent = 0
  /\ pc = [t \in Threads |-> IF t \in Callers THEN "idle" ELSE "unborn"]
  /\ target = [t \in Threads |-> NoGroup]
  /\ fresh = [t \in Threads |-> NoGroup]

-----------------------------------------------------------------------------
(* The host: a stop, or a start under a generation never used before.      *)

CallStop(c) ==
  /\ pc[c] = "idle"
  /\ intent' = 0
  /\ fresh' = [fresh EXCEPT ![c] = NoGroup]
  /\ Goto(c, "mark")
  /\ UNCHANGED <<state, os, gen, started, target>>

CallStart(c) ==
  /\ pc[c] = "idle"
  /\ started < MaxStarts
  /\ started' = started + 1
  /\ gen' = [gen EXCEPT ![started + 1] = started + 1]
  /\ intent' = started + 1
  /\ fresh' = [fresh EXCEPT ![c] = started + 1]
  /\ Goto(c, "check")
  /\ UNCHANGED <<state, os, target>>

-----------------------------------------------------------------------------
(* start() up to its call of stop(): the plan is already running.          *)

\* The processes of the published group that have not exited.
Children == IF current = NoGroup THEN {} ELSE alive[current]

\* Mutation: the digests are not compared.
AlreadyRunningAnyPlan(n) == desired /\ Children = Roles

AlreadyRunning(n) == desired /\ Children = Roles /\ gen[current] = gen[n]

Check(t) ==
  /\ pc[t] = "check"
  /\ Goto(t, IF AlreadyRunning(fresh[t]) THEN Returned(t) ELSE "mark")
  /\ UNCHANGED <<state, os, names, target, fresh>>

-----------------------------------------------------------------------------
(* stop(), called by the host or by start().                               *)

Mark(t) ==
  /\ pc[t] = "mark"
  /\ desired' = FALSE
  /\ explicitlyStopped' = TRUE
  /\ target' = [target EXCEPT ![t] = current]
  /\ Goto(t, IF current = NoGroup THEN "clear" ELSE "kill")
  /\ UNCHANGED <<current, lastError, crashes, backoff, os, names, fresh>>

\* _terminate_group returns to stop(), or to a monitor that has decided
\* whether to restart.
AfterKill(stage) == CASE stage = "kill"     -> "quiet"
                      [] stage = "reap"     -> "backoff"
                      [] stage = "reapLast" -> "giveup"

\* The loop of _terminate_group watches the published children, which need
\* not be those of the captured leader.
KillWait(t) ==
  /\ pc[t] \in Killing
  /\ Children = {}
  /\ Goto(t, AfterKill(pc[t]))
  /\ UNCHANGED <<state, os, names, target, fresh>>

\* Mutation: the deadline is renewed for ever.
KillForceWaitsOn(t) ==
  /\ pc[t] \in Killing
  /\ UNCHANGED vars

\* Mutation: the deadline passes and nothing is killed.
KillForceGivesUp(t) ==
  /\ pc[t] \in Killing
  /\ Goto(t, AfterKill(pc[t]))
  /\ UNCHANGED <<state, os, names, target, fresh>>

\* Mutation: only a stop that belongs to a start kills.
KillForceForRestart(t) ==
  /\ pc[t] \in Killing
  /\ doomed' = IF fresh[t] = NoGroup THEN doomed ELSE doomed \cup {target[t]}
  /\ Goto(t, AfterKill(pc[t]))
  /\ UNCHANGED <<state, alive, open, path, names, target, fresh>>

\* The deadline passed: SIGKILL the captured group.
KillForce(t) ==
  /\ pc[t] \in Killing
  /\ doomed' = doomed \cup {target[t]}
  /\ Goto(t, AfterKill(pc[t]))
  /\ UNCHANGED <<state, alive, open, path, names, target, fresh>>

\* receiver.stop(): closes its socket and unlinks the path, whoever bound it.  The
\* captured group is not used any more.
Quiet(t) ==
  /\ pc[t] = "quiet"
  /\ open' = open \ {target[t]}
  /\ path' = NoGroup
  /\ target' = [target EXCEPT ![t] = NoGroup]
  /\ Goto(t, "clear")
  /\ UNCHANGED <<state, alive, doomed, names, fresh>>

\* Mutation: _backoff_until is not reset.
ClearKeepsBackoff(t) ==
  /\ pc[t] = "clear"
  /\ current' = NoGroup
  /\ Goto(t, IF fresh[t] = NoGroup THEN Returned(t) ELSE "bind")
  /\ UNCHANGED <<desired, explicitlyStopped, lastError, crashes, backoff, os, names, target, fresh>>

Clear(t) ==
  /\ pc[t] = "clear"
  /\ current' = NoGroup
  /\ backoff' = FALSE
  /\ Goto(t, IF fresh[t] = NoGroup THEN Returned(t) ELSE "bind")
  /\ UNCHANGED <<desired, explicitlyStopped, lastError, crashes, os, names, target, fresh>>

-----------------------------------------------------------------------------
(* The rest of start().                                                    *)

Bind(t) ==
  /\ pc[t] = "bind"
  /\ open' = open \cup {fresh[t]}
  /\ path' = fresh[t]
  /\ Goto(t, "spawn")
  /\ UNCHANGED <<state, alive, doomed, names, target, fresh>>

\* receiver.start() raises: before it unlinks the old socket file, after it, or
\* after it bound a new one that nobody will read.
BindFails(t) ==
  /\ pc[t] = "bind"
  /\ path' \in {path, NoGroup, fresh[t]}
  /\ Raise(t)
  /\ UNCHANGED <<state, alive, doomed, open, gen, started, target, fresh>>

Spawn(t) ==
  /\ pc[t] = "spawn"
  /\ alive' = [alive EXCEPT ![fresh[t]] = Roles]
  /\ Goto(t, "publish")
  /\ UNCHANGED <<state, doomed, open, path, names, target, fresh>>

\* Mutation: the handler does not stop the receiver.
SpawnFailsOpen(t) ==
  /\ pc[t] = "spawn"
  /\ Raise(t)
  /\ UNCHANGED <<state, os, gen, started, target, fresh>>

\* Mutation: the handler leaves the launched librespot alone.
SpawnFailsAlive(t) ==
  /\ pc[t] = "spawn"
  /\ alive' = [alive EXCEPT ![fresh[t]] = {"librespot"}]
  /\ open' = open \ {fresh[t]}
  /\ path' = NoGroup
  /\ Raise(t)
  /\ UNCHANGED <<state, doomed, gen, started, target, fresh>>

\* Either Popen raises; a librespot that was launched is killed.
SpawnFails(t) ==
  /\ pc[t] = "spawn"
  /\ \/ UNCHANGED <<alive, doomed>>
     \/ /\ alive' = [alive EXCEPT ![fresh[t]] = {"librespot"}]
        /\ doomed' = doomed \cup {fresh[t]}
  /\ open' = open \ {fresh[t]}
  /\ path' = NoGroup
  /\ Raise(t)
  /\ UNCHANGED <<state, gen, started, target, fresh>>

\* Mutation: a restart starts no monitor of its own.
PublishUnwatched(t) ==
  /\ pc[t] = "publish"
  /\ desired' = TRUE
  /\ explicitlyStopped' = FALSE
  /\ current' = fresh[t]
  /\ lastError' = "none"
  /\ pc' = [pc EXCEPT ![t] = Returned(t), ![fresh[t]] = IF t \in Callers THEN "watch" ELSE "done"]
  /\ UNCHANGED <<crashes, backoff, os, names, target, fresh>>

\* The new group is published and its monitor thread starts.
Publish(t) ==
  /\ pc[t] = "publish"
  /\ desired' = TRUE
  /\ explicitlyStopped' = FALSE
  /\ current' = fresh[t]
  /\ lastError' = "none"
  /\ pc' = [pc EXCEPT ![t] = Returned(t), ![fresh[t]] = "watch"]
  /\ UNCHANGED <<crashes, backoff, os, names, target, fresh>>

-----------------------------------------------------------------------------
(* _monitor, the thread of incarnation m.                                  *)

\* Mutation: the generation is not compared.
SupervisedAny(m) == current # NoGroup /\ desired

Supervised(m) == current # NoGroup /\ gen[current] = gen[m] /\ desired

Quit(m) ==
  /\ pc[m] = "watch"
  /\ ~Supervised(m)
  /\ Goto(m, "done")
  /\ UNCHANGED <<state, os, names, target, fresh>>

\* Mutation: only librespot is polled.
DetectLibrespot(m) ==
  /\ pc[m] = "watch"
  /\ Supervised(m)
  /\ "librespot" \notin Children
  /\ crashes' = crashes + 1
  /\ backoff' = TRUE
  /\ Goto(m, "reap")
  /\ lastError' = "exited"
  /\ target' = [target EXCEPT ![m] = current]
  /\ UNCHANGED <<desired, explicitlyStopped, current, os, names, fresh>>

\* A process exited.  How many earlier crashes are still inside the restart
\* window is left open here; module RestartWindow models the clock.
Detect(m) ==
  /\ pc[m] = "watch"
  /\ Supervised(m)
  /\ Children # Roles
  /\ \E kept \in 0 .. crashes :
       /\ crashes' = kept + 1
       /\ backoff' = (kept + 1 <= RestartLimit)
       /\ Goto(m, IF kept + 1 <= RestartLimit THEN "reap" ELSE "reapLast")
  /\ lastError' = "exited"
  /\ target' = [target EXCEPT ![m] = current]
  /\ UNCHANGED <<desired, explicitlyStopped, current, os, names, fresh>>

\* Mutation: giving up counts as an explicit stop.
GiveUpExplicitly(m) ==
  /\ pc[m] = "giveup"
  /\ desired' = FALSE
  /\ explicitlyStopped' = TRUE
  /\ Goto(m, "done")
  /\ UNCHANGED <<current, lastError, crashes, backoff, os, names, target, fresh>>

GiveUp(m) ==
  /\ pc[m] = "giveup"
  /\ desired' = FALSE
  /\ Goto(m, "done")
  /\ UNCHANGED <<explicitlyStopped, current, lastError, crashes, backoff, os, names, target, fresh>>

\* The backoff delay is over: start() again, whatever happened meanwhile.
Wake(m) ==
  /\ pc[m] = "backoff"
  /\ started < MaxStarts
  /\ started' = started + 1
  /\ gen' = [gen EXCEPT ![started + 1] = gen[m]]
  /\ fresh' = [fresh EXCEPT ![m] = started + 1]
  /\ Goto(m, "check")
  /\ UNCHANGED <<state, os, intent, target>>

RestartError(m) ==
  /\ pc[m] = "error"
  /\ lastError' = "restart failed"
  /\ desired' = FALSE
  /\ Goto(m, "done")
  /\ UNCHANGED <<explicitlyStopped, current, crashes, backoff, os, names, target, fresh>>

-----------------------------------------------------------------------------
(* The operating system: a process exits, by itself or by a signal.        *)

\* Bound: a process crashes only while a launch is left to answer it.
MayExit(i) ==
  \/ i \in doomed
  \/ \E t \in Threads : pc[t] \in Killing /\ target[t] = i
  \/ started < MaxStarts

Exit(i, r) ==
  /\ r \in alive[i]
  /\ MayExit(i)
  /\ alive' = [alive EXCEPT ![i] = @ \ {r}]
  /\ UNCHANGED <<state, doomed, open, path, names, locals>>

-----------------------------------------------------------------------------
Request(c) == CallStop(c) \/ CallStart(c)

Progress(t) ==
  \/ Check(t) \/ Mark(t) \/ KillWait(t) \/ KillForce(t) \/ Quiet(t) \/ Clear(t)
  \/ Bind(t) \/ BindFails(t) \/ Spawn(t) \/ SpawnFails(t) \/ Publish(t)

Watch(m) == Quit(m) \/ Detect(m) \/ GiveUp(m) \/ Wake(m) \/ RestartError(m)

Run(t) == Progress(t) \/ (t \in Incarnations /\ Watch(t))

Environment == \E i \in Incarnations, r \in Roles : Exit(i, r)

Next ==
  \/ \E c \in Callers : Request(c)
  \/ \E t \in Threads : Run(t)
  \/ Environment

\* SIGKILL takes effect; a process may ignore SIGTERM for ever.
Reap(i) == i \in doomed /\ \E r \in Roles : Exit(i, r)

Fairness ==
  /\ \A t \in Threads : WF_vars(Run(t))
  /\ \A i \in Incarnations : WF_vars(Reap(i))

Spec == Init /\ [][Next]_vars /\ Fairness

(***************************************************************************)
(* The host never calls while a restart or another call is under way.      *)
(* This is an assumption about the schedule: the code does not enforce it. *)
(***************************************************************************)
Busy(t) == pc[t] \notin Resting

Alone(t) == \A u \in Threads \ {t} : ~Busy(u)

SerialRun(t) == Alone(t) /\ Run(t)

SerialNext ==
  \/ \E c \in Callers : Alone(c) /\ Request(c)
  \/ \E t \in Threads : SerialRun(t)
  \/ Environment

SerialFairness ==
  /\ \A t \in Threads : WF_vars(SerialRun(t))
  /\ \A i \in Incarnations : WF_vars(Reap(i))

SerialSpec == Init /\ [][SerialNext]_vars /\ SerialFairness

-----------------------------------------------------------------------------
(* Properties of every schedule (Spec).                                    *)

\* Each variable has its type.
TypeOK ==
  /\ desired \in BOOLEAN
  /\ explicitlyStopped \in BOOLEAN
  /\ current \in Incarnations \cup {NoGroup}
  /\ lastError \in Errors
  /\ crashes \in Nat
  /\ backoff \in BOOLEAN
  /\ alive \in [Incarnations -> SUBSET Roles]
  /\ doomed \subseteq Incarnations \cup {NoGroup}
  /\ open \subseteq Incarnations \cup {NoGroup}
  /\ path \in Incarnations \cup {NoGroup}
  /\ gen \in [Incarnations -> 0 .. MaxStarts]
  /\ started \in 0 .. MaxStarts
  /\ intent \in 0 .. MaxStarts
  /\ pc \in [Threads -> Stages]
  /\ target \in [Threads -> Incarnations \cup {NoGroup}]
  /\ fresh \in [Threads -> Incarnations \cup {NoGroup}]

\* A generation never has two monitor threads watching it, although a restart
\* starts a second one under the same generation (_monitor, start).
OneWatcher ==
  \A m, n \in Incarnations :
    pc[m] = "watch" /\ pc[n] = "watch" /\ gen[m] = gen[n] => m = n

\* A published group the supervisor wants running always has a monitor thread
\* that has not ended: whatever stops and starts overlap, a monitor only quits
\* a group that is replaced or not wanted (lines 239-240).
WatchedWhileDesired ==
  desired /\ current # NoGroup => pc[current] \notin {"unborn", "done"}

\* The monitor of a crashed group captured its own leader, so it never
\* signals the group of another generation (lines 239-243, 264).
ReapsItsOwn ==
  \A m \in Incarnations : pc[m] \in {"reap", "reapLast"} => target[m] = m

\* observation() shows a pending backoff only while a monitor is going to
\* restart or to clear it: it never stays behind an ended restart.
BackoffBacked ==
  backoff => \E m \in Incarnations :
               pc[m] \in {"reap", "backoff", "check", "mark", "kill", "quiet", "clear"}

\* start() never takes its early return: a caller brings a new generation, which
\* the digest covers, and a monitor restarts only what has lost a process.
EarlyReturnUnused == \A t \in Threads : pc[t] = "check" => ~AlreadyRunning(fresh[t])

\* A call of the host returns, even if the processes ignore SIGTERM and if
\* monitors restart meanwhile (_terminate_group's deadline).
CallsReturn == \A c \in Callers : pc[c] # "idle" ~> pc[c] = "idle"

\* A published group that lost a process does not stay the wanted one for
\* ever: it is replaced, stopped or given up (bound: MaxStarts launches).
CrashAnswered ==
  \A i \in Incarnations :
    (desired /\ current = i /\ alive[i] # Roles)
      ~> (~desired \/ current # i \/ started = MaxStarts)

-----------------------------------------------------------------------------
(* What the documentation promises.  It holds when calls and restarts do   *)
(* not overlap (SerialSpec), and the code does not ensure that.            *)

Live == {i \in Incarnations : alive[i] # {} /\ i \notin doomed}

HostIdle == \A c \in Callers : pc[c] = "idle"

Quiescent == \A t \in Threads : ~Busy(t)

\* At most one process group of the instance is alive and not being killed.
OneGroup == \A i, j \in Live : i = j

\* Once stop() returned and until the next start(), nothing runs.
StopIsFinal == HostIdle /\ intent = 0 => Live = {}

\* When start() returned, the published group is of the generation the host
\* asked for last.
NewestGenerationWins ==
  HostIdle /\ intent # 0 /\ current # NoGroup => gen[current] = intent

\* The published group can reach its receiver: the socket file is the one its
\* receiver bound, and no other receiver thread was left behind.
EventsReachable ==
  Quiescent =>
    IF current = NoGroup THEN open = {} ELSE path = current /\ open = {current}

\* A group that runs is wanted, whenever no call or restart is under way: a flag that
\* was cleared by stop(), by a monitor that gave up or by a failed restart does not
\* outlive the group it was about (lines 267, 275, 300), and a crash is then answered.
RunningIsWanted == Quiescent /\ Live # {} => desired

\* lifecycle of observation().
Lifecycle ==
  IF Children = Roles THEN "running"
  ELSE IF explicitlyStopped THEN "stopped"
  ELSE IF lastError # "none" THEN "failed" ELSE "stopped"

\* A group that crashed too often and was given up is shown as failed.
ExhaustionReported ==
  Quiescent /\ current # NoGroup /\ ~desired => Lifecycle = "failed"

\* An automatic restart that failed is shown as failed.
FailureReported ==
  Quiescent /\ lastError = "restart failed" => Lifecycle = "failed"

\* A group that lost one of its two processes loses the other one as well.
GroupReaped ==
  \A i \in Incarnations :
    (alive[i] # {} /\ alive[i] # Roles) ~> (alive[i] = {})

\* The supervisor implements the service that is promised to the host.
Service == INSTANCE ReceiverService WITH
  Groups <- Incarnations,
  wanted <- intent,
  live   <- {<<i, gen[i]>> : i \in Live}

ImplementsService == Service!Spec
===============================================================================
