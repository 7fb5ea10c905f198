---------------------------- MODULE RestartWindow ----------------------------
(***************************************************************************)
(* The restart budget of ResourceSupervisor._monitor: _restart_times holds *)
(* the crashes of the last restart_window_seconds, a crash that makes it   *)
(* longer than restart_limit is not answered by a restart, and the others  *)
(* are answered after a delay that doubles.  A tick is 0.25 seconds.       *)
(*                                                                         *)
(* The deque is the part of the history at[1], at[2], ... of all crash     *)
(* times that starts at head.  Supervisor leaves head open (any number of  *)
(* crashes may be kept), so what it shows holds for this clock as well.    *)
(*                                                                         *)
(* A restart that is pending is a monitor asleep.  Nothing the host does   *)
(* wakes or cancels it: after its delay it launches its group in place of  *)
(* whatever runs by then.  As the host may start a group meanwhile, which  *)
(* may crash as well, several restarts can be pending.                     *)
(***************************************************************************)
EXTENDS Integers, Sequences, FiniteSets

CONSTANTS
  Limit,      \* restart_limit
  Window,     \* restart_window_seconds, in ticks
  Cap,        \* the longest delay (8 seconds), in ticks
  Reap,       \* the longest time a restart comes after its delay, in ticks
  Prompt,     \* a crash is prompt if it comes this soon after its launch
  Horizon,    \* bound on the clock
  MaxCrashes  \* bound on the number of crashes

ASSUME WindowAssumption ==
  /\ {Limit, Window, Cap, Reap, Prompt, Horizon, MaxCrashes} \subseteq Nat

VARIABLES
  now,        \* time.monotonic()
  at,         \* history: the time of every crash
  head,       \* index in at of the oldest entry of _restart_times
  granted,    \* history: the crashes answered by an automatic restart
  pending,    \* the crashes whose monitor sleeps before it restarts the group
  due,        \* when the delay of each crash ends
  live,       \* a group runs and its monitor watches it
  launched,   \* history: when the last group was launched
  cause,      \* history: the crash that launch answered, 0 for the host's
  chain       \* history: each crash's place in a row of restarts that crashed promptly
vars == <<now, at, head, granted, pending, due, live, launched, cause, chain>>

Init ==
  /\ now = 0
  /\ at = <<>>
  /\ head = 1
  /\ granted = {}
  /\ pending = {}
  /\ due = <<>>
  /\ live = FALSE
  /\ launched = 0
  /\ cause = 0
  /\ chain = <<>>

\* min(0.25 * 2 ** (n - 1), 8.0) for the n-th crash of the window.
Delay(n) == IF 2 ^ (n - 1) < Cap THEN 2 ^ (n - 1) ELSE Cap

\* Mutation: a crash exactly as old as the window is purged as well.
StaleEarly(time) == now - time >= Window

Stale(time) == now - time > Window

Exhausted(n) == n > Limit

\* The row that the crash of the running group prolongs.
Place == IF cause > 0 /\ now - launched <= Prompt THEN chain[cause] + 1 ELSE 1

\* The purge stops at the first crash that is not stale.
Crash ==
  /\ live
  /\ Len(at) < MaxCrashes
  /\ live' = FALSE
  /\ \E h \in head .. Len(at) + 1 :
       /\ \A k \in head .. h - 1 : Stale(at[k])
       /\ h <= Len(at) => ~Stale(at[h])
       /\ head' = h
       /\ due' = Append(due, now + Delay(Len(at) + 2 - h))
       /\ IF Exhausted(Len(at) + 2 - h)
          THEN UNCHANGED <<granted, pending>>
          ELSE /\ granted' = granted \cup {Len(at) + 1}
               /\ pending' = pending \cup {Len(at) + 1}
  /\ at' = Append(at, now)
  /\ chain' = Append(chain, Place)
  /\ UNCHANGED <<now, launched, cause>>

\* The monitor that slept restarts its group, whatever the host did meanwhile: start()
\* stops what runs.  It may fail, and then nothing runs.
Restart(k) ==
  /\ now >= due[k]
  /\ pending' = pending \ {k}
  /\ \/ /\ live' = TRUE
        /\ launched' = now
        /\ cause' = k
     \/ /\ live' = FALSE
        /\ UNCHANGED <<launched, cause>>
  /\ UNCHANGED <<now, at, head, granted, due, chain>>

\* Mutation: a start by the host empties _restart_times.
HostStartForgets ==
  /\ live' = TRUE
  /\ launched' = now
  /\ cause' = 0
  /\ head' = Len(at) + 1
  /\ UNCHANGED <<now, at, granted, pending, due, chain>>

\* The host starts the instance.  _restart_times and sleeping monitors are left as
\* they are.
HostStart ==
  /\ live' = TRUE
  /\ launched' = now
  /\ cause' = 0
  /\ UNCHANGED <<now, at, head, granted, pending, due, chain>>

\* The host stops the instance, or its start fails; or the group ends and no monitor
\* watches it any more.  Sleeping monitors sleep on.
HostStop ==
  /\ live
  /\ live' = FALSE
  /\ UNCHANGED <<now, at, head, granted, pending, due, launched, cause, chain>>

\* Time passes.  A pending restart is not late by more than Reap.
Tick ==
  /\ now < Horizon
  /\ \A k \in pending : now < due[k] + Reap
  /\ now' = now + 1
  /\ UNCHANGED <<at, head, granted, pending, due, live, launched, cause, chain>>

Next ==
  \/ Crash \/ HostStart \/ HostStop \/ Tick
  \/ \E k \in pending : Restart(k)

Spec == Init /\ [][Next]_vars

-----------------------------------------------------------------------------
\* Each variable has its type.
TypeOK ==
  /\ now \in Nat
  /\ at \in Seq(Nat)
  /\ head \in 1 .. Len(at) + 1
  /\ granted \subseteq 1 .. Len(at)
  /\ pending \subseteq granted
  /\ due \in Seq(Nat) /\ Len(due) = Len(at)
  /\ live \in BOOLEAN
  /\ launched \in Nat
  /\ cause \in granted \cup {0}
  /\ chain \in Seq(Nat) /\ Len(chain) = Len(at)

\* A crash that was answered by a restart lies more than the window after the
\* crash Limit before it, whatever the host started by hand in between: the
\* purge and the limit together bound restart storms.
RestartsSpaced ==
  \A k \in granted : k > Limit => at[k] - at[k - Limit] > Window

\* No closed interval of the window's length holds more than Limit crashes
\* that were answered by a restart.
WindowBound ==
  \A x \in 0 .. now :
    Cardinality({k \in granted : at[k] \in x .. x + Window}) <= Limit

\* The longest time between a crash and the prompt crash of the group that answers it.
Round == Delay(Limit) + Reap + Prompt

\* A storm of Limit restarts fits in the window, whatever other crashes made its
\* delays longer; so the code's numbers do: 5 restarts of at most 4 s of delay, 4 s to
\* stop and 4 s to crash again, in 60 s.
StormFits == Limit * Round <= Window

\* A storm ends: in no row of restarts, each crashing promptly, are more than Limit
\* crashes answered.  The delays do not let the crashes slip out of the window, and no
\* stop, start or give-up that a pending restart outlived lets it begin anew.
StormStopped == \A k \in granted : chain[k] <= Limit
===============================================================================
