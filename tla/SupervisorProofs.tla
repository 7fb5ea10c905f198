--------------------------- MODULE SupervisorProofs ---------------------------
(***************************************************************************)
(* What the supervisor's locking and generations ensure for every number   *)
(* of host threads, launches and restarts, and every interleaving (Spec).  *)
(***************************************************************************)
EXTENDS Supervisor, TLAPS

\* A thread that is inside start(), on behalf of incarnation fresh[t].
Starting(t) == pc[t] \in Calling /\ fresh[t] # NoGroup

\* The thread that answers for generation g: the monitor of an incarnation of
\* g that has not ended, or a caller that is starting g.
Holds(t, g) ==
  \/ t \in Incarnations /\ pc[t] \notin {"unborn", "done"} /\ gen[t] = g
  \/ t \in Callers /\ Starting(t) /\ gen[fresh[t]] = g

-----------------------------------------------------------------------------
(* The inductive invariant.                                                *)

\* Incarnations are named in order; those not named yet have no thread.
Named ==
  /\ \A i \in Incarnations : i > started => pc[i] = "unborn"
  /\ \A i \in Incarnations : i <= started => gen[i] \in 1 .. i

\* Who is starting an incarnation is alone in doing so, and its monitor thread
\* does not exist yet.
Reserved ==
  /\ \A t \in Threads : Starting(t) => fresh[t] <= started /\ pc[fresh[t]] = "unborn"
  /\ \A t, u \in Threads : Starting(t) /\ Starting(u) /\ fresh[t] = fresh[u] => t = u
  /\ \A t \in Threads : pc[t] \in {"check", "bind", "spawn", "publish"} => fresh[t] # NoGroup

\* A monitor that calls start() passes its own generation on.
Inherits ==
  \A m \in Incarnations :
    pc[m] \in Calling => fresh[m] # NoGroup /\ gen[fresh[m]] = gen[m]

PublishedIsBorn == current # NoGroup => pc[current] # "unborn"

OneHolder ==
  \A t, u \in Threads : \A g \in 1 .. MaxStarts : Holds(t, g) /\ Holds(u, g) => t = u

\* A monitor only leaves its loop for a group that lost a process, and the
\* group never gets it back.
LeftIsBroken ==
  \A m \in Incarnations :
    pc[m] \notin {"unborn", "watch", "done"} => alive[m] # Roles

Inv ==
  /\ TypeOK
  /\ Named
  /\ Reserved
  /\ Inherits
  /\ PublishedIsBorn
  /\ OneHolder
  /\ LeftIsBroken
  /\ WatchedWhileDesired
  /\ ReapsItsOwn
  /\ BackoffBacked

LEMMA Disjoint == \A c \in Callers : c \notin Incarnations
  BY SupervisorAssumption DEF Incarnations

LEMMA InitInv == Init => Inv
  <1> SUFFICES ASSUME Init PROVE Inv
    OBVIOUS
  <1> USE SupervisorAssumption
  <1>1. TypeOK
    <2>1. 0 \in 0 .. MaxStarts /\ 0 \in Nat
      OBVIOUS
    <2>2. pc \in [Threads -> Stages]
      BY DEF Init, Threads, Stages, Resting
    <2>3. /\ alive \in [Incarnations -> SUBSET Roles]
          /\ gen \in [Incarnations -> 0 .. MaxStarts]
          /\ target \in [Threads -> Incarnations \cup {NoGroup}]
          /\ fresh \in [Threads -> Incarnations \cup {NoGroup}]
      BY <2>1 DEF Init
    <2>4. QED
      BY <2>1, <2>2, <2>3 DEF Init, TypeOK, Errors
  <1>2. Named /\ Reserved /\ Inherits /\ PublishedIsBorn
    BY Disjoint DEF Init, Named, Reserved, Inherits, PublishedIsBorn, Starting, Calling, Threads, Incarnations, NoGroup
  <1>3. OneHolder /\ LeftIsBroken
    BY Disjoint DEF Init, OneHolder, LeftIsBroken, Holds, Starting, Calling, Threads
  <1>4. WatchedWhileDesired /\ ReapsItsOwn /\ BackoffBacked
    BY Disjoint DEF Init, WatchedWhileDesired, ReapsItsOwn, BackoffBacked, Threads
  <1>5. QED
    BY <1>1, <1>2, <1>3, <1>4 DEF Inv

LEMMA TypeInv == ASSUME TypeOK, Next PROVE TypeOK'
  <1> USE SupervisorAssumption DEF TypeOK, NoGroup
  <1>1. ASSUME NEW c \in Callers, CallStop(c) PROVE TypeOK'
    BY <1>1 DEF CallStop, Goto, state, os, Threads, Stages, Calling
  <1>2. ASSUME NEW c \in Callers, CallStart(c) PROVE TypeOK'
    BY <1>2 DEF CallStart, Goto, state, os, Threads, Stages, Calling, Incarnations
  <1>3. ASSUME NEW t \in Threads, Check(t) PROVE TypeOK'
    BY <1>3 DEF Check, Goto, Returned, state, os, names, Stages, Calling, Resting
  <1>4. ASSUME NEW t \in Threads, Mark(t) PROVE TypeOK'
    BY <1>4 DEF Mark, Goto, os, names, Stages, Calling
  <1>5. ASSUME NEW t \in Threads, KillWait(t) PROVE TypeOK'
    BY <1>5 DEF KillWait, Goto, AfterKill, Killing, state, os, names, Stages, Calling
  <1>6. ASSUME NEW t \in Threads, KillForce(t) PROVE TypeOK'
    BY <1>6 DEF KillForce, Goto, AfterKill, Killing, state, names, Stages, Calling
  <1>7. ASSUME NEW t \in Threads, Quiet(t) PROVE TypeOK'
    BY <1>7 DEF Quiet, Goto, state, names, Stages, Calling
  <1>8. ASSUME NEW t \in Threads, Clear(t) PROVE TypeOK'
    BY <1>8 DEF Clear, Goto, Returned, os, names, Stages, Calling, Resting
  <1>9. ASSUME NEW t \in Threads, Bind(t) PROVE TypeOK'
    BY <1>9 DEF Bind, Goto, state, names, Stages, Calling
  <1>10. ASSUME NEW t \in Threads, BindFails(t) PROVE TypeOK'
    BY <1>10 DEF BindFails, Raise, Goto, state, Stages, Resting
  <1>11. ASSUME NEW t \in Threads, Spawn(t) PROVE TypeOK'
    BY <1>11 DEF Spawn, Goto, state, names, Stages, Calling
  <1>12. ASSUME NEW t \in Threads, SpawnFails(t) PROVE TypeOK'
    BY <1>12 DEF SpawnFails, Raise, Goto, state, Stages, Resting, Roles
  <1>13. ASSUME NEW t \in Threads, Publish(t) PROVE TypeOK'
    BY <1>13 DEF Publish, Returned, os, names, Stages, Resting, Errors
  <1>14. ASSUME NEW m \in Incarnations, Quit(m) PROVE TypeOK'
    BY <1>14 DEF Quit, Goto, state, os, names, Stages, Resting
  <1>15. ASSUME NEW m \in Incarnations, Detect(m) PROVE TypeOK'
    <2>1. PICK kept \in 0 .. crashes :
            /\ crashes' = kept + 1
            /\ backoff' = (kept + 1 <= RestartLimit)
            /\ Goto(m, IF kept + 1 <= RestartLimit THEN "reap" ELSE "reapLast")
      BY <1>15 DEF Detect
    <2>2. crashes' \in Nat /\ backoff' \in BOOLEAN
      BY <2>1
    <2>3. pc' \in [Threads -> Stages]
      BY <2>1 DEF Goto, Stages, Killing
    <2>4. target' \in [Threads -> Incarnations \cup {NoGroup}] /\ lastError' \in Errors
      BY <1>15 DEF Detect, Errors
    <2>5. UNCHANGED <<desired, explicitlyStopped, current, os, names, fresh>>
      BY <1>15 DEF Detect
    <2>6. QED
      BY <2>2, <2>3, <2>4, <2>5 DEF os, names
  <1>16. ASSUME NEW m \in Incarnations, GiveUp(m) PROVE TypeOK'
    BY <1>16 DEF GiveUp, Goto, os, names, Stages, Resting
  <1>17. ASSUME NEW m \in Incarnations, Wake(m) PROVE TypeOK'
    <2>1. started + 1 \in Incarnations /\ started + 1 \in 0 .. MaxStarts
      BY <1>17 DEF Wake, Incarnations
    <2>2. gen' \in [Incarnations -> 0 .. MaxStarts] /\ started' \in 0 .. MaxStarts
      BY <1>17, <2>1 DEF Wake
    <2>3. fresh' \in [Threads -> Incarnations \cup {NoGroup}] /\ pc' \in [Threads -> Stages]
      BY <1>17, <2>1 DEF Wake, Goto, Stages, Calling
    <2>4. UNCHANGED <<state, os, intent, target>>
      BY <1>17 DEF Wake
    <2>5. QED
      BY <2>2, <2>3, <2>4 DEF state, os
  <1>18. ASSUME NEW m \in Incarnations, RestartError(m) PROVE TypeOK'
    BY <1>18 DEF RestartError, Goto, os, names, Stages, Resting, Errors
  <1>19. ASSUME NEW i \in Incarnations, NEW r \in Roles, Exit(i, r) PROVE TypeOK'
    BY <1>19 DEF Exit, state, names, locals
  <1>20. QED
    BY <1>1, <1>2, <1>3, <1>4, <1>5, <1>6, <1>7, <1>8, <1>9, <1>10, <1>11, <1>12,
       <1>13, <1>14, <1>15, <1>16, <1>17, <1>18, <1>19
       DEF Next, Request, Run, Progress, Watch, Environment

-----------------------------------------------------------------------------
(* Every step preserves the invariant.                                     *)

\* Names are handed out once: an incarnation is started by one thread and
\* watched by one.
LEMMA NamingInv == ASSUME Inv, TypeOK', Next PROVE (Named /\ Reserved /\ Inherits /\ PublishedIsBorn)'
  <1> USE Disjoint DEF Inv, TypeOK, Named, Reserved, Inherits, PublishedIsBorn, Starting,
          Calling, Threads, NoGroup
  <1>1. ASSUME NEW c \in Callers, CallStop(c) PROVE (Named /\ Reserved /\ Inherits /\ PublishedIsBorn)'
    BY <1>1 DEF CallStop, Goto, state, os
  <1>2. ASSUME NEW c \in Callers, CallStart(c) PROVE (Named /\ Reserved /\ Inherits /\ PublishedIsBorn)'
    <2> PICK n \in Nat : n = started + 1
      BY DEF Inv, TypeOK
    <2>1. /\ n \in Incarnations /\ n # c /\ pc[n] = "unborn" /\ gen'[n] = n
          /\ \A i \in Incarnations : i # n => gen'[i] = gen[i]
          /\ \A u \in Threads : u # c => pc'[u] = pc[u] /\ fresh'[u] = fresh[u]
          /\ pc'[c] = "check" /\ fresh'[c] = n /\ started' = n /\ current' = current
      BY <1>2 DEF CallStart, Goto, state, Incarnations
    <2>2. started \in Nat /\ Incarnations \subseteq Nat \ {0} /\ n > started
      BY SupervisorAssumption DEF Incarnations
    <2>3. ~Starting(c) /\ \A i \in Incarnations : pc[i] = "unborn" => i # c
      BY <1>2 DEF CallStart
    <2>4. \A u \in Threads : Starting(u) => fresh[u] \in Incarnations /\ fresh[u] # n /\ fresh[u] <= n
      <3> SUFFICES ASSUME NEW u \in Threads, Starting(u)
                   PROVE  fresh[u] \in Incarnations /\ fresh[u] # n /\ fresh[u] <= n
        OBVIOUS
      <3>1. fresh[u] \in Incarnations /\ fresh[u] <= started
        OBVIOUS
      <3>2. fresh[u] \in Nat
        BY <2>2, <3>1
      <3>3. \A a, b, d \in Nat : a <= b /\ d > b => a # d /\ a <= d
        OBVIOUS
      <3>4. QED
        BY <2>2, <3>1, <3>2, <3>3
    <2>5. Named'
      <3>1. \A i \in Incarnations : i > n => pc'[i] = "unborn"
        BY <2>1, <2>2, <2>3
      <3>2. n \in 1 .. n /\ n \in 1 .. n
        BY <2>2
      <3>3. \A i \in Incarnations : i <= n => gen'[i] \in 1 .. i
        BY <2>1, <2>2, <3>2
      <3>4. QED
        BY <2>1, <3>1, <3>3
    <2>6. \A u \in Threads : u # c => Starting(u)' = Starting(u)
      BY <2>1
    <2>7. Reserved'
      <3>1. \A u \in Threads : u # c /\ Starting(u)' =>
               fresh'[u] = fresh[u] /\ fresh[u] <= started' /\ pc'[fresh[u]] = "unborn"
        BY <2>1, <2>2, <2>3, <2>4, <2>6
      <3>2. fresh'[c] <= started' /\ pc'[fresh'[c]] = "unborn"
        BY <2>1, <2>2
      <3>3. \A t, u \in Threads : Starting(t)' /\ Starting(u)' /\ fresh'[t] = fresh'[u] => t = u
        BY <2>1, <2>4, <2>6
      <3>4. \A u \in Threads : pc'[u] \in {"check", "bind", "spawn", "publish"} => fresh'[u] # NoGroup
        BY <2>1, <2>2
      <3>5. QED
        BY <3>1, <3>2, <3>3, <3>4
    <2>8. Inherits'
      <3> SUFFICES ASSUME NEW k \in Incarnations, pc'[k] \in Calling
                   PROVE  fresh'[k] # NoGroup /\ gen'[fresh'[k]] = gen'[k]
        OBVIOUS
      <3>1. k # n
        BY <2>1
      <3>2. CASE k = c
        BY <2>1, <2>2, <3>1, <3>2
      <3>3. CASE k # c
        <4>1. pc[k] \in Calling /\ fresh'[k] = fresh[k] /\ gen'[k] = gen[k]
          BY <2>1, <3>1, <3>3
        <4>2. fresh[k] # NoGroup /\ gen[fresh[k]] = gen[k] /\ fresh[k] \in Incarnations \ {n}
          BY <2>4, <4>1
        <4>3. gen'[fresh[k]] = gen[fresh[k]]
          BY <2>1, <4>2
        <4>4. QED
          BY <4>1, <4>2, <4>3
      <3>4. QED
        BY <3>2, <3>3
    <2>9. PublishedIsBorn'
      BY <2>1, <2>3
    <2>10. QED
      BY <2>5, <2>7, <2>8, <2>9
  <1>3. ASSUME NEW t \in Threads, Check(t) PROVE (Named /\ Reserved /\ Inherits /\ PublishedIsBorn)'
    BY <1>3 DEF Check, Goto, state, os, names, Returned
  <1>4. ASSUME NEW t \in Threads, Mark(t) PROVE (Named /\ Reserved /\ Inherits /\ PublishedIsBorn)'
    BY <1>4 DEF Mark, Goto, os, names
  <1>5. ASSUME NEW t \in Threads, KillWait(t) PROVE (Named /\ Reserved /\ Inherits /\ PublishedIsBorn)'
    BY <1>5 DEF KillWait, Goto, state, os, names, AfterKill, Killing, Children
  <1>6. ASSUME NEW t \in Threads, KillForce(t) PROVE (Named /\ Reserved /\ Inherits /\ PublishedIsBorn)'
    BY <1>6 DEF KillForce, Goto, state, names, AfterKill, Killing
  <1>7. ASSUME NEW t \in Threads, Quiet(t) PROVE (Named /\ Reserved /\ Inherits /\ PublishedIsBorn)'
    BY <1>7 DEF Quiet, Goto, state, names
  <1>8. ASSUME NEW t \in Threads, Clear(t) PROVE (Named /\ Reserved /\ Inherits /\ PublishedIsBorn)'
    BY <1>8 DEF Clear, Goto, os, names, Returned
  <1>9. ASSUME NEW t \in Threads, Bind(t) PROVE (Named /\ Reserved /\ Inherits /\ PublishedIsBorn)'
    BY <1>9 DEF Bind, Goto, state, names
  <1>10. ASSUME NEW t \in Threads, BindFails(t) PROVE (Named /\ Reserved /\ Inherits /\ PublishedIsBorn)'
    BY <1>10 DEF BindFails, Goto, state, Raise
  <1>11. ASSUME NEW t \in Threads, Spawn(t) PROVE (Named /\ Reserved /\ Inherits /\ PublishedIsBorn)'
    BY <1>11 DEF Spawn, Goto, state, names
  <1>12. ASSUME NEW t \in Threads, SpawnFails(t) PROVE (Named /\ Reserved /\ Inherits /\ PublishedIsBorn)'
    BY <1>12 DEF SpawnFails, Goto, state, Raise
  <1>13. ASSUME NEW t \in Threads, Publish(t) PROVE (Named /\ Reserved /\ Inherits /\ PublishedIsBorn)'
    <2>1. /\ fresh[t] \in Incarnations /\ fresh[t] <= started /\ pc[fresh[t]] = "unborn"
          /\ fresh[t] # t
      BY <1>13 DEF Publish
    <2>2. /\ pc'[fresh[t]] = "watch" /\ pc'[t] \in {"idle", "done"} /\ current' = fresh[t]
          /\ \A u \in Threads : u # t /\ u # fresh[t] => pc'[u] = pc[u]
          /\ UNCHANGED <<gen, started, fresh>>
      BY <1>13, <2>1 DEF Publish, names, Returned
    <2>3. Named'
      <3>1. \A i \in Incarnations : i > started => i # fresh[t] /\ i # t
        <4>1. pc[t] # "unborn"
          BY <1>13 DEF Publish
        <4>2. \A i \in Incarnations : i > started => pc[i] = "unborn" /\ ~(i <= started)
          BY DEF Incarnations
        <4>3. QED
          BY <2>1, <4>1, <4>2
      <3>2. QED
        BY <2>2, <3>1
    <2>4. \A u \in Threads : Starting(u)' => Starting(u) /\ u # t /\ fresh[u] # fresh[t]
      BY <1>13, <2>1, <2>2 DEF Publish
    <2>5. \A u \in Threads : Starting(u)' => pc'[fresh[u]] = "unborn"
      <3>1. pc[t] # "unborn"
        BY <1>13 DEF Publish
      <3>2. QED
        BY <2>2, <2>4, <3>1
    <2>6. Reserved' /\ PublishedIsBorn'
      BY <2>1, <2>2, <2>4, <2>5
    <2>7. Inherits'
      <3> SUFFICES ASSUME NEW k \in Incarnations, pc'[k] \in Calling
                   PROVE  fresh[k] # NoGroup /\ gen[fresh[k]] = gen[k]
        BY <2>2
      <3>1. k # t /\ k # fresh[t]
        BY <2>2
      <3>2. QED
        BY <2>2, <3>1
    <2>8. QED
      BY <2>3, <2>6, <2>7
  <1>14. ASSUME NEW m \in Incarnations, Quit(m) PROVE (Named /\ Reserved /\ Inherits /\ PublishedIsBorn)'
    BY <1>14 DEF Quit, Goto, state, os, names
  <1>15. ASSUME NEW m \in Incarnations, Detect(m) PROVE (Named /\ Reserved /\ Inherits /\ PublishedIsBorn)'
    BY <1>15 DEF Detect, Goto, os, names
  <1>16. ASSUME NEW m \in Incarnations, GiveUp(m) PROVE (Named /\ Reserved /\ Inherits /\ PublishedIsBorn)'
    BY <1>16 DEF GiveUp, Goto, os, names
  <1>17. ASSUME NEW m \in Incarnations, Wake(m) PROVE (Named /\ Reserved /\ Inherits /\ PublishedIsBorn)'
    <2> PICK n \in Nat : n = started + 1
      BY DEF Inv, TypeOK
    <2>1. /\ n \in Incarnations /\ n # m /\ pc[n] = "unborn" /\ gen'[n] = gen[m]
          /\ \A i \in Incarnations : i # n => gen'[i] = gen[i]
          /\ \A u \in Threads : u # m => pc'[u] = pc[u] /\ fresh'[u] = fresh[u]
          /\ pc'[m] = "check" /\ fresh'[m] = n /\ started' = n /\ current' = current
      BY <1>17 DEF Wake, Goto, state, Incarnations
    <2>2. started \in Nat /\ Incarnations \subseteq Nat \ {0} /\ n > started
      BY SupervisorAssumption DEF Incarnations
    <2>3. ~Starting(m) /\ \A i \in Incarnations : pc[i] = "unborn" => i # m
      BY <1>17 DEF Wake
    <2>4. \A u \in Threads : Starting(u) => fresh[u] \in Incarnations /\ fresh[u] # n /\ fresh[u] <= n
      <3> SUFFICES ASSUME NEW u \in Threads, Starting(u)
                   PROVE  fresh[u] \in Incarnations /\ fresh[u] # n /\ fresh[u] <= n
        OBVIOUS
      <3>1. fresh[u] \in Incarnations /\ fresh[u] <= started
        OBVIOUS
      <3>2. fresh[u] \in Nat
        BY <2>2, <3>1
      <3>3. \A a, b, d \in Nat : a <= b /\ d > b => a # d /\ a <= d
        OBVIOUS
      <3>4. QED
        BY <2>2, <3>1, <3>2, <3>3
    <2>5. Named'
      <3>1. \A i \in Incarnations : i > n => pc'[i] = "unborn"
        BY <2>1, <2>2, <2>3
      <3>2. n \in 1 .. n /\ gen[m] \in 1 .. n
        <4>1. m \in Nat /\ m <= started /\ gen[m] \in 1 .. m
          BY <1>17, <2>2 DEF Wake
        <4>2. QED
          BY <2>2, <4>1
      <3>3. \A i \in Incarnations : i <= n => gen'[i] \in 1 .. i
        BY <2>1, <2>2, <3>2
      <3>4. QED
        BY <2>1, <3>1, <3>3
    <2>6. \A u \in Threads : u # m => Starting(u)' = Starting(u)
      BY <2>1
    <2>7. Reserved'
      <3>1. \A u \in Threads : u # m /\ Starting(u)' =>
               fresh'[u] = fresh[u] /\ fresh[u] <= started' /\ pc'[fresh[u]] = "unborn"
        BY <2>1, <2>2, <2>3, <2>4, <2>6
      <3>2. fresh'[m] <= started' /\ pc'[fresh'[m]] = "unborn"
        BY <2>1, <2>2
      <3>3. \A t, u \in Threads : Starting(t)' /\ Starting(u)' /\ fresh'[t] = fresh'[u] => t = u
        BY <2>1, <2>4, <2>6
      <3>4. \A u \in Threads : pc'[u] \in {"check", "bind", "spawn", "publish"} => fresh'[u] # NoGroup
        BY <2>1, <2>2
      <3>5. QED
        BY <3>1, <3>2, <3>3, <3>4
    <2>8. Inherits'
      <3> SUFFICES ASSUME NEW k \in Incarnations, pc'[k] \in Calling
                   PROVE  fresh'[k] # NoGroup /\ gen'[fresh'[k]] = gen'[k]
        OBVIOUS
      <3>1. k # n
        BY <2>1
      <3>2. CASE k = m
        BY <2>1, <2>2, <3>1, <3>2
      <3>3. CASE k # m
        <4>1. pc[k] \in Calling /\ fresh'[k] = fresh[k] /\ gen'[k] = gen[k]
          BY <2>1, <3>1, <3>3
        <4>2. fresh[k] # NoGroup /\ gen[fresh[k]] = gen[k] /\ fresh[k] \in Incarnations \ {n}
          BY <2>4, <4>1
        <4>3. gen'[fresh[k]] = gen[fresh[k]]
          BY <2>1, <4>2
        <4>4. QED
          BY <4>1, <4>2, <4>3
      <3>4. QED
        BY <3>2, <3>3
    <2>9. PublishedIsBorn'
      BY <2>1, <2>3
    <2>10. QED
      BY <2>5, <2>7, <2>8, <2>9
  <1>18. ASSUME NEW m \in Incarnations, RestartError(m) PROVE (Named /\ Reserved /\ Inherits /\ PublishedIsBorn)'
    <2>1. pc[m] = "error" /\ pc' = [pc EXCEPT ![m] = "done"] /\ UNCHANGED <<gen, started, fresh, current>>
      BY <1>18 DEF RestartError, Goto, names
    <2>2. /\ pc'[m] = "done" /\ \A i \in Incarnations : pc[i] = "unborn" => pc'[i] = "unborn"
          /\ \A u \in Threads : u # m => pc'[u] = pc[u]
          /\ \A u \in Threads : Starting(u)' => Starting(u) /\ u # m
      BY <2>1
    <2>3. Named'
      BY <2>1, <2>2
    <2>4. Reserved'
      BY <2>1, <2>2
    <2>5. Inherits' /\ PublishedIsBorn'
      BY <2>1, <2>2
    <2>6. QED
      BY <2>3, <2>4, <2>5
  <1>19. ASSUME NEW i \in Incarnations, NEW r \in Roles, Exit(i, r) PROVE (Named /\ Reserved /\ Inherits /\ PublishedIsBorn)'
    BY <1>19 DEF Exit, state, names, locals
  <1>20. QED
    BY <1>1, <1>2, <1>3, <1>4, <1>5, <1>6, <1>7, <1>8, <1>9, <1>10,
       <1>11, <1>12, <1>13, <1>14, <1>15, <1>16, <1>17, <1>18, <1>19
       DEF Next, Request, Run, Progress, Watch, Environment

\* A generation passes from one holder to the next, never to two.
LEMMA HolderInv == ASSUME Inv, TypeOK', Next PROVE OneHolder'
  <1> USE Disjoint DEF Inv, TypeOK, Named, Reserved, Inherits, PublishedIsBorn, Starting, Calling,
          Threads, NoGroup, OneHolder, Holds
  <1>1. ASSUME NEW c \in Callers, CallStop(c) PROVE OneHolder'
    BY <1>1 DEF CallStop, Goto, state, os
  <1>2. ASSUME NEW c \in Callers, CallStart(c) PROVE OneHolder'
    <2> PICK n \in Nat : n = started + 1
      BY DEF Inv, TypeOK
    <2>1. /\ n \in Incarnations /\ n # c /\ gen'[n] = n /\ pc[n] = "unborn"
          /\ \A i \in Incarnations : i # n => gen'[i] = gen[i]
          /\ \A u \in Threads : u # c => pc'[u] = pc[u] /\ fresh'[u] = fresh[u]
          /\ fresh'[c] = n
      BY <1>2 DEF CallStart, Goto, Incarnations
    <2>2. \A i \in Incarnations : i # n => i > started \/ gen[i] < n
      BY SupervisorAssumption DEF Incarnations
    <2>3. ASSUME NEW u \in Threads, u # c, NEW g, Holds(u, g)'
          PROVE  Holds(u, g) /\ g # n
      <3>1. CASE u \in Incarnations
        <4>1. u # n /\ pc[u] \notin {"unborn", "done"} /\ gen[u] = g
          BY <2>1, <2>3, <3>1
        <4>2. gen[u] < n
          BY <2>2, <3>1, <4>1
        <4>3. gen[u] \in Nat
          BY <3>1
        <4>4. QED
          BY <3>1, <4>1, <4>2, <4>3
      <3>2. CASE u \in Callers
        <4>1. Starting(u) /\ gen'[fresh[u]] = g
          BY <2>1, <2>3, <3>2
        <4>2. fresh[u] \in Incarnations /\ fresh[u] <= started
          BY <4>1
        <4>3. fresh[u] # n /\ fresh[u] \in Nat /\ ~(fresh[u] > started)
          <5>1. fresh[u] \in Nat
            BY <4>2, SupervisorAssumption DEF Incarnations
          <5>2. \A a, s \in Nat : a <= s => a # s + 1 /\ ~(a > s)
            OBVIOUS
          <5>3. started \in Nat
            BY SupervisorAssumption
          <5>4. QED
            BY <4>2, <5>1, <5>2, <5>3
        <4>4. gen[fresh[u]] = g /\ gen[fresh[u]] < n /\ gen[fresh[u]] \in Nat
          BY <2>1, <2>2, <4>1, <4>2, <4>3
        <4>5. QED
          BY <3>2, <4>1, <4>4
      <3>3. QED
        BY <3>1, <3>2
    <2>4. \A g : Holds(c, g)' => g = n
      BY <2>1
    <2>5. ASSUME NEW t \in Threads, NEW u \in Threads, NEW g \in 1 .. MaxStarts,
                 Holds(t, g)', Holds(u, g)', t # u
          PROVE  FALSE
      <3>1. CASE t # c /\ u # c
        <4> HIDE DEF Holds
        <4>1. Holds(t, g)
          BY <2>3, <2>5, <3>1
        <4>2. Holds(u, g)
          BY <2>3, <2>5, <3>1
        <4>3. QED
          BY <2>5, <4>1, <4>2
      <3>2. CASE t = c
        <4>1. Holds(u, g)' /\ u # c /\ g = n
          BY <2>4, <2>5, <3>2
        <4>2. QED
          BY <2>3, <4>1
      <3>3. CASE u = c
        <4>1. Holds(t, g)' /\ t # c /\ g = n
          BY <2>4, <2>5, <3>3
        <4>2. QED
          BY <2>3, <4>1
      <3>4. QED
        BY <3>1, <3>2, <3>3
    <2>6. QED
      BY <2>5
  <1>3. ASSUME NEW t \in Threads, Check(t) PROVE OneHolder'
    BY <1>3 DEF Check, Goto, state, os, names, Returned
  <1>4. ASSUME NEW t \in Threads, Mark(t) PROVE OneHolder'
    BY <1>4 DEF Mark, Goto, os, names
  <1>5. ASSUME NEW t \in Threads, KillWait(t) PROVE OneHolder'
    BY <1>5 DEF KillWait, Goto, state, os, names, AfterKill, Killing, Children
  <1>6. ASSUME NEW t \in Threads, KillForce(t) PROVE OneHolder'
    BY <1>6 DEF KillForce, Goto, state, names, AfterKill, Killing
  <1>7. ASSUME NEW t \in Threads, Quiet(t) PROVE OneHolder'
    BY <1>7 DEF Quiet, Goto, state, names
  <1>8. ASSUME NEW t \in Threads, Clear(t) PROVE OneHolder'
    BY <1>8 DEF Clear, Goto, os, names, Returned
  <1>9. ASSUME NEW t \in Threads, Bind(t) PROVE OneHolder'
    BY <1>9 DEF Bind, Goto, state, names
  <1>10. ASSUME NEW t \in Threads, BindFails(t) PROVE OneHolder'
    BY <1>10 DEF BindFails, Goto, state, Raise
  <1>11. ASSUME NEW t \in Threads, Spawn(t) PROVE OneHolder'
    BY <1>11 DEF Spawn, Goto, state, names
  <1>12. ASSUME NEW t \in Threads, SpawnFails(t) PROVE OneHolder'
    BY <1>12 DEF SpawnFails, Goto, state, Raise
  <1>13. ASSUME NEW t \in Threads, Publish(t) PROVE OneHolder'
    BY <1>13 DEF Publish, Goto, os, names, Returned
  <1>14. ASSUME NEW m \in Incarnations, Quit(m) PROVE OneHolder'
    BY <1>14 DEF Quit, Goto, state, os, names
  <1>15. ASSUME NEW m \in Incarnations, Detect(m) PROVE OneHolder'
    BY <1>15 DEF Detect, Goto, os, names
  <1>16. ASSUME NEW m \in Incarnations, GiveUp(m) PROVE OneHolder'
    BY <1>16 DEF GiveUp, Goto, os, names
  <1>17. ASSUME NEW m \in Incarnations, Wake(m) PROVE OneHolder'
    BY <1>17 DEF Wake, Goto, state, os
  <1>18. ASSUME NEW m \in Incarnations, RestartError(m) PROVE OneHolder'
    <2>1. \A u \in Threads, g \in 1 .. MaxStarts : Holds(u, g)' => Holds(u, g)
      BY <1>18 DEF RestartError, Goto, os, names
    <2>2. QED
      BY <2>1
  <1>19. ASSUME NEW i \in Incarnations, NEW r \in Roles, Exit(i, r) PROVE OneHolder'
    BY <1>19 DEF Exit, state, names, locals
  <1>20. QED
    BY <1>1, <1>2, <1>3, <1>4, <1>5, <1>6, <1>7, <1>8, <1>9, <1>10,
       <1>11, <1>12, <1>13, <1>14, <1>15, <1>16, <1>17, <1>18, <1>19
       DEF Next, Request, Run, Progress, Watch, Environment

\* The monitor of the published generation is the one of its incarnation, as
\* long as the supervisor wants it running.
LEMMA CurrentHolds ==
  ASSUME Inv, desired, current # NoGroup, NEW t \in Threads, Holds(t, gen[current])
  PROVE  t = current
  <1>1. current \in Incarnations /\ current \in Threads /\ pc[current] \notin {"unborn", "done"}
    BY DEF Inv, TypeOK, WatchedWhileDesired, Threads
  <1>2. Holds(current, gen[current])
    BY <1>1 DEF Holds
  <1>3. gen[current] \in 1 .. MaxStarts
    <2>1. current <= started
      BY <1>1, SupervisorAssumption DEF Inv, TypeOK, Named, Incarnations
    <2>2. QED
      BY <1>1, <2>1, SupervisorAssumption DEF Inv, TypeOK, Named, Incarnations
  <1>4. QED
    BY <1>1, <1>2, <1>3 DEF Inv, OneHolder

\* The early return of start() is never taken: the plan of a caller has a new
\* generation, and a monitor only restarts a group that lost a process.
LEMMA NotRunning ==
  ASSUME Inv, NEW t \in Threads, pc[t] = "check"
  PROVE  ~AlreadyRunning(fresh[t])
  <1> SUFFICES ASSUME AlreadyRunning(fresh[t])
               PROVE  FALSE
    OBVIOUS
  <1>1. desired /\ current # NoGroup /\ alive[current] = Roles /\ gen[current] = gen[fresh[t]]
    BY DEF AlreadyRunning, Children, Roles
  <1>2. Holds(t, gen[current])
    BY <1>1 DEF Inv, Inherits, Reserved, Holds, Starting, Calling, Threads
  <1>3. t = current
    BY <1>1, <1>2, CurrentHolds
  <1>4. t \in Incarnations
    BY <1>1, <1>3 DEF Inv, TypeOK
  <1>5. QED
    BY <1>1, <1>3, <1>4 DEF Inv, LeftIsBroken

\* A monitor leaves its own broken group only, and stays until the restart is
\* through.
LEMMA WatchInv == ASSUME Inv, TypeOK', Next PROVE (LeftIsBroken /\ WatchedWhileDesired /\ ReapsItsOwn /\ BackoffBacked)'
  <1> USE Disjoint DEF Inv, TypeOK, Named, Reserved, Inherits, PublishedIsBorn, Starting, Calling,
          Threads, NoGroup,
          LeftIsBroken, WatchedWhileDesired, ReapsItsOwn, BackoffBacked
  <1>1. ASSUME NEW c \in Callers, CallStop(c) PROVE (LeftIsBroken /\ WatchedWhileDesired /\ ReapsItsOwn /\ BackoffBacked)'
    BY <1>1 DEF CallStop, Goto, state, os
  <1>2. ASSUME NEW c \in Callers, CallStart(c) PROVE (LeftIsBroken /\ WatchedWhileDesired /\ ReapsItsOwn /\ BackoffBacked)'
    BY <1>2 DEF CallStart, Goto, state, os
  <1>3. ASSUME NEW t \in Threads, Check(t) PROVE (LeftIsBroken /\ WatchedWhileDesired /\ ReapsItsOwn /\ BackoffBacked)'
    <2>1. Goto(t, "mark")
      BY <1>3, NotRunning DEF Check
    <2>2. QED
      BY <1>3, <2>1 DEF Check, Goto, state, os, names
  <1>4. ASSUME NEW t \in Threads, Mark(t) PROVE (LeftIsBroken /\ WatchedWhileDesired /\ ReapsItsOwn /\ BackoffBacked)'
    BY <1>4 DEF Mark, Goto, os, names
  <1>5. ASSUME NEW t \in Threads, KillWait(t) PROVE (LeftIsBroken /\ WatchedWhileDesired /\ ReapsItsOwn /\ BackoffBacked)'
    BY <1>5 DEF KillWait, Goto, state, os, names, AfterKill, Killing, Children
  <1>6. ASSUME NEW t \in Threads, KillForce(t) PROVE (LeftIsBroken /\ WatchedWhileDesired /\ ReapsItsOwn /\ BackoffBacked)'
    BY <1>6 DEF KillForce, Goto, state, names, AfterKill, Killing
  <1>7. ASSUME NEW t \in Threads, Quiet(t) PROVE (LeftIsBroken /\ WatchedWhileDesired /\ ReapsItsOwn /\ BackoffBacked)'
    BY <1>7 DEF Quiet, Goto, state, names
  <1>8. ASSUME NEW t \in Threads, Clear(t) PROVE (LeftIsBroken /\ WatchedWhileDesired /\ ReapsItsOwn /\ BackoffBacked)'
    BY <1>8 DEF Clear, Goto, os, names, Returned
  <1>9. ASSUME NEW t \in Threads, Bind(t) PROVE (LeftIsBroken /\ WatchedWhileDesired /\ ReapsItsOwn /\ BackoffBacked)'
    BY <1>9 DEF Bind, Goto, state, names
  <1>10. ASSUME NEW t \in Threads, BindFails(t) PROVE (LeftIsBroken /\ WatchedWhileDesired /\ ReapsItsOwn /\ BackoffBacked)'
    BY <1>10 DEF BindFails, Goto, state, Raise
  <1>11. ASSUME NEW t \in Threads, Spawn(t) PROVE (LeftIsBroken /\ WatchedWhileDesired /\ ReapsItsOwn /\ BackoffBacked)'
    BY <1>11 DEF Spawn, Goto, state, names
  <1>12. ASSUME NEW t \in Threads, SpawnFails(t) PROVE (LeftIsBroken /\ WatchedWhileDesired /\ ReapsItsOwn /\ BackoffBacked)'
    BY <1>12 DEF SpawnFails, Goto, state, Raise
  <1>13. ASSUME NEW t \in Threads, Publish(t) PROVE (LeftIsBroken /\ WatchedWhileDesired /\ ReapsItsOwn /\ BackoffBacked)'
    BY <1>13 DEF Publish, Goto, os, names, Returned
  <1>14. ASSUME NEW m \in Incarnations, Quit(m) PROVE (LeftIsBroken /\ WatchedWhileDesired /\ ReapsItsOwn /\ BackoffBacked)'
    <2>1. /\ LeftIsBroken' /\ ReapsItsOwn' /\ BackoffBacked'
      BY <1>14 DEF Quit, Goto, state, os, names
    <2>2. desired /\ current # NoGroup => m # current
      BY <1>14 DEF Quit, Supervised
    <2>3. WatchedWhileDesired'
      BY <1>14, <2>2 DEF Quit, Goto, state, os, names
    <2>4. QED
      BY <2>1, <2>3
  <1>15. ASSUME NEW m \in Incarnations, Detect(m) PROVE (LeftIsBroken /\ WatchedWhileDesired /\ ReapsItsOwn /\ BackoffBacked)'
    <2>1. /\ current # NoGroup /\ desired /\ gen[current] = gen[m] /\ Children # Roles
          /\ pc[m] = "watch"
      BY <1>15 DEF Detect, Supervised
    <2>2. m = current
      BY <2>1, CurrentHolds DEF Holds
    <2>3. alive[m] # Roles
      BY <2>1, <2>2 DEF Children
    <2>4. /\ UNCHANGED <<desired, current, alive>>
          /\ target'[m] = m
          /\ \A u \in Threads : u # m => pc'[u] = pc[u] /\ target'[u] = target[u]
          /\ pc'[m] = "reap" \/ (pc'[m] = "reapLast" /\ backoff' = FALSE)
      <3>1. PICK kept \in 0 .. crashes :
              /\ backoff' = (kept + 1 <= RestartLimit)
              /\ Goto(m, IF kept + 1 <= RestartLimit THEN "reap" ELSE "reapLast")
        BY <1>15 DEF Detect
      <3>2. UNCHANGED <<desired, current, alive>> /\ target' = [target EXCEPT ![m] = current]
        BY <1>15 DEF Detect, os
      <3>3. pc'[m] = "reap" \/ (pc'[m] = "reapLast" /\ backoff' = FALSE)
        <4>1. CASE kept + 1 <= RestartLimit
          BY <3>1, <4>1 DEF Goto
        <4>2. CASE ~(kept + 1 <= RestartLimit)
          BY <3>1, <4>2 DEF Goto
        <4>3. QED
          BY <4>1, <4>2
      <3>4. QED
        BY <2>2, <3>1, <3>2, <3>3 DEF Goto
    <2>5. LeftIsBroken' /\ ReapsItsOwn'
      BY <2>3, <2>4
    <2>6. WatchedWhileDesired' /\ BackoffBacked'
      BY <2>2, <2>4
    <2>7. QED
      BY <2>5, <2>6
  <1>16. ASSUME NEW m \in Incarnations, GiveUp(m) PROVE (LeftIsBroken /\ WatchedWhileDesired /\ ReapsItsOwn /\ BackoffBacked)'
    BY <1>16 DEF GiveUp, Goto, os, names
  <1>17. ASSUME NEW m \in Incarnations, Wake(m) PROVE (LeftIsBroken /\ WatchedWhileDesired /\ ReapsItsOwn /\ BackoffBacked)'
    BY <1>17 DEF Wake, Goto, state, os
  <1>18. ASSUME NEW m \in Incarnations, RestartError(m) PROVE (LeftIsBroken /\ WatchedWhileDesired /\ ReapsItsOwn /\ BackoffBacked)'
    BY <1>18 DEF RestartError, Goto, os, names
  <1>19. ASSUME NEW i \in Incarnations, NEW r \in Roles, Exit(i, r) PROVE (LeftIsBroken /\ WatchedWhileDesired /\ ReapsItsOwn /\ BackoffBacked)'
    BY <1>19 DEF Exit, state, names, locals
  <1>20. QED
    BY <1>1, <1>2, <1>3, <1>4, <1>5, <1>6, <1>7, <1>8, <1>9, <1>10,
       <1>11, <1>12, <1>13, <1>14, <1>15, <1>16, <1>17, <1>18, <1>19
       DEF Next, Request, Run, Progress, Watch, Environment

LEMMA NextInv == Inv /\ [Next]_vars => Inv'
  <1> SUFFICES ASSUME Inv, [Next]_vars
               PROVE  Inv'
    OBVIOUS
  <1>1. CASE Next
    <2>1. TypeOK'
      BY <1>1, TypeInv DEF Inv
    <2>2. QED
      BY <1>1, <2>1, NamingInv, HolderInv, WatchInv DEF Inv
  <1>2. CASE UNCHANGED vars
    BY <1>2 DEF vars, state, os, names, locals, Inv, TypeOK, Named, Reserved, Inherits,
      PublishedIsBorn, OneHolder, LeftIsBroken, WatchedWhileDesired, ReapsItsOwn,
      BackoffBacked, Starting, Holds
  <1>3. QED
    BY <1>1, <1>2

THEOREM Invariance == Spec => []Inv
  BY InitInv, NextInv, PTL DEF Spec

-----------------------------------------------------------------------------
\* Every variable of the supervisor keeps its type.
THEOREM TypeCorrect == Spec => []TypeOK
  <1>1. Inv => TypeOK
    BY DEF Inv
  <1>2. QED
    BY <1>1, Invariance, PTL

\* A generation never has two monitor threads watching it, for any number of
\* host threads and restarts.
THEOREM SingleWatcher == Spec => []OneWatcher
  <1>1. Inv => OneWatcher
    <2> SUFFICES ASSUME Inv, NEW m \in Incarnations, NEW n \in Incarnations,
                        pc[m] = "watch", pc[n] = "watch", gen[m] = gen[n]
                 PROVE  m = n
      BY DEF OneWatcher
    <2>1. Holds(m, gen[m]) /\ Holds(n, gen[m])
      BY DEF Holds
    <2>2. m <= started /\ m \in Nat
      BY SupervisorAssumption DEF Inv, TypeOK, Named, Incarnations
    <2>3. gen[m] \in 1 .. MaxStarts
      BY <2>2, SupervisorAssumption DEF Inv, TypeOK, Named, Incarnations
    <2>4. QED
      BY <2>1, <2>3 DEF Inv, OneHolder, Threads
  <1>2. QED
    BY <1>1, Invariance, PTL

\* A published group that is wanted is watched: no interleaving of stops,
\* starts and restarts lets its monitor end.
THEOREM AlwaysWatched == Spec => []WatchedWhileDesired
  <1>1. Inv => WatchedWhileDesired
    BY DEF Inv
  <1>2. QED
    BY <1>1, Invariance, PTL

\* A monitor signals the group of its own incarnation only.
THEOREM OwnGroupOnly == Spec => []ReapsItsOwn
  <1>1. Inv => ReapsItsOwn
    BY DEF Inv
  <1>2. QED
    BY <1>1, Invariance, PTL

\* A pending backoff is shown only while a monitor will restart or clear it.
THEOREM BackoffEnds == Spec => []BackoffBacked
  <1>1. Inv => BackoffBacked
    BY DEF Inv
  <1>2. QED
    BY <1>1, Invariance, PTL

\* The early return of start() is dead code.
THEOREM NoEarlyReturn == Spec => []EarlyReturnUnused
  <1>1. Inv => EarlyReturnUnused
    BY NotRunning DEF EarlyReturnUnused
  <1>2. QED
    BY <1>1, Invariance, PTL
===============================================================================
