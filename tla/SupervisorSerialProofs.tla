------------------------ MODULE SupervisorSerialProofs ------------------------
(***************************************************************************)
(* If calls of the host and restarts do not overlap (SerialSpec), the      *)
(* supervisor implements ReceiverService.                                  *)
(***************************************************************************)
EXTENDS SupervisorProofs

-----------------------------------------------------------------------------
(* The inductive invariant, on top of that of every schedule.              *)

OneBusy == \A t, u \in Threads : Busy(t) /\ Busy(u) => t = u

Launched(i) == \E t \in Threads : pc[t] = "publish" /\ fresh[t] = i

\* A live group is the published one, or about to be published.
Accounted == \A i \in Live : i = current \/ Launched(i)

\* A thread kills what is published, and passes on only when that is gone.
Cleared ==
  \A t \in Threads :
    /\ pc[t] \in Killing => target[t] = current /\ current # NoGroup
    /\ pc[t] \in {"quiet", "clear", "backoff", "giveup"} => current \notin Live
    /\ pc[t] \in {"bind", "spawn", "publish"} => current = NoGroup

\* What is published, restarted or being started is what the host wants.
Intended ==
  /\ HostIdle /\ current # NoGroup => intent = gen[current]
  /\ \A m \in Incarnations : Busy(m) => intent = gen[m]
  /\ \A c \in Callers :
       Busy(c) => intent = IF fresh[c] = NoGroup THEN 0 ELSE gen[fresh[c]]

\* A thread of the host is in the host, in start() or in stop().
CallersCall == \A c \in Callers : pc[c] \in Calling \cup {"idle"}

Groups == OneBusy /\ CallersCall /\ Accounted /\ Cleared

SerialInv == Inv /\ Groups /\ Intended

LEMMA SerialStep == SerialNext => Next
  BY DEF SerialNext, SerialRun, Next

LEMMA InitSerialInv == Init => SerialInv
  <1> SUFFICES ASSUME Init PROVE SerialInv
    OBVIOUS
  <1>1. Inv
    BY InitInv
  <1>2. Groups /\ Intended
    BY Disjoint DEF Init, Groups, OneBusy, CallersCall, Accounted, Cleared, Intended, Busy, Resting, Live,
      Killing, Threads, HostIdle
  <1>3. QED
    BY <1>1, <1>2 DEF SerialInv

\* One thread at a time acts, and it launches only what nothing else is beside.
LEMMA GroupsInv == ASSUME SerialInv, Inv', SerialNext PROVE Groups'
  <1> USE Disjoint DEF SerialInv, Inv, TypeOK, Threads, Alone, Busy, Resting, Killing, NoGroup, Groups,
          OneBusy, CallersCall, Calling, Accounted, Launched, Cleared, Live
  <1>1. ASSUME NEW c \in Callers, Alone(c), CallStop(c) PROVE Groups'
    BY <1>1 DEF CallStop, Goto, state, os
  <1>2. ASSUME NEW c \in Callers, Alone(c), CallStart(c) PROVE Groups'
    BY <1>2 DEF CallStart, Goto, state, os
  <1>3. ASSUME NEW t \in Threads, Alone(t), Check(t) PROVE Groups'
    BY <1>3 DEF Check, Goto, state, os, names, Returned
  <1>4. ASSUME NEW t \in Threads, Alone(t), Mark(t) PROVE Groups'
    <2>1. OneBusy' /\ CallersCall' /\ Accounted'
      BY <1>4 DEF Mark, Goto, os, names
    <2>2. /\ current' = current /\ target'[t] = current /\ Live' = Live
          /\ pc'[t] = IF current = NoGroup THEN "clear" ELSE "kill"
          /\ \A u \in Threads : u # t => pc'[u] = pc[u] /\ target'[u] = target[u]
      BY <1>4 DEF Mark, Goto, os
    <2>3. NoGroup \notin Live
      BY SupervisorAssumption DEF Incarnations
    <2>4. Cleared'
      BY <2>2, <2>3
    <2>5. QED
      BY <2>1, <2>4
  <1>5. ASSUME NEW t \in Threads, Alone(t), KillWait(t) PROVE Groups'
    BY <1>5 DEF KillWait, Goto, state, os, names, AfterKill, Children
  <1>6. ASSUME NEW t \in Threads, Alone(t), KillForce(t) PROVE Groups'
    BY <1>6 DEF KillForce, Goto, state, names, AfterKill
  <1>7. ASSUME NEW t \in Threads, Alone(t), Quiet(t) PROVE Groups'
    BY <1>7 DEF Quiet, Goto, state, names
  <1>8. ASSUME NEW t \in Threads, Alone(t), Clear(t) PROVE Groups'
    BY <1>8 DEF Clear, Goto, os, names, Returned
  <1>9. ASSUME NEW t \in Threads, Alone(t), Bind(t) PROVE Groups'
    BY <1>9 DEF Bind, Goto, state, names
  <1>10. ASSUME NEW t \in Threads, Alone(t), BindFails(t) PROVE Groups'
    BY <1>10 DEF BindFails, Goto, state, Raise
  <1>11. ASSUME NEW t \in Threads, Alone(t), Spawn(t) PROVE Groups'
    BY <1>11 DEF Spawn, Goto, state, names
  <1>12. ASSUME NEW t \in Threads, Alone(t), SpawnFails(t) PROVE Groups'
    BY <1>12 DEF SpawnFails, Goto, state, Raise
  <1>13. ASSUME NEW t \in Threads, Alone(t), Publish(t) PROVE Groups'
    <2>1. /\ fresh[t] \in Incarnations /\ fresh[t] # t /\ pc[t] = "publish"
      BY <1>13 DEF Publish, Reserved, Starting, Calling
    <2>2. /\ pc'[fresh[t]] = "watch" /\ pc'[t] \in {"idle", "done"} /\ current' = fresh[t]
          /\ \A u \in Threads : u # t /\ u # fresh[t] => pc'[u] = pc[u]
          /\ UNCHANGED <<alive, doomed, fresh, target>>
      BY <1>13, <2>1 DEF Publish, os, Returned
    <2>3. \A u \in Threads : ~Busy(u)'
      BY <1>13, <2>2
    <2>c. CallersCall'
      <3>1. t \in Callers => pc'[t] = "idle"
        BY <1>13, <2>1 DEF Publish, Returned
      <3>2. \A c \in Callers : c # t => pc'[c] = pc[c]
        BY <2>1, <2>2
      <3>3. QED
        BY <3>1, <3>2
    <2>4. OneBusy' /\ CallersCall' /\ Cleared'
      BY <2>3, <2>c
    <2>5. \A i \in Live : i = fresh[t]
      <3>1. NoGroup \notin Live /\ current = NoGroup
        BY <2>1, SupervisorAssumption DEF Incarnations
      <3>2. \A u \in Threads : pc[u] = "publish" => u = t
        BY <2>1
      <3>3. QED
        BY <3>1, <3>2
    <2>6. Accounted'
      BY <2>2, <2>5
    <2>7. QED
      BY <2>4, <2>6
  <1>14. ASSUME NEW m \in Incarnations, Alone(m), Quit(m) PROVE Groups'
    BY <1>14 DEF Quit, Goto, state, os, names
  <1>15. ASSUME NEW m \in Incarnations, Alone(m), Detect(m) PROVE Groups'
    <2>1. PICK kept \in 0 .. crashes :
            Goto(m, IF kept + 1 <= RestartLimit THEN "reap" ELSE "reapLast")
      BY <1>15 DEF Detect
    <2>2. /\ pc'[m] \in {"reap", "reapLast"} /\ target'[m] = current
          /\ \A u \in Threads : u # m => pc'[u] = pc[u] /\ target'[u] = target[u]
          /\ UNCHANGED <<current, alive, doomed, fresh>> /\ current # NoGroup
      BY <1>15, <2>1 DEF Detect, Goto, os, Supervised
    <2>3. Accounted'
      BY <1>15, <2>2 DEF Detect
    <2>4. QED
      BY <1>15, <2>2, <2>3
  <1>16. ASSUME NEW m \in Incarnations, Alone(m), GiveUp(m) PROVE Groups'
    BY <1>16 DEF GiveUp, Goto, os, names
  <1>17. ASSUME NEW m \in Incarnations, Alone(m), Wake(m) PROVE Groups'
    BY <1>17 DEF Wake, Goto, state, os
  <1>18. ASSUME NEW m \in Incarnations, Alone(m), RestartError(m) PROVE Groups'
    BY <1>18 DEF RestartError, Goto, os, names
  <1>19. ASSUME NEW i \in Incarnations, NEW r \in Roles, Exit(i, r) PROVE Groups'
    BY <1>19 DEF Exit, state, names, locals
  <1>20. QED
    BY <1>1, <1>2, <1>3, <1>4, <1>5, <1>6, <1>7, <1>8, <1>9, <1>10,
       <1>11, <1>12, <1>13, <1>14, <1>15, <1>16, <1>17, <1>18, <1>19
       DEF SerialNext, SerialRun, Request, Run, Progress, Watch, Environment

\* What a thread starts is the generation of the latest request.
LEMMA IntendedInv == ASSUME SerialInv, Inv', SerialNext PROVE Intended'
  <1> USE Disjoint DEF SerialInv, Inv, TypeOK, Threads, Alone, Busy, Resting, Killing, NoGroup, Groups,
          OneBusy, CallersCall, Cleared, Intended, HostIdle, Inherits, Named, Reserved, Starting,
          PublishedIsBorn, Calling
  <1>1. ASSUME NEW c \in Callers, Alone(c), CallStop(c) PROVE Intended'
    BY <1>1 DEF CallStop, Goto, state, os
  <1>2. ASSUME NEW c \in Callers, Alone(c), CallStart(c) PROVE Intended'
    BY <1>2 DEF CallStart, Goto, state, os
  <1>3. ASSUME NEW t \in Threads, Alone(t), Check(t) PROVE Intended'
    <2>1. Goto(t, "mark")
      BY <1>3, NotRunning DEF Check
    <2>2. QED
      BY <1>3, <2>1 DEF Check, Goto, state, os, names
  <1>4. ASSUME NEW t \in Threads, Alone(t), Mark(t) PROVE Intended'
    BY <1>4 DEF Mark, Goto, os, names
  <1>5. ASSUME NEW t \in Threads, Alone(t), KillWait(t) PROVE Intended'
    BY <1>5 DEF KillWait, Goto, state, os, names, AfterKill, Children
  <1>6. ASSUME NEW t \in Threads, Alone(t), KillForce(t) PROVE Intended'
    BY <1>6 DEF KillForce, Goto, state, names, AfterKill
  <1>7. ASSUME NEW t \in Threads, Alone(t), Quiet(t) PROVE Intended'
    BY <1>7 DEF Quiet, Goto, state, names
  <1>8. ASSUME NEW t \in Threads, Alone(t), Clear(t) PROVE Intended'
    BY <1>8 DEF Clear, Goto, os, names, Returned
  <1>9. ASSUME NEW t \in Threads, Alone(t), Bind(t) PROVE Intended'
    BY <1>9 DEF Bind, Goto, state, names
  <1>10. ASSUME NEW t \in Threads, Alone(t), BindFails(t) PROVE Intended'
    BY <1>10 DEF BindFails, Goto, state, Raise
  <1>11. ASSUME NEW t \in Threads, Alone(t), Spawn(t) PROVE Intended'
    BY <1>11 DEF Spawn, Goto, state, names
  <1>12. ASSUME NEW t \in Threads, Alone(t), SpawnFails(t) PROVE Intended'
    BY <1>12 DEF SpawnFails, Goto, state, Raise
  <1>13. ASSUME NEW t \in Threads, Alone(t), Publish(t) PROVE Intended'
    BY <1>13 DEF Publish, Goto, os, names, Returned
  <1>14. ASSUME NEW m \in Incarnations, Alone(m), Quit(m) PROVE Intended'
    BY <1>14 DEF Quit, Goto, state, os, names
  <1>15. ASSUME NEW m \in Incarnations, Alone(m), Detect(m) PROVE Intended'
    <2>1. m = current
      BY <1>15, CurrentHolds DEF Detect, Supervised, Holds
    <2>2. HostIdle
      BY <1>15 DEF Detect
    <2>3. intent = gen[m] /\ current # NoGroup
      BY <2>1, <2>2, <1>15 DEF Detect, Supervised
    <2>4. /\ \A u \in Threads : u # m => pc'[u] = pc[u]
          /\ UNCHANGED <<current, fresh, gen, intent>>
      <3>1. \A stage : Goto(m, stage) => \A u \in Threads : u # m => pc'[u] = pc[u]
        BY DEF Goto
      <3>2. QED
        BY <1>15, <3>1 DEF Detect, names
    <2>5. QED
      BY <2>1, <2>2, <2>3, <2>4
  <1>16. ASSUME NEW m \in Incarnations, Alone(m), GiveUp(m) PROVE Intended'
    BY <1>16 DEF GiveUp, Goto, os, names
  <1>17. ASSUME NEW m \in Incarnations, Alone(m), Wake(m) PROVE Intended'
    BY <1>17 DEF Wake, Goto, state, os
  <1>18. ASSUME NEW m \in Incarnations, Alone(m), RestartError(m) PROVE Intended'
    BY <1>18 DEF RestartError, Goto, os, names
  <1>19. ASSUME NEW i \in Incarnations, NEW r \in Roles, Exit(i, r) PROVE Intended'
    BY <1>19 DEF Exit, state, names, locals
  <1>20. QED
    BY <1>1, <1>2, <1>3, <1>4, <1>5, <1>6, <1>7, <1>8, <1>9, <1>10,
       <1>11, <1>12, <1>13, <1>14, <1>15, <1>16, <1>17, <1>18, <1>19
       DEF SerialNext, SerialRun, Request, Run, Progress, Watch, Environment

LEMMA SerialNextInv == SerialInv /\ [SerialNext]_vars => SerialInv'
  <1> SUFFICES ASSUME SerialInv, [SerialNext]_vars
               PROVE  SerialInv'
    OBVIOUS
  <1>1. Inv'
    BY SerialStep, NextInv DEF SerialInv
  <1>2. CASE SerialNext
    BY <1>1, <1>2, GroupsInv, IntendedInv DEF SerialInv
  <1>3. CASE UNCHANGED vars
    BY <1>1, <1>3 DEF vars, state, os, names, locals, SerialInv, Groups, OneBusy, Accounted,
      CallersCall, Launched, Cleared, Intended, Busy, Live, HostIdle
  <1>4. QED
    BY <1>2, <1>3

THEOREM SerialInvariance == SerialSpec => []SerialInv
  BY InitSerialInv, SerialNextInv, PTL DEF SerialSpec

-----------------------------------------------------------------------------
LEMMA AtMostOneGroup == SerialInv => OneGroup
  <1> SUFFICES ASSUME SerialInv, NEW i \in Live, NEW j \in Live
               PROVE  i = j
    BY DEF OneGroup
  <1>1. NoGroup \notin Live
    BY SupervisorAssumption DEF Live, Incarnations, NoGroup
  <1>2. \A t \in Threads : pc[t] = "publish" => current = NoGroup
    BY DEF SerialInv, Groups, Cleared
  <1>3. \A t, u \in Threads : pc[t] = "publish" /\ pc[u] = "publish" => t = u
    BY DEF SerialInv, Groups, OneBusy, Busy, Resting
  <1>4. /\ i = current \/ Launched(i)
        /\ j = current \/ Launched(j)
    BY DEF SerialInv, Groups, Accounted
  <1>5. QED
    BY <1>1, <1>2, <1>3, <1>4 DEF Launched

\* At most one process group of the instance is alive, for any number of
\* launches, if calls and restarts do not overlap.
THEOREM SingleGroup == SerialSpec => []OneGroup
  BY AtMostOneGroup, SerialInvariance, PTL

\* A generation in use is never 0, the mark of a stopped instance.
LEMMA GenerationsPositive ==
  ASSUME Inv, NEW i \in Incarnations, pc[i] # "unborn"
  PROVE  gen[i] # 0
  BY SupervisorAssumption DEF Inv, TypeOK, Named, Incarnations

\* Once stop() returned nothing runs until the next start(), if calls and
\* restarts do not overlap.
THEOREM FinalStop == SerialSpec => []StopIsFinal
  <1>1. SerialInv => StopIsFinal
    <2> SUFFICES ASSUME SerialInv, HostIdle, intent = 0, NEW i \in Live
                 PROVE  FALSE
      BY DEF StopIsFinal
    <2>1. CASE i = current
      <3>1. intent = gen[current] /\ current \in Incarnations /\ pc[current] # "unborn"
        BY <2>1, SupervisorAssumption
           DEF SerialInv, Intended, Inv, PublishedIsBorn, Live, Incarnations, NoGroup
      <3>2. QED
        BY <3>1, GenerationsPositive DEF SerialInv
    <2>2. CASE Launched(i)
      <3>1. PICK t \in Threads : pc[t] = "publish"
        BY <2>2 DEF Launched
      <3>2. t \in Incarnations
        BY <3>1 DEF Threads, HostIdle
      <3>3. intent = gen[t]
        BY <3>1, <3>2 DEF SerialInv, Intended, Busy, Resting
      <3>4. QED
        BY <3>1, <3>2, <3>3, GenerationsPositive DEF SerialInv
    <2>3. QED
      BY <2>1, <2>2 DEF SerialInv, Groups, Accounted
  <1>2. QED
    BY <1>1, SerialInvariance, PTL

\* The published group is of the generation asked for last, if calls and
\* restarts do not overlap.
THEOREM NewestWins == SerialSpec => []NewestGenerationWins
  <1>1. SerialInv => NewestGenerationWins
    BY DEF SerialInv, Intended, NewestGenerationWins
  <1>2. QED
    BY <1>1, SerialInvariance, PTL

-----------------------------------------------------------------------------
(* What runs is wanted.                                                    *)

\* A group that is published and not wanted is being killed.
UnwantedIsKilled ==
  current \in Live /\ ~desired => \E t \in Threads : pc[t] \in Killing

\* The failed restart published nothing.
ErrorIsEmpty == \A t \in Threads : pc[t] = "error" => current = NoGroup

WantedInv == SerialInv /\ UnwantedIsKilled /\ ErrorIsEmpty

LEMMA InitWantedInv == Init => WantedInv
  BY InitSerialInv DEF Init, WantedInv, UnwantedIsKilled, ErrorIsEmpty, Live

LEMMA WantedStep == ASSUME WantedInv, SerialInv', SerialNext PROVE UnwantedIsKilled' /\ ErrorIsEmpty'
  <1> DEFINE Goal == UnwantedIsKilled' /\ ErrorIsEmpty'
  <1>t. /\ pc \in [Threads -> Stages] /\ Callers \cap Incarnations = {}
        /\ Incarnations \subseteq Threads /\ Callers \subseteq Threads
    BY Disjoint DEF WantedInv, SerialInv, Inv, TypeOK, Threads
  <1>c. Cleared /\ OneBusy
    BY DEF WantedInv, SerialInv, Groups
  <1>g. NoGroup \notin Live
    BY SupervisorAssumption DEF Live, Incarnations, NoGroup
  <1>h. NoGroup \notin Live'
    BY SupervisorAssumption DEF Live, Incarnations, NoGroup
  <1> USE <1>t, <1>c DEF WantedInv, UnwantedIsKilled, ErrorIsEmpty, Goto, Killing
  \* A thread that is not killing moves on and leaves the groups alone.
  <1>q. ASSUME NEW t \in Threads, NEW stage, stage # "error", pc[t] \notin Killing, Goto(t, stage),
               UNCHANGED <<desired, current, alive, doomed>>
        PROVE  Goal
    <2>1. Live' = Live
      BY <1>q DEF Live
    <2>2. QED
      BY <1>q, <2>1
  \* A thread that moves on while the published group is gone.
  <1>e. ASSUME NEW t \in Threads, NEW stage, stage # "error", Goto(t, stage),
               current' \notin Live', current' \in {current, NoGroup}
        PROVE  Goal
    BY <1>e
  <1>1. ASSUME NEW c \in Callers, Request(c) PROVE Goal
    BY <1>1, <1>q DEF Request, CallStop, CallStart, state, os
  <1>2. ASSUME NEW t \in Threads, Check(t) PROVE Goal
    BY <1>2, <1>q DEF Check, Returned, state, os
  <1>3. ASSUME NEW t \in Threads, Mark(t) PROVE Goal
    <2>1. ErrorIsEmpty'
      BY <1>3 DEF Mark
    <2>2. current' = current /\ Live' = Live /\ (current # NoGroup => pc'[t] = "kill")
      BY <1>3 DEF Mark, os, Live
    <2>3. QED
      BY <1>g, <2>1, <2>2
  <1>4. ASSUME NEW t \in Threads, KillWait(t) PROVE Goal
    <2>1. current' = current /\ Live' = Live /\ current \notin Live
      BY <1>4 DEF KillWait, Children, state, os, Live, Cleared, WantedInv, SerialInv, Groups
    <2>2. QED
      BY <1>4, <1>e, <2>1 DEF KillWait, AfterKill
  <1>5. ASSUME NEW t \in Threads, KillForce(t) PROVE Goal
    <2>1. current' = current /\ current \notin Live'
      BY <1>5 DEF KillForce, state, Live, Cleared
    <2>2. QED
      BY <1>5, <1>e, <2>1 DEF KillForce, AfterKill
  <1>6. ASSUME NEW t \in Threads, Quiet(t) PROVE Goal
    BY <1>6, <1>q DEF Quiet, state
  <1>7. ASSUME NEW t \in Threads, Clear(t) PROVE Goal
    BY <1>7, <1>e, <1>h DEF Clear, Returned
  <1>8. ASSUME NEW t \in Threads, Bind(t) PROVE Goal
    BY <1>8, <1>q DEF Bind, state
  <1>9. ASSUME NEW t \in Threads, BindFails(t) \/ Spawn(t) \/ SpawnFails(t) PROVE Goal
    <2>1. current = NoGroup /\ current' = current
      BY <1>9 DEF BindFails, Spawn, SpawnFails, Cleared, state
    <2>2. QED
      BY <1>h, <2>1
  <1>10. ASSUME NEW t \in Threads, Publish(t) PROVE Goal
    <2>1. desired'
      BY <1>10 DEF Publish
    <2>2. \A u \in Threads : pc[u] # "error"
      BY <1>10 DEF Publish, OneBusy, Busy, Resting
    <2>3. \A u \in Threads : pc'[u] # "error"
      BY <1>10, <2>2 DEF Publish, Returned
    <2>4. QED
      BY <2>1, <2>3
  <1>11. ASSUME NEW m \in Incarnations, Quit(m) PROVE Goal
    BY <1>11, <1>q DEF Quit, state, os
  <1>12. ASSUME NEW m \in Incarnations, Detect(m) PROVE Goal
    <2>1. PICK kept \in 0 .. crashes :
            Goto(m, IF kept + 1 <= RestartLimit THEN "reap" ELSE "reapLast")
      BY <1>12 DEF Detect
    <2>2. \E stage \in {"reap", "reapLast"} : Goto(m, stage)
      BY <2>1 DEF Goto
    <2>3. pc[m] \notin Killing /\ UNCHANGED <<desired, current, alive, doomed>>
      BY <1>12 DEF Detect, os
    <2>4. QED
      BY <1>q, <2>2, <2>3
  <1>13. ASSUME NEW m \in Incarnations, GiveUp(m) PROVE Goal
    <2>1. current' = current /\ Live' = Live /\ current \notin Live
      BY <1>13 DEF GiveUp, os, Live, Cleared
    <2>2. QED
      BY <1>13, <1>e, <2>1 DEF GiveUp
  <1>14. ASSUME NEW m \in Incarnations, Wake(m) PROVE Goal
    BY <1>14, <1>q DEF Wake, state, os
  <1>15. ASSUME NEW m \in Incarnations, RestartError(m) PROVE Goal
    <2>1. current = NoGroup /\ current' = current
      BY <1>15 DEF RestartError
    <2>2. QED
      BY <1>15, <1>e, <1>h, <2>1 DEF RestartError
  <1>16. ASSUME NEW i \in Incarnations, NEW r \in Roles, Exit(i, r) PROVE Goal
    <2>1. Live' \subseteq Live /\ UNCHANGED <<current, desired, pc>>
      BY <1>16 DEF Exit, Live, state, locals, SerialInv, Inv, TypeOK
    <2>2. QED
      BY <2>1
  <1>17. QED
    BY <1>1, <1>2, <1>3, <1>4, <1>5, <1>6, <1>7, <1>8, <1>9, <1>10,
       <1>11, <1>12, <1>13, <1>14, <1>15, <1>16
       DEF SerialNext, SerialRun, Run, Progress, Watch, Environment

LEMMA WantedNextInv == WantedInv /\ [SerialNext]_vars => WantedInv'
  <1> SUFFICES ASSUME WantedInv, [SerialNext]_vars PROVE WantedInv'
    OBVIOUS
  <1>1. SerialInv'
    BY SerialNextInv DEF WantedInv
  <1>2. CASE SerialNext
    BY <1>1, <1>2, WantedStep DEF WantedInv
  <1>3. CASE UNCHANGED vars
    BY <1>1, <1>3 DEF vars, state, os, locals, WantedInv, UnwantedIsKilled, ErrorIsEmpty, Live
  <1>4. QED
    BY <1>2, <1>3

\* Whatever runs is wanted once calls and restarts are over, if they do not overlap:
\* nobody clears the flag of a group that another thread has published.
THEOREM WantedRuns == SerialSpec => []RunningIsWanted
  <1>1. WantedInv => RunningIsWanted
    <2> SUFFICES ASSUME WantedInv, Quiescent, NEW i \in Live PROVE desired
      BY DEF RunningIsWanted
    <2>1. ~Launched(i)
      BY DEF Quiescent, Busy, Resting, Launched
    <2>2. i = current
      BY <2>1 DEF WantedInv, SerialInv, Groups, Accounted
    <2>3. \A t \in Threads : pc[t] \notin Killing
      BY DEF Quiescent, Busy, Resting, Killing
    <2>4. QED
      BY <2>2, <2>3 DEF WantedInv, UnwantedIsKilled
  <1>2. WantedInv /\ [SerialNext]_vars => WantedInv'
    BY WantedNextInv
  <1>3. QED
    BY <1>1, <1>2, InitWantedInv, PTL DEF SerialSpec

-----------------------------------------------------------------------------
(* What is shown, and who hears the events.                                *)

\* The socket and the receiver thread are those of the published group.
Wired == IF current = NoGroup THEN open = {} ELSE path = current /\ open = {current}

\* Only a thread that replaces the receiver finds it otherwise.
Receivers ==
  /\ (\A t \in Threads : pc[t] \notin {"clear", "bind", "spawn", "publish"}) => Wired
  /\ \A t \in Threads :
       /\ pc[t] = "quiet" => target[t] = current /\ current # NoGroup
       /\ pc[t] \in {"clear", "bind"} => open = {}
       /\ pc[t] \in {"spawn", "publish"} => open = {fresh[t]} /\ path = fresh[t]

\* A published group that is not wanted any more lost a process and is not taken for
\* stopped, and so does one that is being reaped.
Reported ==
  /\ current # NoGroup /\ (\A t \in Threads : pc[t] \notin {"kill", "quiet", "clear"})
       => ~explicitlyStopped /\ (desired \/ (lastError # "none" /\ Children # Roles))
  /\ \A t \in Threads : pc[t] \in {"reap", "reapLast", "giveup"} => lastError # "none" /\ Children # Roles

ShownInv == WantedInv /\ Receivers /\ Reported

LEMMA InitShownInv == Init => ShownInv
  BY InitWantedInv DEF Init, ShownInv, Receivers, Wired, Reported, Children

\* One thread at a time replaces the receiver.
LEMMA ReceiversStep == ASSUME ShownInv, SerialNext PROVE Receivers'
  <1>t. /\ pc \in [Threads -> Stages] /\ target \in [Threads -> Incarnations \cup {NoGroup}]
        /\ fresh \in [Threads -> Incarnations \cup {NoGroup}]
        /\ Callers \cap Incarnations = {} /\ Incarnations \subseteq Threads /\ Callers \subseteq Threads
    BY Disjoint DEF ShownInv, WantedInv, SerialInv, Inv, TypeOK, Threads
  <1>c. Cleared
    BY DEF ShownInv, WantedInv, SerialInv, Groups
  <1>r. Receivers /\ ErrorIsEmpty
    BY DEF ShownInv, WantedInv
  <1>z. \A t \in Threads : pc[t] = "spawn" \/ pc[t] = "publish" => fresh[t] \in Incarnations
    BY DEF ShownInv, WantedInv, SerialInv, Inv, TypeOK, Reserved, NoGroup, Starting, Calling
  <1>n. NoGroup \notin Incarnations
    BY SupervisorAssumption DEF Incarnations, NoGroup
  <1> USE <1>t, <1>r DEF Receivers, Wired, Goto, Busy, Resting, Alone
  \* A thread that leaves the receiver alone.
  <1>q. ASSUME NEW t \in Threads, NEW stage \in {"idle", "done", "mark", "check", "reap", "reapLast", "backoff",
                                                 "giveup", "error"},
               Goto(t, stage), pc[t] \notin {"clear", "bind", "spawn", "publish"}, UNCHANGED <<current, open, path>>,
               \A u \in Threads : u # t => fresh'[u] = fresh[u] /\ target'[u] = target[u],
               \A u \in Threads : u # t => ~Busy(u)
        PROVE  Receivers'
    BY <1>q
  <1>1. ASSUME NEW c \in Callers, Alone(c), Request(c) PROVE Receivers'
    BY <1>1, <1>q DEF Request, CallStop, CallStart, state, os
  <1>2. ASSUME NEW t \in Threads, Alone(t), Check(t) PROVE Receivers'
    BY <1>2, <1>q DEF Check, Returned, state, os
  <1>3. ASSUME NEW t \in Threads, Alone(t), Mark(t) PROVE Receivers'
    BY <1>3 DEF Mark, os
  <1>4. ASSUME NEW t \in Threads, Alone(t), KillWait(t) \/ KillForce(t) PROVE Receivers'
    BY <1>4, <1>c DEF KillWait, KillForce, AfterKill, Killing, Cleared, state, os
  <1>5. ASSUME NEW t \in Threads, Alone(t), Quiet(t) PROVE Receivers'
    BY <1>5 DEF Quiet, state
  <1>6. ASSUME NEW t \in Threads, Alone(t), Clear(t) PROVE Receivers'
    BY <1>6 DEF Clear, Returned, os
  <1>7. ASSUME NEW t \in Threads, Alone(t), Bind(t) PROVE Receivers'
    BY <1>7 DEF Bind, state
  <1>8. ASSUME NEW t \in Threads, Alone(t), BindFails(t) PROVE Receivers'
    BY <1>8, <1>c DEF BindFails, Raise, Cleared, state
  <1>9. ASSUME NEW t \in Threads, Alone(t), Spawn(t) PROVE Receivers'
    BY <1>9 DEF Spawn, state
  <1>10. ASSUME NEW t \in Threads, Alone(t), SpawnFails(t) PROVE Receivers'
    BY <1>10, <1>c DEF SpawnFails, Raise, Cleared, state
  <1>11. ASSUME NEW t \in Threads, Alone(t), Publish(t) PROVE Receivers'
    BY <1>11, <1>z, <1>n DEF Publish, Returned, os
  <1>12. ASSUME NEW m \in Incarnations, Alone(m), Quit(m) \/ GiveUp(m) \/ RestartError(m) PROVE Receivers'
    BY <1>12, <1>q DEF Quit, GiveUp, RestartError, state, os
  <1>13. ASSUME NEW m \in Incarnations, Alone(m), Detect(m) PROVE Receivers'
    <2>1. \E stage \in {"reap", "reapLast"} : Goto(m, stage)
      BY <1>13 DEF Detect
    <2>2. QED
      BY <1>13, <1>q, <2>1 DEF Detect, os
  <1>14. ASSUME NEW m \in Incarnations, Alone(m), Wake(m) PROVE Receivers'
    BY <1>14, <1>q DEF Wake, state, os
  <1>15. ASSUME NEW i \in Incarnations, NEW r \in Roles, Exit(i, r) PROVE Receivers'
    BY <1>15 DEF Exit, state, locals
  <1>16. QED
    BY <1>1, <1>2, <1>3, <1>4, <1>5, <1>6, <1>7, <1>8, <1>9, <1>10, <1>11, <1>12, <1>13, <1>14, <1>15
       DEF SerialNext, SerialRun, Run, Progress, Watch, Environment

\* A flag is cleared with the group it is about, and a process that exited does not
\* come back.
LEMMA ReportedStep == ASSUME ShownInv, SerialNext PROVE Reported'
  <1>t. /\ pc \in [Threads -> Stages] /\ alive \in [Incarnations -> SUBSET Roles]
        /\ current \in Incarnations \cup {NoGroup}
        /\ Callers \cap Incarnations = {} /\ Incarnations \subseteq Threads /\ Callers \subseteq Threads
    BY Disjoint DEF ShownInv, WantedInv, SerialInv, Inv, TypeOK, Threads
  <1>c. Cleared
    BY DEF ShownInv, WantedInv, SerialInv, Groups
  <1>r. Reported /\ ErrorIsEmpty
    BY DEF ShownInv, WantedInv
  <1> USE <1>t, <1>r DEF Reported, Goto, Busy, Resting, Alone, Children
  \* A thread that passes on and leaves what is published alone.
  <1>q. ASSUME NEW t \in Threads, NEW stage \in Stages \ {"reap", "reapLast", "giveup"},
               Goto(t, stage), pc[t] \notin {"kill", "quiet", "clear"},
               UNCHANGED <<desired, explicitlyStopped, current, lastError, alive>>
        PROVE  Reported'
    BY <1>q
  <1>1. ASSUME NEW c \in Callers, Alone(c), Request(c) PROVE Reported'
    BY <1>1, <1>q DEF Request, CallStop, CallStart, state, os, Stages, Calling
  <1>2. ASSUME NEW t \in Threads, Alone(t), Check(t) PROVE Reported'
    BY <1>2, <1>q DEF Check, Returned, state, os, Stages, Calling
  <1>3. ASSUME NEW t \in Threads, Alone(t), Mark(t) PROVE Reported'
    BY <1>3 DEF Mark, os
  <1>4. ASSUME NEW t \in Threads, Alone(t), KillWait(t) \/ KillForce(t) PROVE Reported'
    BY <1>4, <1>c DEF KillWait, KillForce, AfterKill, Killing, Cleared, state, os
  <1>5. ASSUME NEW t \in Threads, Alone(t), Quiet(t) PROVE Reported'
    BY <1>5 DEF Quiet, state
  <1>6. ASSUME NEW t \in Threads, Alone(t), Clear(t) PROVE Reported'
    BY <1>6 DEF Clear, Returned, os
  <1>7. ASSUME NEW t \in Threads, Alone(t), Bind(t) \/ BindFails(t) \/ Spawn(t) \/ SpawnFails(t) PROVE Reported'
    <2>1. current = NoGroup /\ current' = current
      BY <1>7, <1>c DEF Bind, BindFails, Spawn, SpawnFails, Cleared, state
    <2>2. \A u \in Threads : pc'[u] \notin {"reap", "reapLast", "giveup"}
      BY <1>7 DEF Bind, BindFails, Spawn, SpawnFails, Raise
    <2>3. QED
      BY <2>1, <2>2
  <1>8. ASSUME NEW t \in Threads, Alone(t), Publish(t) PROVE Reported'
    BY <1>8 DEF Publish, Returned, os
  <1>9. ASSUME NEW m \in Incarnations, Alone(m), Quit(m) PROVE Reported'
    BY <1>9, <1>q DEF Quit, state, os, Stages, Resting
  <1>10. ASSUME NEW m \in Incarnations, Alone(m), Detect(m) PROVE Reported'
    <2>1. \E stage \in {"reap", "reapLast"} : Goto(m, stage)
      BY <1>10 DEF Detect
    <2>2. /\ current # NoGroup /\ desired /\ Children # Roles /\ lastError' = "exited"
          /\ UNCHANGED <<desired, explicitlyStopped, current, alive>>
      BY <1>10 DEF Detect, Supervised, os
    <2>3. Children' # Roles /\ lastError' # "none" /\ (current' # NoGroup => ~explicitlyStopped')
      <3>1. \A t \in Threads : pc[t] \notin {"kill", "quiet", "clear"}
        BY <1>10 DEF Detect
      <3>2. QED
        BY <2>2, <3>1
    <2>4. QED
      BY <2>3
  <1>11. ASSUME NEW m \in Incarnations, Alone(m), GiveUp(m) PROVE Reported'
    BY <1>11 DEF GiveUp, os
  <1>12. ASSUME NEW m \in Incarnations, Alone(m), Wake(m) PROVE Reported'
    BY <1>12, <1>q DEF Wake, state, os, Stages, Calling
  <1>13. ASSUME NEW m \in Incarnations, Alone(m), RestartError(m) PROVE Reported'
    BY <1>13 DEF RestartError, ErrorIsEmpty
  <1>14. ASSUME NEW i \in Incarnations, NEW r \in Roles, Exit(i, r) PROVE Reported'
    <2>1. UNCHANGED <<desired, explicitlyStopped, current, lastError, pc>>
      BY <1>14 DEF Exit, state, locals
    <2>2. Children # Roles => Children' # Roles
      BY <1>14, <2>1 DEF Exit
    <2>3. QED
      BY <2>1, <2>2
  <1>15. QED
    BY <1>1, <1>2, <1>3, <1>4, <1>5, <1>6, <1>7, <1>8, <1>9, <1>10, <1>11, <1>12, <1>13, <1>14
       DEF SerialNext, SerialRun, Run, Progress, Watch, Environment

LEMMA ShownNextInv == ShownInv /\ [SerialNext]_vars => ShownInv'
  <1> SUFFICES ASSUME ShownInv, [SerialNext]_vars PROVE ShownInv'
    OBVIOUS
  <1>1. WantedInv'
    BY WantedNextInv DEF ShownInv
  <1>2. CASE SerialNext
    BY <1>1, <1>2, ReceiversStep, ReportedStep DEF ShownInv
  <1>3. CASE UNCHANGED vars
    BY <1>1, <1>3 DEF vars, state, os, locals, ShownInv, Receivers, Wired, Reported, Children
  <1>4. QED
    BY <1>2, <1>3

\* The inductive invariant of what is shown and who hears the events.
THEOREM ShownInvariance == SerialSpec => []ShownInv
  BY InitShownInv, ShownNextInv, PTL DEF SerialSpec

\* The published group can reach its receiver and no other receiver thread is left
\* behind, if calls and restarts do not overlap: also after a start that failed while
\* it bound the socket or launched a process.
THEOREM ReceiverIsReachable == SerialSpec => []EventsReachable
  <1>1. ShownInv => EventsReachable
    BY DEF ShownInv, Receivers, Wired, EventsReachable, Quiescent, Busy, Resting
  <1>2. QED
    BY <1>1, ShownInvariance, PTL

\* A group that was given up is shown as failed, if calls and restarts do not overlap.
THEOREM ExhaustionIsShown == SerialSpec => []ExhaustionReported
  <1>1. ShownInv => ExhaustionReported
    BY DEF ShownInv, Reported, ExhaustionReported, Lifecycle, Quiescent, Busy, Resting
  <1>2. QED
    BY <1>1, ShownInvariance, PTL

-----------------------------------------------------------------------------
(* The supervisor implements ReceiverService.                              *)

\* What the refinement mapping makes of the live groups.
Serving == {<<i, gen[i]>> : i \in Live}

\* A live group and its generation have a name, so naming another incarnation
\* does not touch them.
LEMMA LiveIsNamed ==
  ASSUME SerialInv, NEW i \in Live
  PROVE  i \in Incarnations /\ i <= started
  <1>1. CASE i = current
    BY <1>1, SupervisorAssumption
       DEF SerialInv, Inv, TypeOK, Named, PublishedIsBorn, Live, Incarnations, NoGroup
  <1>2. CASE Launched(i)
    BY <1>2 DEF Launched, SerialInv, Inv, Reserved, Starting, Calling, Live, NoGroup
  <1>3. QED
    BY <1>1, <1>2 DEF SerialInv, Groups, Accounted

\* Nothing serves the instance while a thread is about to launch a group.
LEMMA NothingServes ==
  ASSUME SerialInv, NEW t \in Threads, pc[t] \in {"bind", "spawn"}
  PROVE  Live = {}
  <1> SUFFICES ASSUME NEW i \in Live
               PROVE  FALSE
    OBVIOUS
  <1>1. current = NoGroup
    BY DEF SerialInv, Groups, Cleared
  <1>2. i # current
    BY <1>1, SupervisorAssumption DEF Live, Incarnations, NoGroup
  <1>3. PICK u \in Threads : pc[u] = "publish"
    BY <1>2 DEF SerialInv, Groups, Accounted, Launched
  <1>4. QED
    BY <1>3 DEF SerialInv, Groups, OneBusy, Busy, Resting

LEMMA InitRefines == Init => Service!Init
  BY DEF Init, Service!Init, Service!None, Live

LEMMA StepRefines ==
  ASSUME SerialInv, SerialInv', SerialNext
  PROVE  Service!Next \/ UNCHANGED <<intent, Serving>>
  <1> DEFINE Goal == Service!Next \/ UNCHANGED <<intent, Serving>>
  <1>r. ASSUME UNCHANGED <<Serving>>
        PROVE  Goal
    <2>1. intent' \in Incarnations \cup {0}
      BY SupervisorAssumption DEF SerialInv, Inv, TypeOK, Incarnations
    <2>2. QED
      BY <1>r, <2>1 DEF Service!Next, Service!Request, Service!None, Serving
  <1>u. ASSUME UNCHANGED <<alive, doomed, gen>>
        PROVE  UNCHANGED <<Serving>>
    BY <1>u DEF Serving, Live
  <1>n. ASSUME UNCHANGED <<alive, doomed>>, \A i \in Incarnations : i <= started => gen'[i] = gen[i]
        PROVE  UNCHANGED <<Serving>>
    BY <1>n, LiveIsNamed DEF Serving, Live
  <1>e. ASSUME Live' = {}, UNCHANGED intent
        PROVE  Goal
    BY <1>e DEF Service!Next, Service!Retire, Serving
  <1>1. ASSUME NEW c \in Callers, CallStop(c) PROVE Goal
    BY <1>1, <1>r, <1>u DEF CallStop, os
  <1>2. ASSUME NEW c \in Callers, CallStart(c) PROVE Goal
    <2>1. \A i \in Incarnations : i <= started => gen'[i] = gen[i]
      BY <1>2, SupervisorAssumption DEF CallStart, SerialInv, Inv, TypeOK, Incarnations
    <2>2. QED
      BY <1>2, <1>r, <1>n, <2>1 DEF CallStart, os
  <1>3. ASSUME NEW t \in Threads,
               Check(t) \/ Mark(t) \/ KillWait(t) \/ Quiet(t) \/ Clear(t) \/ Bind(t)
                 \/ BindFails(t) \/ Publish(t)
        PROVE  Goal
    BY <1>3, <1>r, <1>u
       DEF Check, Mark, KillWait, Quiet, Clear, Bind, BindFails, Publish, Raise, os, names
  <1>4. ASSUME NEW t \in Threads, KillForce(t) PROVE Goal
    <2>1. target[t] = current /\ current # NoGroup /\ pc[t] \in Killing
      BY <1>4 DEF KillForce, SerialInv, Groups, Cleared
    <2>2. \A i \in Live : i = current
      <3>1. \A u \in Threads : pc[u] # "publish"
        BY <2>1 DEF SerialInv, Groups, Cleared
      <3>2. QED
        BY <3>1 DEF SerialInv, Groups, Accounted, Launched
    <2>3. Live' = {}
      BY <1>4, <2>1, <2>2 DEF KillForce, Live
    <2>4. QED
      BY <1>4, <1>e, <2>3 DEF KillForce, names
  <1>5. ASSUME NEW t \in Threads, Spawn(t) PROVE Goal
    <2> DEFINE n == fresh[t]
    <2>1. Live = {} /\ n \in Incarnations
      BY <1>5, NothingServes DEF Spawn, SerialInv, Inv, TypeOK, Reserved, NoGroup
    <2>2. /\ alive' = [alive EXCEPT ![n] = Roles]
          /\ UNCHANGED <<doomed, gen, intent>>
      BY <1>5 DEF Spawn, names
    <2>3. intent = gen[n] /\ gen[n] # 0
      <3>1. Busy(t) /\ n # NoGroup /\ Starting(t) /\ pc[t] \in Calling
        BY <1>5, <2>1, SupervisorAssumption
           DEF Spawn, Busy, Resting, Starting, Calling, Incarnations, NoGroup
      <3>2. intent = gen[n]
        BY <3>1 DEF SerialInv, Intended, Inv, Inherits, Threads
      <3>3. n <= started
        BY <3>1 DEF SerialInv, Inv, Reserved
      <3>4. QED
        BY <2>1, <3>2, <3>3, SupervisorAssumption DEF SerialInv, Inv, TypeOK, Named, Incarnations
    <2>4. CASE n \in doomed
      <3>1. Live' = {}
        BY <2>1, <2>2, <2>4 DEF SerialInv, Inv, TypeOK, Live
      <3>2. QED
        BY <1>e, <2>2, <3>1
    <2>5. CASE n \notin doomed
      <3>1. Live' = {n}
        BY <2>1, <2>2, <2>5 DEF SerialInv, Inv, TypeOK, Live, Roles
      <3>2. Serving = {} /\ Serving' = {<<n, intent>>}
        BY <2>1, <2>2, <2>3, <3>1 DEF Serving
      <3>3. Service!Launch
        BY <2>1, <2>2, <2>3, <3>2 DEF Service!Launch, Service!None, Serving
      <3>4. QED
        BY <3>3 DEF Service!Next
    <2>6. QED
      BY <2>4, <2>5
  <1>6. ASSUME NEW t \in Threads, SpawnFails(t) PROVE Goal
    <2>1. Live = {} /\ fresh[t] \in Incarnations
      BY <1>6, NothingServes DEF SpawnFails, SerialInv, Inv, TypeOK, Reserved, NoGroup
    <2>2. Live' = {}
      BY <1>6, <2>1 DEF SpawnFails, Live, SerialInv, Inv, TypeOK
    <2>3. QED
      BY <1>r, <2>1, <2>2 DEF Serving
  <1>7. ASSUME NEW m \in Incarnations, Quit(m) \/ Detect(m) \/ GiveUp(m) \/ RestartError(m)
        PROVE  Goal
    BY <1>7, <1>r, <1>u DEF Quit, Detect, GiveUp, RestartError, os, names
  <1>8. ASSUME NEW m \in Incarnations, Wake(m) PROVE Goal
    <2>1. \A i \in Incarnations : i <= started => gen'[i] = gen[i]
      BY <1>8, SupervisorAssumption DEF Wake, SerialInv, Inv, TypeOK, Incarnations
    <2>2. QED
      BY <1>8, <1>r, <1>n, <2>1 DEF Wake, os
  <1>9. ASSUME NEW i \in Incarnations, NEW r \in Roles, Exit(i, r) PROVE Goal
    <2>1. /\ UNCHANGED <<doomed, gen, intent>>
          /\ \A j \in Incarnations : j # i => alive'[j] = alive[j]
          /\ alive'[i] \subseteq alive[i]
      BY <1>9 DEF Exit, names, SerialInv, Inv, TypeOK
    <2>2. CASE i \in Live /\ i \notin Live'
      <3>1. Live' = {}
        BY <2>1, <2>2, AtMostOneGroup DEF Live, OneGroup
      <3>2. QED
        BY <1>e, <2>1, <3>1
    <2>3. CASE ~(i \in Live /\ i \notin Live')
      <3>1. Live' = Live
        BY <2>1, <2>3 DEF Live
      <3>2. QED
        BY <1>r, <2>1, <3>1 DEF Serving
    <2>4. QED
      BY <2>2, <2>3
  <1>10. QED
    BY <1>1, <1>2, <1>3, <1>4, <1>5, <1>6, <1>7, <1>8, <1>9
       DEF SerialNext, SerialRun, Request, Run, Progress, Watch, Environment

\* The supervisor implements the service it promises, if calls and restarts do
\* not overlap: a group is launched only when nothing is alive, and only for
\* the generation asked for last.
THEOREM SupervisorImplementsService == SerialSpec => Service!Safety
  <1>1. SerialInv /\ SerialInv' /\ [SerialNext]_vars => [Service!Next]_(Service!vars)
    <2> SUFFICES ASSUME SerialInv, SerialInv', [SerialNext]_vars
                 PROVE  Service!Next \/ UNCHANGED <<intent, Serving>>
      BY DEF Service!vars, Serving
    <2>1. CASE SerialNext
      BY <2>1, StepRefines
    <2>2. CASE UNCHANGED vars
      BY <2>2 DEF vars, os, names, Serving, Live
    <2>3. QED
      BY <2>1, <2>2
  <1>2. QED
    BY <1>1, InitRefines, SerialInvariance, PTL DEF SerialSpec, Service!Safety
===============================================================================
