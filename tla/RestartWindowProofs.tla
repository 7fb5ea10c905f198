------------------------- MODULE RestartWindowProofs -------------------------
(***************************************************************************)
(* The restart budget holds for every limit, window, delay and schedule.   *)
(***************************************************************************)
EXTENDS RestartWindow, FiniteSetTheorems, WellFoundedInduction, TLAPS

-----------------------------------------------------------------------------
(* The inductive invariant.                                                *)

\* Crashes are recorded in the order they happened.
Ordered ==
  /\ \A k \in 1 .. Len(at) : at[k] <= now
  /\ \A j, k \in 1 .. Len(at) : j <= k => at[j] <= at[k]

\* What was purged is older than the window, and time only makes it older.
PurgedIsStale == \A k \in 1 .. head - 1 : Stale(at[k])

Inv == TypeOK /\ Ordered /\ PurgedIsStale /\ RestartsSpaced

\* What the types say of the numbers.
LEMMA Types ==
  ASSUME TypeOK
  PROVE  /\ now \in Nat /\ launched \in Nat /\ Len(at) \in Nat
         /\ pending \subseteq granted /\ granted \subseteq 1 .. Len(at)
         /\ cause \in granted \cup {0} /\ head \in 1 .. Len(at) + 1
         /\ Limit \in Nat /\ Window \in Nat /\ Reap \in Nat /\ Prompt \in Nat
         /\ \A k \in 1 .. Len(at) : at[k] \in Nat
         /\ \A k \in 1 .. Len(at) : due[k] \in Nat
         /\ \A k \in 1 .. Len(at) : chain[k] \in Nat
  <1>1. /\ now \in Nat /\ launched \in Nat /\ Len(at) \in Nat
        /\ pending \subseteq granted /\ granted \subseteq 1 .. Len(at)
        /\ cause \in granted \cup {0} /\ head \in 1 .. Len(at) + 1
    BY DEF TypeOK
  <1>2. \A k \in 1 .. Len(at) : at[k] \in Nat
    BY DEF TypeOK
  <1>3. \A k \in 1 .. Len(at) : due[k] \in Nat
    BY DEF TypeOK
  <1>4. \A k \in 1 .. Len(at) : chain[k] \in Nat
    BY DEF TypeOK
  <1>5. QED
    BY <1>1, <1>2, <1>3, <1>4, WindowAssumption

\* What Crash does to the history: one entry more, at the present time, and a
\* head that moves over stale entries only.
LEMMA CrashEffect ==
  ASSUME TypeOK, Crash
  PROVE  /\ at' = Append(at, now)
         /\ at' \in Seq(Nat)
         /\ Len(at') = Len(at) + 1
         /\ \A k \in 1 .. Len(at) : at'[k] = at[k]
         /\ at'[Len(at) + 1] = now
         /\ now' = now
         /\ \E h \in head .. Len(at) + 1 :
              /\ head' = h
              /\ \A k \in head .. h - 1 : Stale(at[k])
              /\ \/ granted' = granted
                 \/ granted' = granted \cup {Len(at) + 1} /\ ~Exhausted(Len(at) + 2 - h)
  BY DEF TypeOK, Crash

\* The delay of a crash is a number of ticks.
LEMMA DelayIsNat ==
  ASSUME NEW n \in Nat \ {0}
  PROVE  Delay(n) \in Nat
  <1>1. IsFiniteSet(1 .. n - 1) /\ Cardinality(1 .. n - 1) = n - 1
    BY FS_Interval
  <1>2. /\ Cardinality(SUBSET (1 .. n - 1)) = 2 ^ (n - 1)
        /\ IsFiniteSet(SUBSET (1 .. n - 1))
    BY <1>1, FS_SUBSET
  <1>3. 2 ^ (n - 1) \in Nat
    BY <1>2, FS_CardinalityType
  <1>4. QED
    BY <1>3, WindowAssumption DEF Delay

\* A crash has a place in a row.
LEMMA PlaceIsNat == TypeOK => Place \in Nat \ {0}
  <1> SUFFICES ASSUME TypeOK, cause > 0, now - launched <= Prompt
               PROVE  chain[cause] + 1 \in Nat \ {0}
    BY DEF Place
  <1>1. cause \in 1 .. Len(chain)
    BY DEF TypeOK
  <1>2. chain[cause] \in Nat
    BY <1>1 DEF TypeOK
  <1>3. QED
    BY <1>2

LEMMA InitInv == Init => Inv
  <1> SUFFICES ASSUME Init PROVE Inv
    OBVIOUS
  <1>1. TypeOK
    <2>1. \A s : s = <<>> => s \in Seq(Nat) /\ Len(s) = 0
      OBVIOUS
    <2>2. at \in Seq(Nat) /\ due \in Seq(Nat) /\ chain \in Seq(Nat)
      BY <2>1 DEF Init
    <2>3. Len(at) = 0 /\ Len(due) = 0 /\ Len(chain) = 0
      BY <2>1 DEF Init
    <2>4. /\ now = 0 /\ head = 1 /\ granted = {} /\ pending = {} /\ live = FALSE
          /\ launched = 0 /\ cause = 0
      BY DEF Init
    <2>5. head \in 1 .. Len(at) + 1
      BY ONLY <2>3, <2>4
    <2>6. now \in Nat /\ launched \in Nat /\ live \in BOOLEAN /\ cause \in granted \cup {0}
      BY ONLY <2>4
    <2>7. granted \subseteq 1 .. Len(at) /\ pending \subseteq granted
      BY ONLY <2>4
    <2>8. Len(due) = Len(at) /\ Len(chain) = Len(at)
      BY ONLY <2>3
    <2>9. QED
      BY ONLY <2>2, <2>5, <2>6, <2>7, <2>8 DEF TypeOK
  <1>2. Ordered /\ PurgedIsStale /\ RestartsSpaced
    BY DEF Init, Ordered, PurgedIsStale, RestartsSpaced
  <1>3. QED
    BY <1>1, <1>2 DEF Inv

LEMMA CrashInv ==
  ASSUME Inv, Crash
  PROVE  Inv'
  <1> DEFINE n == Len(at)
  <1>0. n \in Nat /\ head \in 1 .. n + 1 /\ granted \subseteq 1 .. n /\ now \in Nat
    BY DEF Inv, TypeOK
  <1>1. /\ at' \in Seq(Nat)
        /\ Len(at') = n + 1
        /\ \A k \in 1 .. n : at'[k] = at[k] /\ at[k] \in Nat
        /\ at'[n + 1] = now
        /\ now' = now
    <2>1. TypeOK
      BY DEF Inv
    <2>2. /\ at' \in Seq(Nat) /\ Len(at') = n + 1 /\ at'[n + 1] = now /\ now' = now
          /\ \A k \in 1 .. n : at'[k] = at[k]
      BY ONLY <2>1, Crash, CrashEffect
    <2>3. \A k \in 1 .. n : at[k] \in Nat
      BY ONLY <2>1 DEF TypeOK
    <2>4. QED
      BY <2>2, <2>3
  <1>2. PICK h \in head .. n + 1 :
               /\ head' = h
               /\ \A k \in head .. h - 1 : Stale(at[k])
               /\ \/ granted' = granted
                  \/ granted' = granted \cup {n + 1} /\ ~Exhausted(n + 2 - h)
    BY CrashEffect DEF Inv
  <1> HIDE DEF n
  <1>3. TypeOK'
    <2>1. granted' \subseteq 1 .. Len(at')
      <3>1. 1 .. n \subseteq 1 .. n + 1 /\ n + 1 \in 1 .. n + 1
        BY <1>0
      <3>2. granted' \subseteq 1 .. n + 1
        BY <1>0, <1>2, <3>1
      <3>3. QED
        BY <1>1, <3>2
    <2>2. head' \in 1 .. Len(at') + 1
      BY <1>0, <1>1, <1>2
    <2>3. live' \in BOOLEAN /\ launched' \in Nat /\ pending' \subseteq granted'
      BY DEF Inv, TypeOK, Crash
    <2>4. due' \in Seq(Nat) /\ Len(due') = n + 1
      <3>1. \A m \in Nat \ {0} : Delay(m) \in Nat
        BY DelayIsNat
      <3>2. \E m \in Nat \ {0} : due' = Append(due, now + Delay(m))
        <4>1. \A m \in head .. n + 1 : n + 2 - m \in Nat \ {0}
          BY <1>0
        <4>2. QED
          BY <1>0, <4>1 DEF Crash, n
      <3>3. due \in Seq(Nat) /\ Len(due) = n
        BY DEF Inv, TypeOK, n
      <3>4. PICK d \in Nat : due' = Append(due, now + d)
        BY <3>1, <3>2
      <3>5. now + d \in Nat
        BY <1>0
      <3>6. QED
        BY <1>0, <3>3, <3>4, <3>5
    <2>5. chain' \in Seq(Nat) /\ Len(chain') = n + 1
      <3>1. Place \in Nat
        BY PlaceIsNat DEF Inv
      <3>2. chain \in Seq(Nat) /\ Len(chain) = n /\ chain' = Append(chain, Place)
        BY DEF Inv, TypeOK, Crash, n
      <3>3. QED
        BY <1>0, <3>1, <3>2
    <2>6. cause' \in granted' \cup {0}
      BY <1>2 DEF Inv, TypeOK, Crash
    <2>7. QED
      BY <1>0, <1>1, <2>1, <2>2, <2>3, <2>4, <2>5, <2>6 DEF TypeOK
  <1>4. Ordered'
    <2>1. \A k \in 1 .. n : at[k] <= now
      BY DEF Inv, Ordered, n
    <2>2. \A j, k \in 1 .. n : j <= k => at[j] <= at[k]
      BY DEF Inv, Ordered, n
    <2>3. QED
      BY <1>0, <1>1, <2>1, <2>2 DEF Ordered
  <1>5. \A k \in 1 .. h - 1 : k \in 1 .. n /\ Stale(at[k])
    <2> SUFFICES ASSUME NEW k \in 1 .. h - 1
                 PROVE  k \in 1 .. n /\ Stale(at[k])
      OBVIOUS
    <2>1. k \in 1 .. n
      BY <1>0, <1>2
    <2>2. CASE k < head
      BY <1>0, <2>1, <2>2 DEF Inv, PurgedIsStale
    <2>3. CASE k >= head
      <3>1. k \in head .. h - 1
        BY <1>0, <1>2, <2>3
      <3>2. QED
        BY <1>2, <2>1, <3>1
    <2>4. QED
      BY <1>0, <2>1, <2>2, <2>3
  <1>6. PurgedIsStale'
    BY <1>0, <1>1, <1>2, <1>5 DEF PurgedIsStale, Stale
  <1>7. RestartsSpaced'
    <2> SUFFICES ASSUME NEW k \in granted', k > Limit
                 PROVE  at'[k] - at'[k - Limit] > Window
      BY DEF RestartsSpaced
    <2> Limit \in Nat
      BY WindowAssumption
    <2>1. CASE k \in granted
      <3>1. at[k] - at[k - Limit] > Window
        BY <2>1 DEF Inv, RestartsSpaced
      <3>2. k \in 1 .. n /\ k - Limit \in 1 .. n
        BY <1>0, <2>1
      <3>3. QED
        BY <1>1, <3>1, <3>2
    <2>2. CASE k \notin granted
      <3>1. k = n + 1 /\ ~Exhausted(n + 2 - h)
        BY <1>2, <2>2
      <3>2. k - Limit \in 1 .. h - 1
        BY <1>0, <1>2, <3>1 DEF Exhausted
      <3>3. Stale(at[k - Limit]) /\ k - Limit \in 1 .. n
        BY <1>5, <3>2
      <3>4. QED
        BY <1>1, <3>1, <3>3 DEF Stale
    <2>3. QED
      BY <2>1, <2>2
  <1>8. QED
    BY <1>3, <1>4, <1>6, <1>7 DEF Inv

\* The steps other than a crash leave the history alone and never turn the
\* clock back.
LEMMA OtherInv ==
  ASSUME Inv, TypeOK', UNCHANGED <<at, head, granted>>, now' >= now
  PROVE  Inv'
  <1>0. /\ now \in Nat /\ now' \in Nat /\ Window \in Nat /\ head \in 1 .. Len(at) + 1
        /\ Len(at) \in Nat /\ \A k \in 1 .. Len(at) : at[k] \in Nat
    BY Types DEF Inv, TypeOK
  <1>1. Ordered'
    BY <1>0 DEF Inv, Ordered
  <1>2. PurgedIsStale'
    <2> SUFFICES ASSUME NEW k \in 1 .. head - 1
                 PROVE  now' - at[k] > Window
      BY DEF PurgedIsStale, Stale
    <2>1. k \in 1 .. Len(at) /\ at[k] \in Nat
      BY <1>0
    <2>2. now - at[k] > Window
      BY DEF Inv, PurgedIsStale, Stale
    <2>3. QED
      BY <1>0, <2>1, <2>2
  <1>3. RestartsSpaced'
    BY DEF Inv, RestartsSpaced
  <1>4. QED
    BY <1>1, <1>2, <1>3 DEF Inv

LEMMA NextInv == Inv /\ [Next]_vars => Inv'
  <1> SUFFICES ASSUME Inv, [Next]_vars
               PROVE  Inv'
    OBVIOUS
  <1>1. CASE Crash
    BY <1>1, CrashInv
  <1>2. CASE \E k \in pending : Restart(k)
    <2>1. TypeOK'
      BY <1>2 DEF Restart, Inv, TypeOK
    <2>2. UNCHANGED <<at, head, granted>> /\ now' >= now
      BY <1>2, Types DEF Restart, Inv
    <2>3. QED
      BY <2>1, <2>2, OtherInv
  <1>3. CASE HostStart
    <2>1. TypeOK'
      BY <1>3 DEF HostStart, Inv, TypeOK
    <2>2. UNCHANGED <<at, head, granted>> /\ now' >= now
      BY <1>3, Types DEF HostStart, Inv
    <2>3. QED
      BY <2>1, <2>2, OtherInv
  <1>4. CASE HostStop
    <2>1. TypeOK'
      BY <1>4 DEF HostStop, Inv, TypeOK
    <2>2. UNCHANGED <<at, head, granted>> /\ now' >= now
      BY <1>4, Types DEF HostStop, Inv
    <2>3. QED
      BY <2>1, <2>2, OtherInv
  <1>5. CASE Tick
    <2>1. TypeOK'
      BY <1>5 DEF Tick, Inv, TypeOK
    <2>2. UNCHANGED <<at, head, granted>> /\ now' >= now
      BY <1>5, Types DEF Tick, Inv
    <2>3. QED
      BY <2>1, <2>2, OtherInv
  <1>6. CASE UNCHANGED vars
    <2>1. TypeOK'
      BY <1>6 DEF vars, Inv, TypeOK
    <2>2. UNCHANGED <<at, head, granted>> /\ now' >= now
      BY <1>6, Types DEF vars, Inv
    <2>3. QED
      BY <2>1, <2>2, OtherInv
  <1>7. QED
    BY <1>1, <1>2, <1>3, <1>4, <1>5, <1>6 DEF Next

\* The inductive invariant: the types, the order of the crashes, and what the purge
\* left behind.
THEOREM BudgetInvariant == Spec => []Inv
  BY InitInv, NextInv, PTL DEF Spec

\* Each variable of the restart budget keeps its type.
THEOREM TypeCorrect == Spec => []TypeOK
  <1>1. Inv => TypeOK
    BY DEF Inv
  <1>2. QED
    BY <1>1, BudgetInvariant, PTL

\* A crash answered by a restart lies more than the window after the crash
\* Limit before it, for every limit, window and mix of restarts by hand.
THEOREM SpacedRestarts == Spec => []RestartsSpaced
  <1>1. Inv => RestartsSpaced
    BY DEF Inv
  <1>2. QED
    BY <1>1, BudgetInvariant, PTL

-----------------------------------------------------------------------------
(* From the spacing of restarts to the number of restarts in a window.     *)

\* A non-empty set of naturals has a smallest element.
LEMMA Smallest ==
  ASSUME NEW S \in SUBSET Nat, S # {}
  PROVE  \E m \in S : \A k \in S : m <= k
  <1> DEFINE R == OpToRel(<, Nat)
  <1>1. PICK m \in S : \A k \in S : <<k, m>> \notin R
    BY NatLessThanWellFounded, WFMin
  <1>2. \A k \in S : ~(k < m)
    BY <1>1 DEF OpToRel
  <1>3. QED
    BY <1>2

LEMMA SpacedMeansBounded ==
  ASSUME Inv, NEW x \in Nat
  PROVE  Cardinality({k \in granted : at[k] \in x .. x + Window}) <= Limit
  <1> DEFINE S == {k \in granted : at[k] \in x .. x + Window}
  <1>0. Limit \in Nat /\ Window \in Nat
    BY WindowAssumption
  <1>1. S \subseteq 1 .. Len(at) /\ Len(at) \in Nat /\ \A k \in 1 .. Len(at) : at[k] \in Nat
    <2>1. S \subseteq granted
      OBVIOUS
    <2>2. granted \subseteq 1 .. Len(at) /\ Len(at) \in Nat
      BY DEF Inv, TypeOK
    <2>3. \A k \in 1 .. Len(at) : at[k] \in Nat
      BY DEF Inv, TypeOK
    <2>4. QED
      BY <2>1, <2>2, <2>3
  <1>2. CASE S = {}
    BY <1>0, <1>2, FS_EmptySet
  <1>3. CASE S # {}
    <2>1. PICK m \in S : \A k \in S : m <= k
      <3>1. S \in SUBSET Nat
        BY <1>1
      <3>2. QED
        BY <1>3, <3>1, Smallest
    <2>2. S \subseteq m .. m + Limit - 1
      <3> SUFFICES ASSUME NEW k \in S, k >= m + Limit
                   PROVE  FALSE
        BY <1>0, <1>1, <2>1
      <3>1. k - Limit \in 1 .. Len(at) /\ m <= k - Limit /\ k > Limit
        BY <1>0, <1>1
      <3>2. at[k] - at[k - Limit] > Window
        BY <3>1 DEF Inv, RestartsSpaced
      <3>3. at[m] <= at[k - Limit]
        BY <1>1, <3>1 DEF Inv, Ordered
      <3>4. at[m] >= x /\ at[k] <= x + Window
        BY <1>0, <1>1
      <3>5. at[m] \in Nat /\ at[k] \in Nat /\ at[k - Limit] \in Nat
        BY <1>1, <3>1
      <3>6. QED
        BY <1>0, <3>2, <3>3, <3>4, <3>5
    <2> DEFINE J == m .. m + Limit - 1
    <2>i. m \in Int /\ m + Limit - 1 \in Int
      BY <1>0, <1>1
    <2>f. /\ IsFiniteSet(J)
          /\ Cardinality(J) = IF m > m + Limit - 1 THEN 0 ELSE (m + Limit - 1) - m + 1
      BY <2>i, FS_Interval
    <2>3. Cardinality(S) <= Cardinality(J)
      <3>1. S \in SUBSET J
        BY <2>2
      <3>2. QED
        BY <2>f, <3>1, FS_Subset
    <2>4. Cardinality(J) = Limit
      BY <1>0, <2>i, <2>f
    <2>5. QED
      BY <2>3, <2>4
  <1>4. QED
    BY <1>2, <1>3

\* No interval of the window's length holds more than Limit crashes that were
\* answered by a restart, for every limit, window and schedule.
THEOREM BoundedRestarts == Spec => []WindowBound
  <1>1. Inv => WindowBound
    <2> SUFFICES ASSUME Inv, NEW x \in 0 .. now
                 PROVE  Cardinality({k \in granted : at[k] \in x .. x + Window}) <= Limit
      BY DEF WindowBound
    <2>1. x \in Nat
      BY Types DEF Inv
    <2>2. QED
      BY <2>1, SpacedMeansBounded
  <1>2. QED
    BY <1>1, BudgetInvariant, PTL
-----------------------------------------------------------------------------
(* A storm of prompt crashes ends.                                         *)

\* The delays do not shrink.
LEMMA DelayGrows ==
  ASSUME NEW m \in Nat \ {0}, NEW n \in Nat \ {0}, m <= n
  PROVE  Delay(m) <= Delay(n)
  <1> DEFINE I(k) == 1 .. k - 1
  <1>1. \A k \in Nat \ {0} :
          /\ IsFiniteSet(SUBSET I(k))
          /\ Cardinality(SUBSET I(k)) = 2 ^ (k - 1)
    <2> SUFFICES ASSUME NEW k \in Nat \ {0}
                 PROVE  IsFiniteSet(SUBSET I(k)) /\ Cardinality(SUBSET I(k)) = 2 ^ (k - 1)
      OBVIOUS
    <2>1. IsFiniteSet(1 .. k - 1) /\ Cardinality(1 .. k - 1) = k - 1
      BY FS_Interval
    <2>2. QED
      BY <2>1, FS_SUBSET
  <1>2. SUBSET I(m) \subseteq SUBSET I(n)
    <2>1. I(m) \subseteq I(n)
      OBVIOUS
    <2>2. QED
      BY <2>1
  <1>3. Cardinality(SUBSET I(m)) <= Cardinality(SUBSET I(n))
    BY <1>1, <1>2, FS_Subset
  <1>4. 2 ^ (m - 1) <= 2 ^ (n - 1)
    BY <1>1, <1>3
  <1>5. 2 ^ (m - 1) \in Nat /\ 2 ^ (n - 1) \in Nat
    <2>1. \A k \in Nat \ {0} : 2 ^ (k - 1) \in Nat
      BY <1>1, FS_CardinalityType
    <2>2. QED
      BY <2>1
  <1>6. QED
    <2> HIDE DEF I
    <2>1. Cap \in Nat
      BY WindowAssumption
    <2>2. PICK a \in Nat, b \in Nat : a = 2 ^ (m - 1) /\ b = 2 ^ (n - 1)
      BY <1>5
    <2>3. Delay(m) = IF a < Cap THEN a ELSE Cap
      BY <2>2, Zenon DEF Delay
    <2>4. Delay(n) = IF b < Cap THEN b ELSE Cap
      BY <2>2, Zenon DEF Delay
    <2>5. a <= b
      BY <1>4, <2>2, Zenon
    <2>6. QED
      BY <2>1, <2>3, <2>4, <2>5

\* The crashes of a row follow each other within a round, and the group that answers
\* one of them is launched in time.
Storm ==
  /\ \A k \in 1 .. Len(at) :
       /\ chain[k] \in 1 .. k
       /\ chain[k] > 1 => at[k] - at[k + 1 - chain[k]] <= (chain[k] - 1) * Round
  /\ \A k \in granted : due[k] <= at[k] + Delay(Limit)
  /\ \A k \in pending : now <= due[k] + Reap
  /\ cause > 0 => launched <= at[cause] + Delay(Limit) + Reap

StormInv == Inv /\ Storm /\ StormStopped

\* Where a restart was granted, a round is a number of ticks.
LEMMA RoundIsNat ==
  ASSUME Limit # 0
  PROVE  Delay(Limit) \in Nat /\ Round \in Nat
  <1>1. Limit \in Nat \ {0} /\ Reap \in Nat /\ Prompt \in Nat
    BY WindowAssumption
  <1>2. Delay(Limit) \in Nat
    BY <1>1, DelayIsNat
  <1>3. QED
    BY <1>1, <1>2 DEF Round

\* What Append does to a sequence.
LEMMA Appending ==
  ASSUME NEW s, s \in Seq(Nat), NEW e
  PROVE  /\ \A k \in 1 .. Len(s) : Append(s, e)[k] = s[k]
         /\ Append(s, e)[Len(s) + 1] = e
  OBVIOUS

\* The one step that makes a row longer.
LEMMA CrashStorm ==
  ASSUME StormFits, StormInv, Inv', Crash
  PROVE  Storm' /\ StormStopped'
  <1> DEFINE n == Len(at)
  <1>0. /\ n \in Nat /\ now \in Nat /\ launched \in Nat /\ head \in 1 .. n + 1
        /\ \A k \in 1 .. n : at[k] \in Nat /\ due[k] \in Nat /\ chain[k] \in Nat
        /\ granted \subseteq 1 .. n /\ pending \subseteq granted /\ cause \in granted \cup {0}
    BY Types DEF StormInv, Inv
  <1>a. Limit \in Nat /\ Window \in Nat /\ Reap \in Nat /\ Prompt \in Nat
    BY WindowAssumption
  <1>1. /\ Len(at') = n + 1 /\ at'[n + 1] = now /\ now' = now
        /\ \A k \in 1 .. n : at'[k] = at[k]
    BY CrashEffect DEF StormInv, Inv
  <1>2. PICK h \in head .. n + 1 :
          /\ due' = Append(due, now + Delay(n + 2 - h))
          /\ \/ granted' = granted /\ pending' = pending
             \/ /\ ~Exhausted(n + 2 - h)
                /\ granted' = granted \cup {n + 1}
                /\ pending' = pending \cup {n + 1}
    BY DEF Crash
  <1>3. /\ \A k \in 1 .. n : due'[k] = due[k] /\ chain'[k] = chain[k]
        /\ due'[n + 1] = now + Delay(n + 2 - h)
        /\ chain'[n + 1] = Place
        /\ launched' = launched /\ cause' = cause
    <2>1. due \in Seq(Nat) /\ Len(due) = n
      BY DEF StormInv, Inv, TypeOK
    <2>2. chain \in Seq(Nat) /\ Len(chain) = n
      BY DEF StormInv, Inv, TypeOK
    <2>3. chain' = Append(chain, Place) /\ launched' = launched /\ cause' = cause
      BY DEF Crash
    <2> HIDE DEF n
    <2>4. (\A k \in 1 .. n : due'[k] = due[k]) /\ due'[n + 1] = now + Delay(n + 2 - h)
      <3>1. due' = Append(due, now + Delay(n + 2 - h))
        BY <1>2
      <3>2. QED
        BY ONLY <2>1, <3>1, Appending
    <2>5. (\A k \in 1 .. n : chain'[k] = chain[k]) /\ chain'[n + 1] = Place
      BY ONLY <2>2, <2>3, Appending
    <2>6. QED
      BY <2>3, <2>4, <2>5
  <1> HIDE DEF n
  <1>4. \A k \in 1 .. n :
          /\ chain[k] \in 1 .. k
          /\ chain[k] > 1 => at[k] - at[k + 1 - chain[k]] <= (chain[k] - 1) * Round
    BY DEF StormInv, Storm, n
  <1>5. /\ Place <= n + 1
        /\ Place > 1 => /\ now - at[n + 2 - Place] <= (Place - 1) * Round
                        /\ Place - 1 <= Limit
                        /\ Limit # 0
    <2>1. CASE ~(cause > 0 /\ now - launched <= Prompt)
      BY <1>0, <2>1 DEF Place
    <2>2. CASE cause > 0 /\ now - launched <= Prompt
      <3> DEFINE m == chain[cause]
      <3>1. cause \in granted /\ cause \in 1 .. n /\ Place = m + 1
        BY <1>0, <2>2 DEF Place
      <3>2. m \in Nat \ {0} /\ m <= cause /\ m <= Limit
        BY <1>0, <1>4, <3>1 DEF StormInv, StormStopped
      <3>3. Limit # 0 /\ Round \in Nat /\ Delay(Limit) \in Nat
        BY <1>a, <3>2, RoundIsNat
      <3>4. launched <= at[cause] + Delay(Limit) + Reap
        BY <2>2 DEF StormInv, Storm
      <3>5. now <= at[cause] + Round
        BY <1>0, <1>a, <2>2, <3>1, <3>3, <3>4 DEF Round
      <3>6. at[cause] - at[cause + 1 - m] <= (m - 1) * Round
        <4>1. CASE m = 1
          BY <1>0, <3>1, <3>3, <4>1
        <4>2. CASE m > 1
          BY <1>4, <3>1, <4>2
        <4>3. QED
          BY <3>2, <4>1, <4>2
      <3>7. at[cause + 1 - m] <= at[n + 1 - m]
        <4>1. cause + 1 - m \in 1 .. n /\ n + 1 - m \in 1 .. n /\ cause + 1 - m <= n + 1 - m
          BY <1>0, <3>1, <3>2
        <4>2. \A i, j \in 1 .. n : i <= j => at[i] <= at[j]
          BY DEF StormInv, Inv, Ordered, n
        <4>3. QED
          BY <4>1, <4>2
      <3>8. cause + 1 - m \in 1 .. n /\ n + 1 - m \in 1 .. n /\ n + 2 - Place = n + 1 - m
        BY <1>0, <3>1, <3>2
      <3>9. now - at[n + 1 - m] <= m * Round
        <4> HIDE DEF m
        <4> DEFINE p == (m - 1) * Round
        <4>1. p \in Int /\ p + Round = m * Round
          BY <3>2, <3>3
        <4>2. at[cause] - at[cause + 1 - m] <= p
          BY <3>6
        <4> HIDE DEF p
        <4>3. QED
          BY <1>0, <3>1, <3>3, <3>5, <3>7, <3>8, <4>1, <4>2
      <3>10. QED
        BY <1>0, <3>1, <3>2, <3>3, <3>8, <3>9
    <2>3. QED
      BY <2>1, <2>2
  <1>p. Place \in Nat \ {0}
    BY PlaceIsNat DEF StormInv, Inv
  <1>6. ASSUME n + 1 \in granted'
        PROVE  /\ Place <= Limit
               /\ Delay(Limit) \in Nat /\ now <= due'[n + 1] /\ due'[n + 1] <= now + Delay(Limit)
    <2>1. n + 2 - h \in Nat \ {0} /\ n + 2 - h <= Limit
      BY <1>0, <1>2, <1>6, <1>a DEF Exhausted
    <2>2. Limit \in Nat \ {0} /\ Delay(n + 2 - h) <= Delay(Limit)
      BY <1>a, <2>1, DelayGrows
    <2>3. Delay(n + 2 - h) \in Nat /\ Delay(Limit) \in Nat /\ Round \in Nat
      <3>1. \A k \in Nat \ {0} : Delay(k) \in Nat
        BY DelayIsNat
      <3>2. QED
        BY <1>a, <2>1, <2>2, <3>1 DEF Round
    <2>4. Place <= Limit
      <3> SUFFICES ASSUME Place > Limit PROVE FALSE
        BY <1>a, <1>p
      <3>1. Place > 1 /\ Place = Limit + 1
        BY <1>5, <1>a, <1>p, <2>2
      <3>2. now - at[n + 1 - Limit] <= Limit * Round /\ n + 1 - Limit \in 1 .. n
        BY <1>0, <1>5, <1>a, <2>2, <3>1
      <3>3. at'[n + 1] - at'[n + 1 - Limit] > Window
        <4>1. n + 1 > Limit
          BY <1>0, <1>a, <3>2
        <4>2. \A k \in granted' : k > Limit => at'[k] - at'[k - Limit] > Window
          BY DEF Inv, RestartsSpaced
        <4>3. PICK k \in granted' : k = n + 1
          BY <1>6
        <4>4. at'[k] - at'[k - Limit] > Window
          BY <4>1, <4>2, <4>3
        <4>5. QED
          BY <1>0, <1>a, <4>3, <4>4
      <3>4. now - at[n + 1 - Limit] > Window
        BY <1>1, <3>2, <3>3
      <3>5. Limit * Round <= Window /\ Limit * Round \in Nat
        BY <1>a, <2>3 DEF StormFits
      <3>6. QED
        BY <1>0, <1>a, <3>2, <3>4, <3>5
    <2>5. QED
      BY <1>0, <1>3, <2>2, <2>3, <2>4
  <1>7. Storm'
    <2>1. \A k \in 1 .. Len(at') :
            /\ chain'[k] \in 1 .. k
            /\ chain'[k] > 1 => at'[k] - at'[k + 1 - chain'[k]] <= (chain'[k] - 1) * Round
      <3> SUFFICES ASSUME NEW k \in 1 .. n + 1
                   PROVE  /\ chain'[k] \in 1 .. k
                          /\ chain'[k] > 1 => at'[k] - at'[k + 1 - chain'[k]] <= (chain'[k] - 1) * Round
        BY <1>1
      <3>1. CASE k = n + 1
        <4>1. chain'[k] = Place /\ at'[k] = now
          BY <1>1, <1>3, <3>1
        <4>2. CASE Place > 1
          <5>1. n + 2 - Place \in 1 .. n /\ k + 1 - Place = n + 2 - Place
            BY <1>0, <1>5, <1>p, <3>1, <4>2
          <5>2. at'[k + 1 - chain'[k]] = at[n + 2 - Place]
            BY <1>1, <4>1, <5>1
          <5>3. now - at[n + 2 - Place] <= (Place - 1) * Round /\ Place \in 1 .. k
            BY <1>0, <1>5, <1>p, <3>1, <4>2
          <5>4. QED
            BY <4>1, <5>2, <5>3
        <4>3. QED
          BY <1>0, <1>5, <1>p, <3>1, <4>1, <4>2
      <3>2. CASE k # n + 1
        <4>1. k \in 1 .. n
          BY <1>0, <3>2
        <4>2. k + 1 - chain[k] \in 1 .. n
          BY <1>0, <1>4, <4>1
        <4>3. QED
          BY <1>1, <1>3, <1>4, <4>1, <4>2
      <3>3. QED
        BY <3>1, <3>2
    <2>2. \A k \in granted' : due'[k] <= at'[k] + Delay(Limit)
      <3>1. \A k \in granted : k \in 1 .. n /\ due[k] <= at[k] + Delay(Limit)
        BY <1>0 DEF StormInv, Storm
      <3>2. QED
        BY <1>0, <1>1, <1>2, <1>3, <1>6, <3>1
    <2>3. \A k \in pending' : now' <= due'[k] + Reap
      <3>1. \A k \in pending : k \in 1 .. n /\ now <= due[k] + Reap
        BY <1>0 DEF StormInv, Storm
      <3>2. n + 1 \in granted' => now <= due'[n + 1] + Reap
        <4> SUFFICES ASSUME n + 1 \in granted' PROVE now <= due'[n + 1] + Reap
          OBVIOUS
        <4>1. due' \in Seq(Nat) /\ Len(due') = n + 1
          BY <1>1 DEF Inv, TypeOK
        <4>2. due'[n + 1] \in Nat
          BY <1>0, <4>1
        <4>3. QED
          BY <1>0, <1>6, <1>a, <4>2
      <3>3. QED
        BY <1>0, <1>1, <1>2, <1>3, <3>1, <3>2
    <2>4. cause' > 0 => launched' <= at'[cause'] + Delay(Limit) + Reap
      <3> SUFFICES ASSUME cause > 0
                   PROVE  launched <= at'[cause] + Delay(Limit) + Reap
        BY <1>3
      <3>1. cause \in 1 .. n
        BY <1>0
      <3>2. QED
        BY <1>1, <3>1 DEF StormInv, Storm
    <2>5. QED
      BY <2>1, <2>2, <2>3, <2>4 DEF Storm
  <1>8. StormStopped'
    <2> SUFFICES ASSUME NEW k \in granted' PROVE chain'[k] <= Limit
      BY DEF StormStopped
    <2>1. CASE k \in granted
      BY <1>0, <1>3, <2>1 DEF StormInv, StormStopped
    <2>2. CASE k \notin granted
      BY <1>2, <1>3, <1>6, <2>2
    <2>3. QED
      BY <2>1, <2>2
  <1>9. QED
    BY <1>7, <1>8

LEMMA StormNext == ASSUME StormFits PROVE StormInv /\ [Next]_vars => StormInv'
  <1> SUFFICES ASSUME StormInv, [Next]_vars PROVE StormInv'
    OBVIOUS
  <1>i. Inv'
    BY NextInv DEF StormInv
  <1>t. /\ now \in Nat /\ Reap \in Nat /\ Limit \in Nat
        /\ pending \subseteq granted /\ granted \subseteq 1 .. Len(at)
        /\ \A k \in 1 .. Len(at) : at[k] \in Nat /\ due[k] \in Nat /\ chain[k] \in 1 .. k
    <2>1. /\ TypeOK
          /\ \A k \in 1 .. Len(at) : chain[k] \in 1 .. k
      BY DEF StormInv, Inv, Storm
    <2>2. /\ now \in Nat
          /\ pending \subseteq granted /\ granted \subseteq 1 .. Len(at)
          /\ \A k \in 1 .. Len(at) : at[k] \in Nat /\ due[k] \in Nat
      BY <2>1, Types
    <2>3. QED
      BY <2>1, <2>2, WindowAssumption
  <1>1. CASE Crash
    BY <1>1, <1>i, CrashStorm DEF StormInv
  <1>2. CASE \E k \in pending : Restart(k)
    <2>1. PICK k \in pending : Restart(k)
      BY <1>2
    <2>2. k \in granted /\ k \in 1 .. Len(at)
      BY <1>t
    <2>3. Limit # 0
      <3>1. chain[k] <= Limit /\ chain[k] \in 1 .. k
        BY <1>t, <2>2 DEF StormInv, StormStopped
      <3>2. QED
        BY <1>t, <3>1
    <2>4. Delay(Limit) \in Nat
      BY <2>3, RoundIsNat
    <2>5. now <= due[k] + Reap /\ due[k] <= at[k] + Delay(Limit)
      BY <2>2 DEF StormInv, Storm
    <2>6. now <= at[k] + Delay(Limit) + Reap
      BY <1>t, <2>2, <2>4, <2>5
    <2>7. QED
      BY <1>i, <2>1, <2>6 DEF Restart, StormInv, Storm, StormStopped
  <1>3. CASE HostStart
    BY <1>3, <1>i DEF HostStart, StormInv, Storm, StormStopped
  <1>4. CASE HostStop
    BY <1>4, <1>i DEF HostStop, StormInv, Storm, StormStopped
  <1>5. CASE Tick
    BY <1>5, <1>i, <1>t DEF Tick, StormInv, Storm, StormStopped
  <1>6. CASE UNCHANGED vars
    BY <1>6, <1>i DEF vars, StormInv, Storm, StormStopped
  <1>7. QED
    BY <1>1, <1>2, <1>3, <1>4, <1>5, <1>6 DEF Next

\* In no row of restarts, each crashing promptly, are more than Limit crashes answered,
\* whatever is pending, for all numbers with which a storm fits in the window.
THEOREM StormEnds == ASSUME StormFits PROVE Spec => []StormStopped
  <1>1. Init => StormInv
    BY InitInv DEF Init, StormInv, Storm, StormStopped
  <1>2. StormInv /\ [Next]_vars => StormInv'
    BY StormNext
  <1>3. StormInv => StormStopped
    BY DEF StormInv
  <1>4. QED
    BY <1>1, <1>2, <1>3, PTL DEF Spec
=============================================================================
