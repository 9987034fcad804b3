-------------------------- MODULE SchedulerProofs --------------------------
(***************************************************************************)
(* Scheduler for every length of a day and a week, every set of schedules  *)
(* and any number of minutes and restarts: no trigger in a blackout, no    *)
(* minute fired twice, none missed.                                        *)
(***************************************************************************)
EXTENDS Scheduler, TLAPS

-----------------------------------------------------------------------------
(* Arithmetic: the window of the code is the window that is meant.         *)

\* Quotient and remainder.
LEMMA DivMod ==
  ASSUME NEW d \in Nat \ {0}, NEW x \in Int
  PROVE  /\ x \div d \in Int /\ x % d \in 0 .. d - 1
         /\ x = d * (x \div d) + (x % d)
  BY Z3

\* A remainder is unique.
LEMMA ModUnique ==
  ASSUME NEW d \in Nat \ {0}, NEW q \in Int, NEW r \in 0 .. d - 1
  PROVE  (d * q + r) % d = r
<1> DEFINE x == d * q + r
<1>1. x \in Int
  BY Z3
<1>2. /\ x \div d \in Int /\ x % d \in 0 .. d - 1
      /\ x = d * (x \div d) + (x % d)
  BY <1>1, DivMod
<1>3. ASSUME NEW p \in Int, NEW t \in 0 .. d - 1, d * q + r = d * p + t
      PROVE  r = t
  <2>1. d * (q - p) = t - r
    BY <1>3, Z3
  <2>2. CASE q > p
    BY <2>1, <2>2, d * (q - p) >= d, Z3
  <2>3. CASE q < p
    BY <2>1, <2>3, d * (q - p) <= -d, Z3
  <2>4. CASE q = p
    BY <1>3, <2>4
  <2>5. QED
    BY <2>2, <2>3, <2>4
<1>4. r = x % d
  BY <1>2, <1>3
<1>5. QED
  BY <1>4

\* The distance from f to m on a circle of d minutes.
LEMMA CircleDistance ==
  ASSUME NEW d \in Nat \ {0}, NEW m \in Int, NEW f \in 0 .. d - 1
  PROVE  (m - f) % d = IF f <= m % d THEN (m % d) - f ELSE (m % d) - f + d
<1> DEFINE r == m % d
<1>1. PICK q \in Int : r \in 0 .. d - 1 /\ m = d * q + r
  BY DivMod
<1> HIDE DEF r
<1>2. CASE f <= r
  <2>1. m - f = d * q + (r - f) /\ r - f \in 0 .. d - 1
    BY <1>1, <1>2, Z3
  <2>2. (m - f) % d = r - f
    BY <1>1, <2>1, ModUnique
  <2>3. QED
    BY <1>2, <2>2 DEF r
<1>3. CASE ~(f <= r)
  <2>1. m - f = d * (q - 1) + (r - f + d) /\ r - f + d \in 0 .. d - 1
    <3>1. d * (q - 1) = d * q - d
      BY Z3
    <3>2. QED
      BY <1>1, <1>3, <3>1
  <2>2. (m - f) % d = r - f + d
    BY <1>1, q - 1 \in Int, <2>1, ModUnique
  <2>3. QED
    BY <1>3, <2>2 DEF r
<1>4. QED
  BY <1>2, <1>3

\* InBlackout (schedule.go:104-118) is the window the schedule describes:
\* from its beginning to its end, through midnight if the end comes first.
THEOREM WindowIsMeant ==
  ASSUME NEW s \in Schedule, NEW m \in Nat
  PROVE  InBlackout(s, m) <=> Covers(s, m)
<1> DEFINE f == s.blackoutFrom
           t == s.blackoutTo
           r == m % Day
<1>1. Day \in Nat \ {0}
  BY SchedulerAssumption
<1>2. f \in 0 .. Day - 1 /\ t \in 0 .. Day - 1
  BY DEF Schedule, TimeOfDay
<1>3. r \in 0 .. Day - 1
  BY <1>1, DivMod
<1> HIDE DEF f, t
<1>4. (m - f) % Day = IF f <= r THEN r - f ELSE r - f + Day
  BY <1>1, <1>2, CircleDistance, m \in Int
<1>5. t % Day = t /\ t \in Int
  <2>1. Day * 0 + t = t
    BY <1>1, <1>2, Z3
  <2>2. QED
    BY <1>1, <1>2, <2>1, ModUnique, 0 \in Int
<1>6. (t - f) % Day = IF f <= t THEN t - f ELSE t - f + Day
  BY <1>1, <1>2, <1>5, CircleDistance, t \in Int
<1> DEFINE dm == (m - f) % Day
           dt == (t - f) % Day
<1> HIDE DEF r, dm, dt
<1>7. (f # t /\ IF f < t THEN f <= r /\ r < t ELSE f <= r \/ r < t) <=> dm < dt
  <2>1. dm = IF f <= r THEN r - f ELSE r - f + Day
    BY <1>4 DEF dm
  <2>2. dt = IF f <= t THEN t - f ELSE t - f + Day
    BY <1>6 DEF dt
  <2>3. QED
    BY <1>1, <1>2, <1>3, <2>1, <2>2, Z3
<1>8. QED
  BY <1>7, Zenon DEF InBlackout, Covers, f, t, r, dm, dt

-----------------------------------------------------------------------------
(* The invariant.                                                          *)

\* The keys before the k-th are the same in both schedules.
SameKeys(k, s, t) ==
  /\ k > 1 => s.enabled = t.enabled
  /\ k > 2 => s.days = t.days
  /\ k > 3 => s.time = t.time
  /\ k > 4 => s.blackoutEnabled = t.blackoutEnabled
  /\ k > 5 => s.blackoutFrom = t.blackoutFrom
  /\ k > 6 => s.blackoutTo = t.blackoutTo

\* Ticks are handled in order, after the minutes considered before.
OrderInv ==
  /\ tick <= now /\ lastFired <= now
  /\ loop = "scheduled" => at <= now /\ lastFired <= at
  /\ tick # None => lastFired <= tick /\ (loop = "scheduled" => at <= tick)

\* A minute up to lastFired was fired once more than in the lives before.
OnceInv == \A m \in Minutes : fires[m] <= restarts + IF m <= lastFired THEN 1 ELSE 0

\* What is loaded of an undisturbed schedule is what the table holds.
AgreeInv == /\ loop = "select" => reading = 1
            /\ loop # "select" /\ ~disturbed => SameKeys(reading, sch, table)

\* So is what is loaded for a tick of a steady minute; a steady minute that
\* was considered fired or was in blackout; and one that should fire has
\* fired or has its tick.
SteadyInv ==
  /\ loop = "scheduled" /\ at >= steady => SameKeys(reading, sch, table)
  /\ lastFired >= steady => fires[lastFired] > 0 \/ InBlackout(table, lastFired)
  /\ \A m \in Minutes :
       /\ steady <= m /\ m <= now
       /\ MatchesTime(table, m) /\ ~InBlackout(table, m)
       => fires[m] > 0 \/ tick = m \/ (loop = "scheduled" /\ at = m)

SchInv == SchTypeOK /\ OrderInv /\ OnceInv /\ AgreeInv /\ SteadyInv

LEMMA UnsetIsSchedule == Unset \in Schedule
  BY SchedulerAssumption DEF Unset, Schedule, TimeOfDay

\* Copying a key makes a schedule,
LEMMA CopyKeyType ==
  ASSUME NEW i \in 1 .. 6, NEW s \in Schedule, NEW t \in Schedule
  PROVE  CopyKey(i, s, t) \in Schedule
  BY DEF CopyKey, Schedule

\* and one key more is the same.
LEMMA CopyKeySame ==
  ASSUME NEW i \in 1 .. 6, NEW s \in Schedule, NEW t \in Schedule, SameKeys(i, t, s)
  PROVE  SameKeys(i + 1, CopyKey(i, s, t), s)
  BY DEF CopyKey, Schedule, SameKeys

\* With all keys the same the decisions are the same.
LEMMA SameDecision ==
  ASSUME NEW s, NEW t, SameKeys(7, s, t), NEW m
  PROVE  /\ MatchesTime(s, m) <=> MatchesTime(t, m)
         /\ InBlackout(s, m) <=> InBlackout(t, m)
  BY DEF SameKeys, MatchesTime, InBlackout

-----------------------------------------------------------------------------
LEMMA InitSchInv == Init => SchInv
<1> SUFFICES ASSUME Init PROVE SchInv
  OBVIOUS
<1>1. SchTypeOK
  <2>1. mixed \in BOOLEAN /\ disturbed \in BOOLEAN
    BY Zenon DEF Init
  <2>2. QED
    BY <2>1, SchedulerAssumption, UnsetIsSchedule DEF Init, SchTypeOK, Minutes, None
<1>2. OrderInv /\ OnceInv /\ AgreeInv
  BY SchedulerAssumption DEF Init, OrderInv, OnceInv, AgreeInv, Minutes, None
<1>3. SteadyInv
  BY SchedulerAssumption DEF Init, SteadyInv, Minutes, None
<1>4. QED
  BY <1>1, <1>2, <1>3 DEF SchInv

\* Types, a step per action.
LEMMA TypeStep == SchTypeOK /\ [Next]_vars => SchTypeOK'
<1> SUFFICES ASSUME SchTypeOK, [Next]_vars PROVE SchTypeOK'
  OBVIOUS
<1> USE SchedulerAssumption, UnsetIsSchedule DEF SchTypeOK, Minutes, None
<1>1. ASSUME NEW s \in Schedules, Deliver(s) PROVE SchTypeOK'
  BY <1>1 DEF Deliver, loopVars
<1>2. CASE WriteKey
  <2>1. table' \in Schedule
    BY <1>2, CopyKeyType, writing \in 1 .. 6 DEF WriteKey
  <2>2. writing' \in 0 .. 6 /\ sent' \in Schedule
    BY <1>2 DEF WriteKey, NextKey
  <2>3. mixed' \in BOOLEAN /\ disturbed' \in BOOLEAN /\ steady' \in Nat
    <3>1. CASE table' = table
      BY <1>2, <3>1 DEF WriteKey
    <3>2. CASE table' # table
      BY <1>2, <3>2 DEF WriteKey
    <3>3. QED
      BY <3>1, <3>2
  <2>4. QED
    BY <1>2, <2>1, <2>2, <2>3 DEF WriteKey, loopVars
<1>3. CASE Tick
  BY <1>3 DEF Tick, tableVars, loopVars
<1>4. CASE ReceiveTick
  BY <1>4 DEF ReceiveTick, tableVars
<1>5. CASE ReceiveSignal
  BY <1>5 DEF ReceiveSignal, tableVars
<1>6. CASE LoadKey
  <2>1. sch' \in Schedule
    BY <1>6, CopyKeyType, reading \in 1 .. 6 DEF LoadKey
  <2>2. QED
    BY <1>6, <2>1 DEF LoadKey, tableVars
<1>7. CASE DecideScheduled
  <2>1. /\ fires' \in [Minutes -> Nat]
        /\ ran' \in Minutes \cup {None} /\ lastFired' \in Minutes \cup {None}
    BY <1>7 DEF DecideScheduled
  <2>2. QED
    BY <1>7, <2>1 DEF DecideScheduled, EndHandling, tableVars
<1>8. CASE DecideManual
  BY <1>8 DEF DecideManual, EndHandling, tableVars
<1>9. CASE Restart
  BY <1>9 DEF Restart, EndHandling
<1>10. CASE UNCHANGED vars
  BY <1>10 DEF vars, tableVars, loopVars
<1>11. QED
  BY <1>1, <1>2, <1>3, <1>4, <1>5, <1>6, <1>7, <1>8, <1>9, <1>10 DEF Next

LEMMA OrderStep == SchTypeOK /\ OrderInv /\ [Next]_vars => OrderInv'
<1> SUFFICES ASSUME SchTypeOK, OrderInv, [Next]_vars PROVE OrderInv'
  OBVIOUS
<1> USE SchedulerAssumption DEF SchTypeOK, OrderInv, Minutes, None
<1>1. ASSUME NEW s \in Schedules, Deliver(s) PROVE OrderInv'
  BY <1>1 DEF Deliver, loopVars
<1>2. CASE WriteKey
  BY <1>2 DEF WriteKey, loopVars
<1>3. CASE Tick
  BY <1>3 DEF Tick, loopVars
<1>4. CASE ReceiveTick
  BY <1>4 DEF ReceiveTick
<1>5. CASE ReceiveSignal
  BY <1>5 DEF ReceiveSignal
<1>6. CASE LoadKey
  BY <1>6 DEF LoadKey
<1>7. CASE DecideScheduled
  BY <1>7 DEF DecideScheduled, EndHandling
<1>8. CASE DecideManual
  BY <1>8 DEF DecideManual, EndHandling
<1>9. CASE Restart
  BY <1>9 DEF Restart, EndHandling
<1>10. CASE UNCHANGED vars
  BY <1>10 DEF vars, loopVars
<1>11. QED
  BY <1>1, <1>2, <1>3, <1>4, <1>5, <1>6, <1>7, <1>8, <1>9, <1>10 DEF Next

\* Only a scheduled decision and a restart touch what OnceInv is about.
LEMMA OnceStep == SchTypeOK /\ OrderInv /\ OnceInv /\ [Next]_vars => OnceInv'
<1> SUFFICES ASSUME SchTypeOK, OrderInv, OnceInv, [Next]_vars PROVE OnceInv'
  OBVIOUS
<1> USE SchedulerAssumption DEF SchTypeOK, Minutes, None
<1>1. CASE UNCHANGED <<fires, lastFired, restarts>>
  BY <1>1 DEF OnceInv
<1>2. CASE DecideScheduled
  <2>1. CASE MatchesTime(sch, at) /\ ~AlreadyConsidered(at)
    <3>1. lastFired' = at /\ lastFired < at /\ restarts' = restarts
      BY <1>2, <2>1 DEF DecideScheduled, AlreadyConsidered, OrderInv
    <3>2. fires' = fires \/ fires' = [fires EXCEPT ![at] = @ + 1]
      BY <1>2, <2>1 DEF DecideScheduled
    <3>3. QED
      BY <3>1, <3>2 DEF OnceInv
  <2>2. CASE ~(MatchesTime(sch, at) /\ ~AlreadyConsidered(at))
    BY <1>1, <1>2, <2>2 DEF DecideScheduled
  <2>3. QED
    BY <2>1, <2>2
<1>3. CASE Restart
  BY <1>3 DEF Restart, OnceInv, OrderInv
<1>4. QED
  BY <1>1, <1>2, <1>3
     DEF Next, vars, Deliver, WriteKey, Tick, ReceiveTick, ReceiveSignal, LoadKey,
         DecideManual, loopVars

LEMMA AgreeStep == SchTypeOK /\ AgreeInv /\ [Next]_vars => AgreeInv'
<1> SUFFICES ASSUME SchTypeOK, AgreeInv, [Next]_vars PROVE AgreeInv'
  OBVIOUS
<1> USE DEF SchTypeOK
<1>1. CASE UNCHANGED <<table, disturbed, loop, reading, sch>>
  BY <1>1 DEF AgreeInv, SameKeys
<1>2. CASE WriteKey
  <2>1. UNCHANGED <<loop, reading, sch>>
    BY <1>2 DEF WriteKey, loopVars
  <2>2. CASE table' = table
    BY <1>1, <1>2, <2>1, <2>2 DEF WriteKey
  <2>3. CASE table' # table
    <3>1. disturbed'
      BY <1>2, <2>3, Zenon DEF WriteKey
    <3>2. QED
      BY <2>1, <3>1 DEF AgreeInv
  <2>4. QED
    BY <2>2, <2>3
<1>3. CASE ReceiveTick \/ ReceiveSignal
  <2>1. reading' = 1 /\ loop' # "select"
    BY <1>3 DEF ReceiveTick, ReceiveSignal, AgreeInv
  <2>2. SameKeys(1, sch, table)'
    BY DEF SameKeys
  <2>3. QED
    BY <2>1, <2>2 DEF AgreeInv
<1>4. CASE LoadKey
  <2>1. /\ UNCHANGED <<table, disturbed, loop>> /\ loop # "select"
        /\ reading \in 1 .. 6 /\ reading' = reading + 1
        /\ sch' = CopyKey(reading, table, sch)
    BY <1>4 DEF LoadKey, tableVars
  <2>2. ASSUME ~disturbed PROVE SameKeys(reading', sch', table)
    BY <2>1, <2>2, CopyKeySame DEF AgreeInv
  <2>3. QED
    BY <2>1, <2>2 DEF AgreeInv, SameKeys
<1>5. CASE DecideScheduled \/ DecideManual \/ Restart
  BY <1>5 DEF DecideScheduled, DecideManual, Restart, EndHandling, AgreeInv
<1>6. QED
  BY <1>1, <1>2, <1>3, <1>4, <1>5
     DEF Next, vars, Deliver, Tick, tableVars, loopVars

\* A tick is received in the order it was sent, and with a steady minute's
\* tick handled the minute is settled.
LEMMA SteadyStep ==
  SchTypeOK /\ OrderInv /\ AgreeInv /\ SteadyInv /\ [Next]_vars => SteadyInv'
<1> SUFFICES ASSUME SchTypeOK, OrderInv, AgreeInv, SteadyInv, [Next]_vars
             PROVE  SteadyInv'
  OBVIOUS
<1> USE SchedulerAssumption DEF SchTypeOK, Minutes, None
<1>1. CASE UNCHANGED <<table, now, tick, loop, at, reading, sch, lastFired, fires, steady>>
  <2>1. (loop = "scheduled" /\ at >= steady => SameKeys(reading, sch, table))'
    BY <1>1 DEF SteadyInv, SameKeys
  <2>2. (lastFired >= steady => fires[lastFired] > 0 \/ InBlackout(table, lastFired))'
    BY <1>1 DEF SteadyInv
  <2>3. QED
    BY <1>1, <2>1, <2>2 DEF SteadyInv
\* A change of the table and a restart begin a new steady span,
<1>2. ASSUME now' \in Int, lastFired' \in Int, at' \in Int, steady' \in Int, steady' > now',
             lastFired' <= now', loop' = "scheduled" => at' <= now'
      PROVE  SteadyInv'
  <2>1. ~(lastFired' >= steady') /\ (loop' = "scheduled" => ~(at' >= steady'))
    BY <1>2
  <2>2. \A m \in Minutes : ~(steady' <= m /\ m <= now')
    BY <1>2
  <2>3. QED
    BY <2>1, <2>2, Zenon DEF SteadyInv
<1>3. CASE WriteKey
  <2>1. CASE table' = table
    BY <1>1, <1>3, <2>1 DEF WriteKey, loopVars
  <2>2. CASE table' # table
    BY <1>2, <1>3, <2>2 DEF WriteKey, loopVars, OrderInv
  <2>3. QED
    BY <2>1, <2>2
<1>4. CASE Restart
  BY <1>2, <1>4 DEF Restart, EndHandling, OrderInv
\* and so does a lost tick; another one covers the minute it falls in.
<1>5. CASE Tick
  <2>1. UNCHANGED <<table, loop, at, reading, sch, lastFired, fires>>
        /\ now' \in {now, now + 1}
    BY <1>5 DEF Tick, tableVars, loopVars
  <2>2. CASE tick = None
    <3>1. tick' = now' /\ steady' = steady
      BY <1>5, <2>2 DEF Tick
    <3>2. (loop = "scheduled" /\ at >= steady => SameKeys(reading, sch, table))'
      BY <2>1, <3>1 DEF SteadyInv, SameKeys
    <3>3. (lastFired >= steady => fires[lastFired] > 0 \/ InBlackout(table, lastFired))'
      BY <2>1, <3>1 DEF SteadyInv
    <3>4. QED
      BY <2>1, <2>2, <3>1, <3>2, <3>3 DEF SteadyInv
  <2>3. CASE tick # None
    <3>1. now' \in Int /\ steady' = now' + 1
      BY <1>5, <2>3 DEF Tick
    <3>2. steady' \in Int /\ steady' > now'
      <4>1. \A x \in Int : x + 1 \in Int /\ x + 1 > x
        OBVIOUS
      <4>2. QED
        BY <3>1, <4>1, Zenon
    <3>3. lastFired' <= now' /\ (loop' = "scheduled" => at' <= now')
      BY <2>1 DEF OrderInv
    <3>4. QED
      BY <1>2, <2>1, <3>1, <3>2, <3>3
  <2>4. QED
    BY <2>2, <2>3
<1>6. CASE ReceiveTick
  <2>1. /\ UNCHANGED <<table, now, lastFired, fires, steady>>
        /\ loop = "select" /\ loop' = "scheduled" /\ at' = tick /\ reading' = 1
    BY <1>6 DEF ReceiveTick, tableVars, AgreeInv
  <2>2. SameKeys(1, sch, table)'
    BY DEF SameKeys
  <2>3. \A m \in Minutes : m = tick => m = at'
    BY <2>1
  <2>4. QED
    BY <2>1, <2>2, <2>3 DEF SteadyInv, MatchesTime, InBlackout
<1>7. CASE ReceiveSignal
  BY <1>7 DEF ReceiveSignal, tableVars, SteadyInv, MatchesTime, InBlackout
<1>8. CASE LoadKey
  <2>1. /\ UNCHANGED <<table, now, tick, loop, at, lastFired, fires, steady>>
        /\ reading \in 1 .. 6 /\ reading' = reading + 1
        /\ sch' = CopyKey(reading, table, sch)
    BY <1>8 DEF LoadKey, tableVars
  <2>2. ASSUME loop = "scheduled", at >= steady
        PROVE  SameKeys(reading', sch', table)
    BY <2>1, <2>2, CopyKeySame DEF SteadyInv
  <2>3. loop' = "scheduled" /\ at' >= steady' => SameKeys(reading, sch, table)'
    BY <2>1, <2>2 DEF SameKeys
  <2>4. QED
    BY <2>1, <2>3 DEF SteadyInv, MatchesTime, InBlackout
<1>9. CASE DecideScheduled
  <2>1. /\ UNCHANGED <<table, now, tick, steady>>
        /\ loop = "scheduled" /\ loop' = "select" /\ reading = 7
    BY <1>9 DEF DecideScheduled, EndHandling, tableVars
  <2>2. at >= steady =>
          /\ MatchesTime(sch, at) <=> MatchesTime(table, at)
          /\ InBlackout(sch, at) <=> InBlackout(table, at)
    BY <2>1, SameDecision DEF SteadyInv
  <2>3. \A m \in Minutes : fires'[m] \in Nat /\ fires'[m] >= fires[m]
    BY <1>9 DEF DecideScheduled
  \* The minute decided upon is settled.
  <2>4. ASSUME at >= steady, MatchesTime(table, at), ~InBlackout(table, at)
        PROVE  fires'[at] > 0
    <3>1. CASE AlreadyConsidered(at)
      BY <2>3, <2>4, <3>1 DEF SteadyInv, AlreadyConsidered
    <3>2. CASE ~AlreadyConsidered(at)
      <4>1. fires' = [fires EXCEPT ![at] = @ + 1]
        BY <1>9, <2>2, <2>4, <3>2 DEF DecideScheduled
      <4>2. QED
        BY <4>1
    <3>3. QED
      BY <3>1, <3>2
  <2>5. lastFired' >= steady => fires'[lastFired'] > 0 \/ InBlackout(table, lastFired')
    <3>1. CASE lastFired' = lastFired
      BY <2>3, <3>1 DEF SteadyInv
    <3>2. CASE lastFired' # lastFired
      <4>1. lastFired' = at
            /\ (InBlackout(sch, at) \/ fires' = [fires EXCEPT ![at] = @ + 1])
        BY <1>9, <3>2 DEF DecideScheduled
      <4>2. QED
        BY <2>2, <4>1
    <3>3. QED
      BY <3>1, <3>2
  <2>6. \A m \in Minutes :
          /\ steady <= m /\ m <= now
          /\ MatchesTime(table, m) /\ ~InBlackout(table, m)
          => fires'[m] > 0 \/ tick = m
    BY <2>1, <2>3, <2>4 DEF SteadyInv
  <2>7. QED
    BY <2>1, <2>5, <2>6 DEF SteadyInv, MatchesTime, InBlackout
<1>10. CASE DecideManual
  BY <1>10 DEF DecideManual, EndHandling, tableVars, SteadyInv, MatchesTime, InBlackout
<1>11. QED
  BY <1>1, <1>3, <1>4, <1>5, <1>6, <1>7, <1>8, <1>9, <1>10
     DEF Next, vars, Deliver, tableVars, loopVars

\* SchInv is inductive.
THEOREM SchInvHolds == Spec => []SchInv
<1>1. SchInv /\ [Next]_vars => SchInv'
  BY TypeStep, OrderStep, OnceStep, AgreeStep, SteadyStep DEF SchInv
<1>2. QED
  BY <1>1, InitSchInv, PTL DEF Spec

\* Every reachable state of the scheduler is well typed.
THEOREM TypeCorrect == Spec => []SchTypeOK
  BY SchInvHolds, PTL DEF SchInv

\* AtMostOnce (main.go:246-249): a minute fires once in the life of a process,
\* whatever schedules arrive and whatever the order of ticks and signals.
THEOREM FiresOnce == Spec => []AtMostOnce
<1>1. SchInv => AtMostOnce
  BY SchedulerAssumption
     DEF SchInv, SchTypeOK, OnceInv, AtMostOnce, Minutes, None
<1>2. QED
  BY <1>1, SchInvHolds, PTL

\* NoneMissed (main.go:224-231): the ticks of a minute handled, it has fired if
\* the schedule it was steady with says so.
THEOREM NoneIsMissed == Spec => []NoneMissed
<1>1. SchInv => NoneMissed
  <2> SUFFICES ASSUME SchInv, loop = "select", tick = None,
                      NEW m \in steady .. now,
                      MatchesTime(table, m), ~Covers(table, m)
               PROVE  fires[m] > 0
    BY DEF NoneMissed
  <2>1. m \in Minutes /\ m \in Nat /\ steady <= m /\ m <= now /\ m # None
    BY SchedulerAssumption DEF SchInv, SchTypeOK, Minutes, None
  <2>2. ~InBlackout(table, m)
    BY <2>1, WindowIsMeant DEF SchInv, SchTypeOK
  <2>3. QED
    BY <2>1, <2>2 DEF SchInv, SteadyInv
<1>2. QED
  BY <1>1, SchInvHolds, PTL

\* BlackoutKept (schedule.go:104-118, main.go:251-255, 264-268): neither the
\* schedule nor a signal triggers a cycle in a blackout window, through
\* midnight or not, if the schedule was not being replaced.
THEOREM BlackoutObeyed == Spec => BlackoutKept
<1>1. SchInv /\ [Next]_vars
      => [ran' # ran /\ ran' # None /\ ~disturbed => ~Covers(table, ran')]_vars
  <2> SUFFICES ASSUME SchInv, Next, ran' # ran, ran' # None, ~disturbed
               PROVE  ~Covers(table, ran')
    OBVIOUS
  <2>1. \/ DecideScheduled /\ ran' = at /\ ~InBlackout(sch, at)
        \/ DecideManual /\ ran' = now /\ ~InBlackout(sch, now)
    BY DEF Next, Deliver, WriteKey, Tick, ReceiveTick, ReceiveSignal, LoadKey,
           DecideScheduled, DecideManual, Restart
  <2>2. loop # "select" /\ reading = 7
    BY <2>1 DEF DecideScheduled, DecideManual
  <2>3. SameKeys(7, sch, table)
    BY <2>2 DEF SchInv, AgreeInv
  <2>4. ~InBlackout(table, ran')
    BY <2>1, <2>3, SameDecision
  <2>5. ran' \in Nat /\ table \in Schedule
    BY <2>1, SchedulerAssumption DEF SchInv, SchTypeOK, Minutes
  <2>6. QED
    BY <2>4, <2>5, WindowIsMeant
<1>2. QED
  BY <1>1, SchInvHolds, PTL DEF Spec, BlackoutKept
=============================================================================
