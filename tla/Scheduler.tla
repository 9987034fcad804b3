----------------------------- MODULE Scheduler -----------------------------
(***************************************************************************)
(* The scheduler in main's loop (main.go), the schedule it loads from the  *)
(* config table (internal/schedule/schedule.go) and the heartbeat that     *)
(* writes it there, one key after the other (internal/agent/heartbeat.go). *)
(* Load reads the keys one after the other as well, so it may see a mix.   *)
(*                                                                         *)
(* Time is counted in minutes of the schedule's zone. Of the ticks, sent   *)
(* every 30 s, at least one falls into every minute.                       *)
(***************************************************************************)
EXTENDS Integers

CONSTANTS Day,          \* minutes of a day, 1440 in the program
          Week,         \* days of a week, 7
          Schedules,    \* what the portal may send
          MaxMinute,    \* bound: the last minute
          MaxRestarts   \* bound: restarts of the process

TimeOfDay == 0 .. Day - 1
Schedule == [enabled : BOOLEAN, days : SUBSET (0 .. Week - 1), time : TimeOfDay,
             blackoutEnabled : BOOLEAN, blackoutFrom : TimeOfDay, blackoutTo : TimeOfDay]

ASSUME SchedulerAssumption ==
  /\ Day \in Nat \ {0} /\ Week \in Nat \ {0} /\ MaxMinute \in Nat /\ MaxRestarts \in Nat
  /\ Schedules \subseteq Schedule

Minutes == 0 .. MaxMinute
None == -1

\* Missing values make a disabled schedule (schedule.go:57).
Unset == [enabled |-> FALSE, days |-> {}, time |-> 0,
          blackoutEnabled |-> FALSE, blackoutFrom |-> 0, blackoutTo |-> 0]

\* One key of s put into t, in the order in which the heartbeat writes the
\* keys and Load reads them.
CopyKey(i, s, t) ==
  CASE i = 1 -> [t EXCEPT !.enabled = s.enabled]
    [] i = 2 -> [t EXCEPT !.days = s.days]
    [] i = 3 -> [t EXCEPT !.time = s.time]
    [] i = 4 -> [t EXCEPT !.blackoutEnabled = s.blackoutEnabled]
    [] i = 5 -> [t EXCEPT !.blackoutFrom = s.blackoutFrom]
    [] i = 6 -> [t EXCEPT !.blackoutTo = s.blackoutTo]

VARIABLES
  table,      \* the schedule's keys in the config table
  sent,       \* the schedule the heartbeat is writing
  writing,    \* index of the next key to write, 0 = none
  now,        \* the minute it is
  tick,       \* scheduleTicker.C, of capacity one
  loop,       \* main's loop: "select", "scheduled" or "manual" while it handles one
  at,         \* now, as the tick gives it
  reading,    \* index of the next key to read
  sch,        \* the schedule as loaded so far
  lastFired,  \* lastFiredMinute
  \* history
  fires,      \* [Minutes -> Nat], cycles the scheduler triggered
  ran,        \* the minute in which the last trigger handled started a cycle
  mixed,      \* the table holds keys of different schedules
  disturbed,  \* the table changed, or was mixed, since the load began
  steady,     \* since the start of this minute nothing changed, no tick was
              \* lost and the process was up
  restarts

tableVars == <<table, sent, writing, mixed>>
loopVars  == <<loop, at, reading, sch, lastFired>>
vars == <<tableVars, now, tick, loopVars, fires, ran, disturbed, steady, restarts>>

SchTypeOK ==
  /\ table \in Schedule /\ sent \in Schedule /\ sch \in Schedule
  /\ writing \in 0..6 /\ reading \in 1..7
  /\ now \in Minutes /\ tick \in Minutes \cup {None} /\ at \in Minutes
  /\ loop \in {"select", "scheduled", "manual"}
  /\ lastFired \in Minutes \cup {None} /\ ran \in Minutes \cup {None}
  /\ fires \in [Minutes -> Nat] /\ mixed \in BOOLEAN /\ disturbed \in BOOLEAN
  /\ steady \in Nat /\ restarts \in Nat

Init == /\ table = Unset /\ sent = Unset /\ sch = Unset
        /\ writing = 0 /\ reading = 1 /\ now = 0 /\ tick = None /\ at = 0
        /\ loop = "select" /\ lastFired = None /\ ran = None
        /\ fires = [m \in Minutes |-> 0]
        /\ mixed = FALSE /\ disturbed = FALSE /\ steady = 1 /\ restarts = 0

-----------------------------------------------------------------------------
(* schedule.go                                                             *)

MatchesTime(s, m) == /\ s.enabled
                     /\ (m \div Day) % Week \in s.days
                     /\ m % Day = s.time

\* Mutant: the window is not taken past midnight.
InBlackoutNoWrap(s, m) ==
  s.blackoutEnabled /\ s.blackoutFrom <= m % Day /\ m % Day < s.blackoutTo

\* Mutant: the window's last minute is the one it is said to end at.
InBlackoutClosed(s, m) ==
  s.blackoutEnabled /\ s.blackoutFrom <= m % Day /\ m % Day <= s.blackoutTo

InBlackout(s, m) ==
  /\ s.blackoutEnabled /\ s.blackoutFrom # s.blackoutTo
  /\ IF s.blackoutFrom < s.blackoutTo
     THEN s.blackoutFrom <= m % Day /\ m % Day < s.blackoutTo
     ELSE s.blackoutFrom <= m % Day \/ m % Day < s.blackoutTo

-----------------------------------------------------------------------------
\* A heartbeat's answer carries a schedule; there is one heartbeat at a time.
Deliver(s) ==
  /\ writing = 0
  /\ sent' = s /\ writing' = 1
  /\ UNCHANGED <<table, mixed, now, tick, loopVars, fires, ran, disturbed, steady, restarts>>

NextKey(i) == IF i = 6 THEN 0 ELSE i + 1

\* SetConfig; a change makes this a minute that has seen two schedules.
WriteKey ==
  /\ writing # 0
  /\ table' = CopyKey(writing, sent, table)
  /\ writing' = NextKey(writing) /\ sent' = IF writing = 6 THEN Unset ELSE sent
  /\ IF table' = table
     THEN mixed' = (mixed /\ writing # 6) /\ UNCHANGED <<disturbed, steady>>
     ELSE mixed' = (writing # 6) /\ disturbed' = TRUE /\ steady' = now + 1
  /\ UNCHANGED <<now, tick, loopVars, fires, ran, restarts>>

\* A tick in this minute or the next; dropped when one is waiting already.
Tick ==
  /\ now' \in {now, now + 1} \cap Minutes
  /\ IF tick = None THEN tick' = now' /\ UNCHANGED steady
                    ELSE UNCHANGED tick /\ steady' = now' + 1
  /\ UNCHANGED <<tableVars, loopVars, fires, ran, disturbed, restarts>>

ReceiveTick ==
  /\ loop = "select" /\ tick # None
  /\ loop' = "scheduled" /\ at' = tick /\ tick' = None
  /\ ran' = None /\ disturbed' = mixed
  /\ UNCHANGED <<tableVars, now, reading, sch, lastFired, fires, steady, restarts>>

\* SIGUSR1, by hand or by the portal's trigger_sync.
ReceiveSignal ==
  /\ loop = "select"
  /\ loop' = "manual" /\ ran' = None /\ disturbed' = mixed
  /\ UNCHANGED <<tableVars, now, tick, at, reading, sch, lastFired, fires, steady, restarts>>

LoadKey ==
  /\ loop # "select" /\ reading <= 6
  /\ sch' = CopyKey(reading, table, sch)
  /\ reading' = reading + 1
  /\ UNCHANGED <<tableVars, now, tick, loop, at, lastFired, fires, ran, disturbed, steady, restarts>>

\* Mutant: the minute is not looked at.
AlreadyConsideredNot(m) == FALSE

AlreadyConsidered(m) == m = lastFired

\* The loop waits again; what it read is gone.
EndHandling == loop' = "select" /\ at' = 0 /\ reading' = 1 /\ sch' = Unset

\* A minute is done with once it matched, whether it fired or was in blackout.
DecideScheduled ==
  /\ loop = "scheduled" /\ reading = 7
  /\ IF MatchesTime(sch, at) /\ ~AlreadyConsidered(at)
     THEN /\ lastFired' = at
          /\ IF InBlackout(sch, at)
             THEN UNCHANGED <<fires, ran>>
             ELSE fires' = [fires EXCEPT ![at] = @ + 1] /\ ran' = at
     ELSE UNCHANGED <<lastFired, fires, ran>>
  /\ EndHandling
  /\ UNCHANGED <<tableVars, now, tick, disturbed, steady, restarts>>

\* Unlike a tick's, a signal's time is that of its handling.
DecideManual ==
  /\ loop = "manual" /\ reading = 7
  /\ ran' = IF InBlackout(sch, now) THEN None ELSE now
  /\ EndHandling
  /\ UNCHANGED <<tableVars, now, tick, lastFired, fires, disturbed, steady, restarts>>

\* The process ends and is started again; the table stays as it was.
Restart ==
  /\ restarts < MaxRestarts /\ restarts' = restarts + 1
  /\ writing' = 0 /\ sent' = Unset /\ tick' = None /\ EndHandling /\ lastFired' = None
  /\ ran' = None /\ steady' = now + 1
  /\ UNCHANGED <<table, mixed, now, fires, disturbed>>

Next ==
  \/ \E s \in Schedules : Deliver(s)
  \/ WriteKey \/ Tick \/ ReceiveTick \/ ReceiveSignal \/ LoadKey
  \/ DecideScheduled \/ DecideManual \/ Restart

Spec == Init /\ [][Next]_vars

-----------------------------------------------------------------------------
\* What a blackout window is: so many minutes from its beginning on, across
\* midnight or not.
Covers(s, m) ==
  s.blackoutEnabled /\ (m - s.blackoutFrom) % Day < (s.blackoutTo - s.blackoutFrom) % Day

\* No cycle is triggered in a blackout window, by schedule or by hand, unless
\* the schedule was being replaced or was left half replaced by a restart
\* (main.go:230 "never during a blackout window").
BlackoutKept ==
  [][ran' # ran /\ ran' # None /\ ~disturbed => ~Covers(table, ran')]_vars

\* A scheduled minute fires at most once in the life of a process, whatever
\* schedules arrive in it (main.go:231).
AtMostOnce == \A m \in Minutes : fires[m] <= 1 + restarts

\* Nor is one missed: once the ticks of a steady minute are handled it has
\* fired, late or not, if the schedule says so (main.go:231 "exactly once").
NoneMissed ==
  loop = "select" /\ tick = None =>
    \A m \in steady .. now :
      MatchesTime(table, m) /\ ~Covers(table, m) => fires[m] > 0
=============================================================================
