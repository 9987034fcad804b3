---------------------------- MODULE SchedulerMC ----------------------------
(* A day of four minutes, a week of two days, and schedules whose blackout *)
(* windows lie within a day and across midnight.                           *)
EXTENDS Scheduler

TwoSchedules ==
  {[enabled |-> TRUE, days |-> {0, 1}, time |-> 3,
    blackoutEnabled |-> TRUE, blackoutFrom |-> 2, blackoutTo |-> 3],
   [enabled |-> TRUE, days |-> {1}, time |-> 0,
    blackoutEnabled |-> TRUE, blackoutFrom |-> 3, blackoutTo |-> 1]}
=============================================================================
