SPECIFICATION Spec
CONSTANTS
  Day = 4
  Week = 2
  Schedules <- TwoSchedules
  MaxMinute = 5
  MaxRestarts = 1
CHECK_DEADLOCK FALSE
INVARIANTS AtMostOnce NoneMissed
PROPERTIES BlackoutKept
