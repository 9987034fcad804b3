SPECIFICATION FairSpec
CONSTANTS
  Files = {f1, f2}
  Limit = 1
  MaxChanges = 2
  MaxClock = 3
  MaxSteps = 1
  MaxRestarts = 1
CHECK_DEADLOCK FALSE
INVARIANTS PendingIsSelected
PROPERTIES BacklogTrickles
