SPECIFICATION FairSpec
CONSTANTS
  Cycles = {c1, c2}
  MaxFlips = 1
  MaxRestarts = 0
  Faults = {"attach", "load", "eject", "mount"}
  RawDevice = TRUE
  EventCap = 2
CHECK_DEADLOCK FALSE
PROPERTIES SyncUnblocked
