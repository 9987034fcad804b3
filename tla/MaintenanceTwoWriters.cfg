SPECIFICATION Spec
CONSTANTS
  Cycles = {c1}
  MaxFlips = 2
  MaxRestarts = 0
  Faults = {}
  RawDevice = FALSE
  EventCap = 4
CHECK_DEADLOCK FALSE
SYMMETRY Symm
INVARIANTS SingleWriter
