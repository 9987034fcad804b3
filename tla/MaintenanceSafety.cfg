SPECIFICATION Spec
CONSTANTS
  Cycles = {c1, c2}
  MaxFlips = 2
  MaxRestarts = 1
  Faults = {"attach", "load", "eject", "mount"}
  RawDevice = FALSE
  EventCap = 1
CHECK_DEADLOCK FALSE
SYMMETRY Symm
INVARIANTS MTypeOK TransientOwned SingleWriterAccounted RestsPresented HostServedAccounted
