SPECIFICATION LogFairSpec
CONSTANTS
  LevelOf <- TakingTurns
  MaxLines = 6
  Levels = {1, 3}
  Info = 1
  Cap = 2
CHECK_DEADLOCK FALSE
INVARIANTS ShippedInOrder  OverflowDropsOldest
PROPERTIES BufferDrains
