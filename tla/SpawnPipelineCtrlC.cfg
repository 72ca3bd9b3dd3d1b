SPECIFICATION SpawnSpec
CONSTANTS
  MaxChunks = 1
INVARIANT InterruptedNotCached
CHECK_DEADLOCK FALSE
