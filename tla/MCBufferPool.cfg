CONSTANTS
  NoThread = NoThread
  Getters = {g1, g2}
  Droppers = {d1, d2}
  Limits <- PoolLimits
  MaxSpaces = 3
  MaxUse = 2
  MaxThreads = 3
SPECIFICATION MCSpec
INVARIANTS
  TypesOK
  NoSleepingGetter
  AssertsHold
  ThreadsCounted
PROPERTIES
  PoolSpec
