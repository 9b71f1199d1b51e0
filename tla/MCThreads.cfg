CONSTANTS
  MaxThreadCount = 4
  Priorities <- TwoPriorities
  NULL = NULL
  None = None
  Thread <- TheThreads
  Lock <- TheLocks
  Condition <- TheConditions
  Tests <- TheTests
  Rounds <- TheRounds
  MAX_PRODUCT = 2
  barrierSize = 4
SPECIFICATION MCSpec
INVARIANTS
  ThreadsInv
  ReadersExcludeWriters
  NobodyPassesEarly
  PoolWithinBounds
PROPERTIES
  OnlyFinishedFreed
  DispatchesBest
  RunsUnlessOutranked
  Terminates
