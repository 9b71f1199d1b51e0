CONSTANTS
  MaxThreadCount = 3
  Priorities <- OnePriority
  NULL = NULL
  None = None
  Thread <- TheThreads
  Lock <- TheLocks
  Condition <- TheConditions
  Tests <- TheTests
  Rounds <- TheRounds
  MAX_PRODUCT = 2
  barrierSize = 4
SPECIFICATION MCSpec
INVARIANT CarcassKept
