CONSTANTS
  MaxThreadCount = 4
  Priorities <- OnePriority
  NULL = NULL
  sem = sem
  lock = lock
  cond = cond
  Semaphores = {sem}
  Locks = {lock}
  Conditions = {cond}
  InitialValue <- OneSemaphore
  LockOf <- OneLock
  HeapContents <- UsedHeap
  MaxValue = 2
SPECIFICATION SynchFairSpec
INVARIANTS
  QueuesExact
  NoLostWakeup
  MutualExclusion
  WaitAtomic
PROPERTIES
  ThreadsSpec
  SemaphoreProgress
