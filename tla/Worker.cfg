SPECIFICATION FairSpec
CONSTANTS
  Task = {t1}
  Worker = {w1, w2}
  Loop = {l1, l2}
  Slot = {s1, s2}
  MaxTasks = 1
  LockDuration = 4
  ExtendEvery = 1
  MaxLatency = 1
  MaxRetries = 1
  BaseDelay = 1
  MaxDelay = 1
  MaxLosses = 1
  MaxStarts = 2
  MaxCrashes = 1
  Unstable = {w1}
  AutoExtend = {w2}
  NoWorker = NoWorker
  NoTask = NoTask
INVARIANTS Consistent StopIsClean
PROPERTIES EveryTaskIsDecided StopReturns
CHECK_DEADLOCK FALSE
