SPECIFICATION FairSpec
CONSTANTS
  i1 = i1
  i2 = i2
  k1 = k1
  k2 = k2
  t1 = t1
  t2 = t2
  t3 = t3
  w1 = w1
  w2 = w2
  c1 = c1
  c2 = c2
  a = a
  b = b
  Instance = {i1}
  Token = {k1}
  InstOf <- OneInstOf
  Task = {t1, t2}
  Topic = {a}
  Worker = {w1, w2}
  Call = {c1}
  MaxLease = 1
  MaxTasks = 2
  MinRetries = 0
  InitialRetries = 1
  RetryArg = {0}
  PersistenceMayFail = TRUE
  Reliable = {w1}
  NoTask = NoTask
  NoWorker = NoWorker
PROPERTY
  EveryTokenMovesOn
CHECK_DEADLOCK FALSE
