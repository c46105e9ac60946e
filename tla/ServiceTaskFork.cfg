SPECIFICATION Spec
CONSTANTS
  i1 = i1
  i2 = i2
  k1 = k1
  k2 = k2
  t1 = t1
  t2 = t2
  t3 = t3
  w1 = w1
  w2 = w2
  c1 = c1
  c2 = c2
  a = a
  b = b
  Instance = {i1}
  Token = {k1, k2}
  InstOf <- ForkInstOf
  Task = {t1, t2, t3}
  Topic = {a}
  Worker = {w1, w2}
  Call = {c1, c2}
  MaxLease = 2
  MaxTasks = 1
  MinRetries = 0
  InitialRetries = 2
  RetryArg = {0}
  PersistenceMayFail = TRUE
  Reliable = {w1}
  NoTask = NoTask
  NoWorker = NoWorker
INVARIANTS
  TypeOK
  OneTokenOnePlace
  ParkedTokenHasTask
  CompletedIsQuiet
  OneTaskPerToken
PROPERTIES
  CompletedIsFinal
  UnexpiredLockNotStolen
  ImplementsTokenLife
SYMMETRY Symmetry
CHECK_DEADLOCK FALSE
