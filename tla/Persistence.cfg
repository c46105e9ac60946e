SPECIFICATION Spec
CONSTANTS
  i1 = i1
  t1 = t1
  t2 = t2
  c1 = c1
  c2 = c2
  loop = loop
  Instance = {i1}
  Token = {t1, t2}
  InstOf <- BranchInstOf
  Route <- TaskRoute
  First <- BranchFirst
  BoundaryAt = {2}
  Terminating = {t2}
  Call = {c1, loop}
  Loop = loop
  InlineRetries = 1
  MaxRetries = 1
  MaxFailures = 3
  Frail <- BranchFrail
  MaxCrashes = 1
  MaxCopies = 1
  NoJob = NoJob
INVARIANTS
  TypeOK
  StoreFollowsMemory
  NoWorkRepeated
  WaitsCanEnd
CHECK_DEADLOCK FALSE
