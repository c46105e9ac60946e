SPECIFICATION FairSpec
CONSTANTS
  Def <- AllDef
  Plan <- AllPlan
  Root <- AllRoots
  Call = {c1, c2}
  MaxRoots = 1
  MaxInst = 5
  MayFail = TRUE
  MaySuspend = TRUE
  Persistent = FALSE
  NoInst = NoInst
  NoBranch = NoBranch
  NoDef = NoDef
INVARIANTS Consistent NoWakeUpLost
PROPERTIES CallsReturn
CHECK_DEADLOCK FALSE
