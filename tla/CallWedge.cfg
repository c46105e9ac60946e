SPECIFICATION Spec
CONSTANTS
  Def <- AllDef
  Plan <- AllPlan
  Root <- AllRoots
  Call = {c1, c2}
  MaxRoots = 1
  MaxInst = 3
  MayFail = FALSE
  MaySuspend = FALSE
  Persistent = TRUE
  NoInst = NoInst
  NoBranch = NoBranch
  NoDef = NoDef
INVARIANTS NoBatchWedged
CHECK_DEADLOCK FALSE
