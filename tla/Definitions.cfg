SPECIFICATION Spec
CONSTANTS
  p = p
  i1 = i1
  i2 = i2
  c1 = c1
  c2 = c2
  Id = {p}
  Inst = {i1, i2}
  Call = {c1, c2}
  MaxKeys = 2
  MaxFailures = 1
  MaxRestarts = 1
  NoKey = NoKey
  NoId = NoId
SYMMETRY Symmetry
INVARIANTS Consistent InstancesKeepDefinition DeletedStaysDeleted
PROPERTIES RestartKeepsOrder
CHECK_DEADLOCK FALSE
