SPECIFICATION Spec
CONSTANTS
  b1 = b1
  b2 = b2
  b3 = b3
  Node <- MixedNode
  Kind <- MixedKind
  Flow <- MixedFlow
  JoinOf <- MixedJoin
  Start = "start"
  Fallible = {"y", "S"}
  Batch = {b1, b2}
  MaxTokens = 8
  MaxSteps = 8
  NoNode = NoNode
  NoToken = NoToken
  NoBarrier = NoBarrier
INVARIANTS
  TypeOK
  OneTokenOnePlace
SYMMETRY Symmetry
CHECK_DEADLOCK FALSE
