SPECIFICATION Spec
CONSTANT
  NoNode = NoNode
INVARIANT
  FindsOwnJoin
CHECK_DEADLOCK FALSE
