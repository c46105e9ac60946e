SPECIFICATION FairSpec
CONSTANTS
  b1 = b1
  b2 = b2
  b3 = b3
  Node <- FlowsNode
  Kind <- FlowsKind
  Flow <- FlowsFlow
  JoinOf <- FlowsJoin
  Start = "start"
  Fallible = {}
  Batch = {b1, b2, b3}
  MaxTokens = 7
  MaxSteps = 9
  NoNode = NoNode
  NoToken = NoToken
  NoBarrier = NoBarrier
INVARIANTS
  CompletedIsQuiet
  JoinsAreMet
  FullJoinFires
  TokensKept
PROPERTIES
  PlaysTokenGame
  Completes
CHECK_DEADLOCK FALSE
