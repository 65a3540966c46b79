SPECIFICATION KahnSpec
CONSTANTS
  Nodes = {1, 2, 3}
  DepGraphs <- AllGraphs
INVARIANTS
  PoppedInOrder
  VerdictCorrect
PROPERTIES
  Answers
CHECK_DEADLOCK FALSE
