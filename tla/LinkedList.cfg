SPECIFICATION NodesSpec
CONSTANTS
  Elems = {a, b}
  Nodes <- FiveNodes
  Null = Null
INVARIANTS
  WellFormed
  AnswersForSequence
PROPERTIES
  ImplementsList
CHECK_DEADLOCK FALSE
