CONSTANTS
  Node = {1, 2, 3, 4, 5, 6, 7}
  Pair <- MCPair
SPECIFICATION FairForestSpec
INVARIANTS
  ClassesAreComponents
PROPERTY AssignmentEnds
CHECK_DEADLOCK FALSE
