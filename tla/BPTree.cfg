\* Nodes of three keys.
SPECIFICATION RegularSpec
CONSTANTS
  min_degree = 2
  Keys = {1, 2, 3}
  MaxNodes = 9
  MaxInserts = 7
  MaxFailures = 1
INVARIANTS
  TypeOK
  SeparatorsHold
  LeavesInChain
  SearchIsExact
  PinsReturned
CHECK_DEADLOCK FALSE
PROPERTY ImplementsIndex
