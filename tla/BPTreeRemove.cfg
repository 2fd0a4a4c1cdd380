\* Four records make two leaves.
SPECIFICATION Spec
CONSTANTS
  min_degree = 2
  Keys = {1, 2, 3, 4}
  MaxNodes = 4
  MaxInserts = 4
  MaxFailures = 1
INVARIANT LastPointerIsSibling
CHECK_DEADLOCK FALSE
