CONSTANTS
  Threads = {1, 2}
  Uses = {"both"}
  MaxDepth = 1
SPECIFICATION Spec
INVARIANT ReadersExcluded
CHECK_DEADLOCK FALSE
