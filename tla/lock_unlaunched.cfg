CONSTANTS
  Threads = {0, 1}
  Uses = {"write"}
  MaxDepth = 1
SPECIFICATION Spec
INVARIANT WritersExclusive
CHECK_DEADLOCK FALSE
