CONSTANTS
  Threads = {1, 2, 3}
  Uses = {"write", "read"}
  MaxDepth = 3
SPECIFICATION Spec
INVARIANTS
  WriteCountOwned
  CountsMatch
PROPERTY ImplementsReadWriteLock
CHECK_DEADLOCK FALSE
