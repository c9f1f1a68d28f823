CONSTANTS
  la = la
  lb = lb
  lc = lc
  Locks = {la, lb, lc}
  LockThreads = {t1, t2, t3}
  NameOf <- OwnNames
  MaxDepth = 3
  NoThread = NoThread
  CycleFound <- CheckCycleCrashes
SYMMETRY ThreadSymmetry
SPECIFICATION ProfilerSpec
INVARIANTS
  OrderIsRecorded
  DeadlockLeavesCycle
CHECK_DEADLOCK FALSE
