CONSTANTS
  la = la
  lb = lb
  lc = lc
  Locks = {la, lb, lc}
  LockThreads = {t1, t2}
  NameOf <- OwnNames
  MaxDepth = 2
  NoThread = NoThread
  CycleFound <- CheckCycleCrashes
SPECIFICATION ProfilerSpec
INVARIANT CycleIsReported
CHECK_DEADLOCK FALSE
