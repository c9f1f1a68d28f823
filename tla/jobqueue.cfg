CONSTANTS
  Threads = {t1, t2}
  Queues = {q1, q2}
  Jobs = {j1, j2, j3}
  NoQueue = NoQueue
  NoJob = NoJob
  MaxClears = 1
SPECIFICATION MCSpec
INVARIANTS
  OneHolder
  CountExact
PROPERTIES
  ImplementsMailbox
  EveryJobRuns
