SPECIFICATION ServicesSpec
CONSTANTS
  t1 = t1
  t2 = t2
  q1 = q1
  q2 = q2
  j1 = j1
  j2 = j2
  j3 = j3
  Threads = {t1, t2}
  Queues = {q1, q2}
  Jobs = {j1, j2, j3}
  OwnerOf <- MCOwnerOf
  BoundJobs <- MCBoundJobs
  NoJob = NoJob
  Delays = {0, 1}
  MaxTick = 1
  MaxClears = 1
  Workers = {t1, t2}
  Blocks = {b1, b2, b3}
  Requests = {1000, 1024, 4097}
  ObjectSize <- MCObjectSize
  NoBlock = NoBlock
  Borrowers = {u1, u2}
  Conns = {c1}
  NoConn = NoConn
  Shapes <- MCShapes
INVARIANTS
  InOrder
  OnceEach
  AssertionsHold
  RequestFits
  CountersSettle
  ConnectionInOneHand
  OwnBindings
PROPERTIES
  TimerFires
