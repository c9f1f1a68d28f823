CONSTANTS
  Threads = {t1, t2, t3}
  Messages = {m1, m2, m3}
  NoThread = NoThread
SPECIFICATION FairSpec
INVARIANTS
  SendTurn
  RecvTurn
  EventsOwned
  SentInOrder
  ReleaseFindsSession
PROPERTIES
  KernelBuffersKept
  ImplementsLife
  DisconnectedIsReleased
  MessageIsSent
CHECK_DEADLOCK FALSE
