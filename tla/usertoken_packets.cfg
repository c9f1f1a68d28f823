SPECIFICATION Spec
CHECK_DEADLOCK FALSE
SYMMETRY Symmetric
CONSTANTS
  LengthSize = 2
  BufferSize = 4
  Streams <- TwoPackets
  Threads = {t1, t2}
  Reader = reader
  Completion = completion
  Nobody = nobody
  PoolCapacity = 1
  MaxCreated = 4
  MaxMessages = 3
INVARIANTS MessagesWhole SentInOrder SendTurn
