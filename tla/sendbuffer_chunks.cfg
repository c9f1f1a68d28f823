CONSTANTS
  Thread = {t1, t2}
  Chunk = {c1, c2, c3}
  Buffer = {b1, b2, b3}
  ChunkSize = 4
  AllocSize = 2
  HeaderSize = 1
  NoChunk = NoChunk
  NoBuffer = NoBuffer
SPECIFICATION Spec
SYMMETRY Symmetry
INVARIANTS
  BytesKept
  PoolIsIdle
  NoChunkLost
  AssertionsHold
CHECK_DEADLOCK FALSE
