----------------------------- MODULE SendBuffer -----------------------------
(***************************************************************************)
(* The memory that outgoing packets are written to: SendBufferManager,     *)
(* its pool of chunks, the chunk each thread has, the SendBuffers cut from *)
(* chunks, and the FlatBufferWriter that fills one.                        *)
(*                                                                         *)
(* Threads share the pool, which its lock guards, and the reference counts *)
(* of chunks.  Everything else about a chunk is touched by the one thread  *)
(* that has it, so the steps of a call are: up to the first Pop; up to the *)
(* second; PushGlobal of the chunk that was given back; the rest.          *)
(*                                                                         *)
(* A byte is the SendBuffer on whose behalf it was written, and NoBuffer   *)
(* when that one is gone: garbage is not told apart.                       *)
(***************************************************************************)
EXTENDS Integers, Sequences

CONSTANTS Thread,      \* threads that send
          Chunk,       \* bound: SendBufferChunk objects xnew may create
          Buffer,      \* bound: SendBuffer objects alive at a time
          ChunkSize,   \* SEND_BUFFER_CHUNK_SIZE
          AllocSize,   \* what MakeSendBuff asks for
          HeaderSize,  \* sizeof(PacketHeader), where _pos begins
          NoChunk,     \* nullptr
          NoBuffer     \* no SendBuffer

ASSUME SizesFit == /\ HeaderSize \in Nat \ {0} /\ AllocSize \in Nat
                   /\ ChunkSize \in Nat
                   /\ HeaderSize <= AllocSize /\ AllocSize <= ChunkSize
ASSUME NoneApart == NoChunk \notin Chunk /\ NoBuffer \notin Buffer

VARIABLES
  pool,       \* _sendBufferChunks
  created,    \* the chunks that exist
  usedSize,   \* _usedSize of each chunk
  open,       \* _open of each chunk
  bytes,      \* _buffer of each chunk
  owner,      \* _owner of each SendBuffer; NoChunk: there is no such object
  start,      \* where its _buffer begins in the chunk
  writeSize,  \* _writeSize
  local,      \* LSendBufferChunk of each thread
  phase,      \* "idle"; "check": has a chunk; "reset": has changed it
  dying,      \* the chunk whose last reference has died in this thread
  writer,     \* the SendBuffer of the FlatBufferWriter in scope
  pos,        \* its _pos
  crashed     \* "no", or the place of the CRASH that ended the process

chunks  == <<pool, created, usedSize, open, bytes>>
buffers == <<owner, start, writeSize>>
threads == <<local, phase, dying, writer, pos>>
vars    == <<chunks, buffers, threads, crashed>>

Init == /\ pool = <<>>
        /\ created = {}
        /\ usedSize = [c \in Chunk |-> 0]
        /\ open = [c \in Chunk |-> FALSE]
        /\ bytes = [c \in Chunk |-> [i \in 0..(ChunkSize - 1) |-> NoBuffer]]
        /\ owner = [b \in Buffer |-> NoChunk]
        /\ start = [b \in Buffer |-> 0]
        /\ writeSize = [b \in Buffer |-> 0]
        /\ local = [t \in Thread |-> NoChunk]
        /\ phase = [t \in Thread |-> "idle"]
        /\ dying = [t \in Thread |-> NoChunk]
        /\ writer = [t \in Thread |-> NoBuffer]
        /\ pos = [t \in Thread |-> 0]
        /\ crashed = "no"

FreeSize(used) == ChunkSize - used

Pooled == {pool[i] : i \in 1..Len(pool)}

Running(t) == crashed = "no" /\ dying[t] = NoChunk

\* Outside the manager and outside the scope of a writer.
Free(t) == Running(t) /\ phase[t] = "idle" /\ writer[t] = NoBuffer

\* SendBufferManager::Pop, to the end of its lock, or xnew after it
Pop(c) == \/ /\ pool # <<>>
             /\ c = pool[Len(pool)]
             /\ pool' = SubSeq(pool, 1, Len(pool) - 1)
             /\ UNCHANGED created
          \/ /\ pool = <<>>
             /\ c \in Chunk \ created
             /\ created' = created \union {c}
             /\ UNCHANGED pool

\* Mutant: a SendBuffer keeps a plain pointer to its chunk.
ReferencedByThreads(c) == \E t \in Thread : local'[t] = c

\* A chunk lives by the thread that has it and by the buffers cut from it.
Referenced(c) == \/ \E t \in Thread : local'[t] = c
                 \/ \E b \in Buffer : owner'[b] = c

\* The thread lets go of its reference to c; the last one calls the deleter.
Drop(t, c) == dying' = [dying EXCEPT ![t] = IF Referenced(c) THEN NoChunk ELSE c]

\* Mutant: the deleter only reports.
PushNothing(t) ==
  /\ crashed = "no" /\ dying[t] # NoChunk
  /\ dying' = [dying EXCEPT ![t] = NoChunk]
  /\ UNCHANGED <<chunks, buffers, local, phase, writer, pos, crashed>>

\* The deleter of a chunk: back to the pool, under its lock.
PushGlobal(t) ==
  /\ crashed = "no" /\ dying[t] # NoChunk
  /\ pool' = Append(pool, dying[t])
  /\ dying' = [dying EXCEPT ![t] = NoChunk]
  /\ UNCHANGED <<created, usedSize, open, bytes, buffers, local, phase, writer, pos, crashed>>

-----------------------------------------------------------------------------
(* MakeSendBuff: SendBufferManager::Open, with SendBufferChunk::Open and    *)
(* the constructor of the FlatBufferWriter that every caller puts on it     *)

\* lines 85-88; a thread that has a chunk goes on with it
BeginOpen(t) ==
  /\ Free(t)
  /\ phase' = [phase EXCEPT ![t] = "check"]
  /\ IF local[t] = NoChunk
       THEN \E c \in Chunk : Pop(c) /\ local' = [local EXCEPT ![t] = c]
       ELSE UNCHANGED <<pool, created, local>>
  /\ UNCHANGED <<usedSize, open, bytes, buffers, dying, writer, pos, crashed>>

\* Bytes from..from+n-1 of chunk c are written on behalf of b.
Put(c, from, n, b) ==
  bytes' = [bytes EXCEPT ![c] =
              [i \in DOMAIN @ |-> IF i \in from..(from + n - 1) THEN b ELSE @[i]]]

\* SendBufferChunk::Open and the writer; the chunk's members are as given,
\* for they may have been reset in the same step.
Cut(t, isOpen, used) ==
  LET c == local[t]
  IN  IF isOpen \/ AllocSize > FreeSize(used)
        THEN /\ crashed' = IF isOpen THEN "Open" ELSE "nullptr"
             /\ UNCHANGED <<usedSize, open, bytes, buffers, threads>>
        ELSE /\ \E b \in Buffer :
                  /\ owner[b] = NoChunk
                  /\ owner' = [owner EXCEPT ![b] = c]
                  /\ start' = [start EXCEPT ![b] = used]
                  /\ writeSize' = [writeSize EXCEPT ![b] = 0]
                  /\ Put(c, used, HeaderSize, b)
                  /\ writer' = [writer EXCEPT ![t] = b]
             /\ usedSize' = [usedSize EXCEPT ![c] = used]
             /\ open' = [open EXCEPT ![c] = TRUE]
             /\ pos' = [pos EXCEPT ![t] = HeaderSize]
             /\ phase' = [phase EXCEPT ![t] = "idle"]
             /\ UNCHANGED <<local, dying, crashed>>

\* lines 90, 92 and 98: the chunk is open, which is asserted twice, or has room
OpenHere(t) ==
  /\ Running(t) /\ phase[t] = "check"
  /\ open[local[t]] \/ FreeSize(usedSize[local[t]]) >= AllocSize
  /\ Cut(t, open[local[t]], usedSize[local[t]])
  /\ UNCHANGED <<pool, created>>

\* line 94: another chunk; the assignment lets go of the old one
ChangeChunk(t) ==
  /\ Running(t) /\ phase[t] = "check"
  /\ ~open[local[t]] /\ FreeSize(usedSize[local[t]]) < AllocSize
  /\ \E c \in Chunk : Pop(c) /\ local' = [local EXCEPT ![t] = c]
  /\ UNCHANGED owner
  /\ Drop(t, local[t])
  /\ phase' = [phase EXCEPT ![t] = "reset"]
  /\ UNCHANGED <<usedSize, open, bytes, start, writeSize, writer, pos, crashed>>

\* lines 95 and 98
ResetAndOpen(t) ==
  /\ Running(t) /\ phase[t] = "reset"
  /\ Cut(t, FALSE, 0)
  /\ UNCHANGED <<pool, created>>

-----------------------------------------------------------------------------
(* FlatBufferWriter *)

\* Write, Reserve, Insert_ZeroCopy, WriteWString or CopyFBR of n bytes
Write(t, n) ==
  LET b == writer[t]
  IN  /\ Running(t) /\ b # NoBuffer
      /\ IF AllocSize - pos[t] < n
           THEN crashed' = "FlatBufferWriter" /\ UNCHANGED <<bytes, pos>>
           ELSE /\ Put(owner[b], start[b] + pos[t], n, b)
                /\ pos' = [pos EXCEPT ![t] = @ + n]
                /\ UNCHANGED crashed
      /\ UNCHANGED <<pool, created, usedSize, open, buffers, local, phase, dying, writer>>

\* Mutant: the chunk's size is raised by the header only.
CloseChunkHeader(c, n) == /\ usedSize' = [usedSize EXCEPT ![c] = @ + HeaderSize]
                          /\ open' = [open EXCEPT ![c] = FALSE]

\* Mutant: the chunk stays open.
CloseChunkOpen(c, n) == /\ usedSize' = [usedSize EXCEPT ![c] = @ + n]
                        /\ UNCHANGED open

\* SendBufferChunk::Close
CloseChunk(c, n) == /\ usedSize' = [usedSize EXCEPT ![c] = @ + n]
                    /\ open' = [open EXCEPT ![c] = FALSE]

\* The destructor: the header's size, SendBuffer::Close
Close(t) ==
  LET b == writer[t]
      c == owner[b]
  IN  /\ Running(t) /\ b # NoBuffer
      /\ IF AllocSize < pos[t] \/ ~open[c]
           THEN crashed' = "Close" /\ UNCHANGED <<writeSize, usedSize, open, bytes, writer, pos>>
           ELSE /\ writeSize' = [writeSize EXCEPT ![b] = pos[t]]
                /\ CloseChunk(c, pos[t])
                /\ Put(c, start[b], HeaderSize, b)
                /\ writer' = [writer EXCEPT ![t] = NoBuffer]
                /\ pos' = [pos EXCEPT ![t] = 0]
                /\ UNCHANGED crashed
      /\ UNCHANGED <<pool, created, owner, start, local, phase, dying>>

-----------------------------------------------------------------------------
\* The last reference to a SendBuffer dies: in the scope it was made in, in
\* a session's send queue or send event, in any thread.
Release(t, b) ==
  /\ Free(t)
  /\ owner[b] # NoChunk
  /\ \A u \in Thread : writer[u] # b
  /\ owner' = [owner EXCEPT ![b] = NoChunk]
  /\ start' = [start EXCEPT ![b] = 0]
  /\ writeSize' = [writeSize EXCEPT ![b] = 0]
  /\ bytes' = [bytes EXCEPT ![owner[b]] =
                 [i \in DOMAIN @ |-> IF @[i] = b THEN NoBuffer ELSE @[i]]]
  /\ UNCHANGED local
  /\ Drop(t, owner[b])
  /\ UNCHANGED <<pool, created, usedSize, open, phase, writer, pos, crashed>>

\* A thread ends, and with it its LSendBufferChunk; t then stands for another.
ThreadEnd(t) ==
  /\ Free(t)
  /\ local[t] # NoChunk
  /\ local' = [local EXCEPT ![t] = NoChunk]
  /\ UNCHANGED owner
  /\ Drop(t, local[t])
  /\ UNCHANGED <<chunks, start, writeSize, phase, writer, pos, crashed>>

Next == \E t \in Thread :
  \/ BeginOpen(t) \/ OpenHere(t) \/ ChangeChunk(t)
  \/ ResetAndOpen(t) \/ PushGlobal(t)
  \/ \E n \in 1..AllocSize : Write(t, n)
  \/ Close(t)
  \/ \E b \in Buffer : Release(t, b)
  \/ ThreadEnd(t)

Spec == Init /\ [][Next]_vars

-----------------------------------------------------------------------------
(* Properties *)

(* The variables have their types; a chunk never has more in use than it    *)
(* has, nor a writer more written than it asked for.                        *)
TypeOK ==
  /\ pool \in Seq(Chunk) /\ created \subseteq Chunk
  /\ usedSize \in [Chunk -> 0..ChunkSize]
  /\ open \in [Chunk -> BOOLEAN]
  /\ bytes \in [Chunk -> [0..(ChunkSize - 1) -> Buffer \union {NoBuffer}]]
  /\ owner \in [Buffer -> Chunk \union {NoChunk}]
  /\ start \in [Buffer -> Nat]
  /\ writeSize \in [Buffer -> 0..AllocSize]
  /\ local \in [Thread -> Chunk \union {NoChunk}]
  /\ phase \in [Thread -> {"idle", "check", "reset"}]
  /\ dying \in [Thread -> Chunk \union {NoChunk}]
  /\ writer \in [Thread -> Buffer \union {NoBuffer}]
  /\ pos \in [Thread -> 0..AllocSize]

(* As long as anybody has a packet, its bytes are those its own writer put  *)
(* there, whatever is cut from the chunk after it, whoever has the chunk by *)
(* then, and however often it has been through the pool                     *)
(* (SendBuffer.cpp:50-72, 92-96).                                           *)
PacketKept(b) == owner[b] # NoChunk =>
  \A i \in start[b]..(start[b] + writeSize[b] - 1) : bytes[owner[b]][i] = b

BytesKept == \A b \in Buffer : PacketKept(b)

(* Nobody has a chunk that is in the pool or on its way there: no thread,   *)
(* no packet still to be sent.  Nor do two threads have the same            *)
(* (SendBuffer.cpp:101-124).                                                *)
InHand(c) == \/ \E t \in Thread : local[t] = c
             \/ \E b \in Buffer : owner[b] = c

PoolIsIdle ==
  /\ \A c \in Pooled \union {dying[t] : t \in Thread} : c # NoChunk => ~InHand(c)
  /\ \A t, u \in Thread : t # u /\ local[t] # NoChunk => local[t] # local[u]

(* No chunk is lost and none is pooled twice: each that exists is in        *)
(* somebody's hand, in the pool at one place or on its way there in one     *)
(* thread (SendBuffer.cpp:116-124).                                         *)
NoChunkLost ==
  /\ \A c \in created : InHand(c) \/ c \in Pooled \/ \E t \in Thread : dying[t] = c
  /\ \A i, j \in 1..Len(pool) : i # j => pool[i] # pool[j]
  /\ \A t, u \in Thread : dying[t] # NoChunk =>
       dying[t] \notin Pooled /\ (t # u => dying[t] # dying[u])

(* Of the assertions only the writer's own can fire, for a packet that is   *)
(* too large; Open never gives a nullptr, and a chunk from the pool is never*)
(* still open, though the first one a thread takes is not reset             *)
(* (SendBuffer.cpp:23, 53-60, 68, 87-90).                                   *)
AssertionsHold == crashed \in {"no", "FlatBufferWriter"}
=============================================================================
