-------------------------- MODULE SendBufferProofs --------------------------
(***************************************************************************)
(* Proofs about SendBuffer, for any threads, chunks and buffers and any    *)
(* sizes of chunk, allocation and header that fit.                         *)
(***************************************************************************)
EXTENDS SendBuffer, SequenceTheorems, TLAPS

(* A chunk is known to exist wherever it turns up, and is at one place.     *)
Created == /\ \A t \in Thread : local[t] # NoChunk => local[t] \in created
           /\ \A b \in Buffer : owner[b] # NoChunk => owner[b] \in created
           /\ \A i \in 1..Len(pool) : pool[i] \in created
           /\ \A t \in Thread : dying[t] # NoChunk => dying[t] \in created

Homes == Created /\ PoolIsIdle /\ NoChunkLost

(* A thread inside Open has a chunk, a new one has no packets in it, and    *)
(* only outside is there a writer.                                          *)
Phases == \A t \in Thread :
  /\ phase[t] # "idle" => local[t] # NoChunk /\ writer[t] = NoBuffer
  /\ phase[t] = "reset" => \A b \in Buffer : owner[b] # local[t]

(* A writer writes at the end of what is used of its thread's chunk.        *)
Writing(t) == LET b == writer[t]
                  c == local[t]
              IN  /\ c # NoChunk /\ owner[b] = c /\ open[c]
                  /\ start[b] = usedSize[c] /\ writeSize[b] = 0
                  /\ start[b] + AllocSize <= ChunkSize
                  /\ HeaderSize <= pos[t]
                  /\ \A i \in start[b]..(start[b] + pos[t] - 1) : bytes[c][i] = b

Writers == \A t \in Thread : writer[t] # NoBuffer => Writing(t)

(* A chunk is open only while its thread's writer is in scope.              *)
OpenWhile == \A c \in Chunk : open[c] =>
  \E t \in Thread : local[t] = c /\ writer[t] # NoBuffer

(* A finished packet lies in the used part of its chunk.                    *)
InUsedPart == \A b \in Buffer : owner[b] # NoChunk =>
  start[b] + writeSize[b] <= usedSize[owner[b]]

IInv == /\ TypeOK /\ Homes /\ Phases /\ Writers /\ OpenWhile /\ InUsedPart
        /\ BytesKept /\ AssertionsHold

-----------------------------------------------------------------------------
(* A sequence without its last element.                                     *)
LEMMA Shortened ==
  ASSUME NEW S, NEW s \in Seq(S), s # <<>>
  PROVE  LET f == SubSeq(s, 1, Len(s) - 1)
         IN  /\ f \in Seq(S) /\ Len(f) = Len(s) - 1
             /\ \A i \in 1..Len(f) : f[i] = s[i]
<1>1. /\ Len(s) \in Nat /\ Len(s) > 0
      /\ \A i \in 1..(Len(s) - 1) : s[i] \in S
  OBVIOUS
<1>2. /\ SubSeq(s, 1, Len(s) - 1) \in Seq(S)
      /\ Len(SubSeq(s, 1, Len(s) - 1)) = Len(s) - 1
  <2>1. PICK n \in Nat : n = Len(s) - 1
    <3>1. Len(s) - 1 \in Nat
      BY <1>1
    <3>2. QED
      BY <3>1, Zenon
  <2>2. \A i \in 1..n : s[i] \in S
    BY <1>1, <2>1
  <2>3. SubSeq(s, 1, n) \in Seq(S) /\ Len(SubSeq(s, 1, n)) = IF 1 <= n THEN n - 1 + 1 ELSE 0
    BY <2>2, SubSeqProperties
  <2>4. QED
    BY <2>1, <2>3
<1>3. \A i \in 1..(Len(s) - 1) : SubSeq(s, 1, Len(s) - 1)[i] = s[i]
  BY <1>1, SMTT(20)
<1>4. QED
  BY <1>1, <1>2, <1>3

(* What Pop gives: a chunk nobody had, and the pool without it.             *)
LEMMA PopGives ==
  ASSUME TypeOK, Homes, NEW c, Pop(c)
  PROVE  /\ c \in Chunk /\ ~InHand(c)
         /\ \A t \in Thread : dying[t] # c
         /\ created' = created \union {c} /\ pool' \in Seq(Chunk)
         /\ c \notin Pooled' /\ Pooled' \subseteq Pooled
         /\ \A d \in Pooled : d # c => d \in Pooled'
         /\ \A i, j \in 1..Len(pool') : i # j => pool'[i] # pool'[j]
         /\ \A i \in 1..Len(pool') : pool'[i] \in Pooled'
<1> USE NoneApart
<1>1. CASE pool # <<>> /\ c = pool[Len(pool)]
           /\ pool' = SubSeq(pool, 1, Len(pool) - 1) /\ created' = created
  <2>1. /\ pool \in Seq(Chunk) /\ Len(pool) \in Nat /\ Len(pool) > 0
        /\ \A i \in 1..Len(pool) : pool[i] \in Chunk
    BY <1>1 DEF TypeOK
  <2>2. /\ pool' \in Seq(Chunk) /\ Len(pool') = Len(pool) - 1
        /\ \A i \in 1..Len(pool') : pool'[i] = pool[i]
    BY <1>1, <2>1, Shortened
  <2>3. c \in Pooled /\ c \in Chunk /\ c \in created
    BY <1>1, <2>1 DEF Pooled, Homes, Created
  <2>4. ~InHand(c) /\ \A t \in Thread : dying[t] # c
    BY <2>3 DEF Homes, PoolIsIdle, NoChunkLost
  <2>5. \A i, j \in 1..Len(pool) : i # j => pool[i] # pool[j]
    BY DEF Homes, NoChunkLost
  <2>6. Pooled' = {pool[i] : i \in 1..(Len(pool) - 1)}
    BY <2>2 DEF Pooled
  <2>9. c \notin Pooled' /\ Pooled' \subseteq Pooled
    BY <1>1, <2>1, <2>5, <2>6 DEF Pooled
  <2>7. \A d \in Pooled : d # c => d \in Pooled'
    BY <1>1, <2>1, <2>6 DEF Pooled
  <2>8. /\ \A i, j \in 1..Len(pool') : i # j => pool'[i] # pool'[j]
        /\ \A i \in 1..Len(pool') : pool'[i] \in Pooled'
    BY <2>1, <2>2, <2>5, <2>6
  <2>10. QED
    BY <1>1, <2>2, <2>3, <2>4, <2>7, <2>8, <2>9
<1>2. CASE pool = <<>> /\ c \in Chunk \ created
           /\ created' = created \union {c} /\ pool' = pool
  <2>1. ~InHand(c) /\ \A t \in Thread : dying[t] # c
    BY <1>2 DEF Homes, Created, InHand
  <2>2. Pooled = {} /\ Pooled' = {} /\ Len(pool') = 0
    BY <1>2 DEF Pooled
  <2>3. QED
    BY <1>2, <2>1, <2>2 DEF TypeOK
<1>3. QED
  BY <1>1, <1>2 DEF Pop

(* A thread lets go of chunk old, if it has one, and may have taken others  *)
(* from the pool or made them: nothing is lost by it, and what goes to the  *)
(* pool is in nobody's hand.                                                *)
LEMMA LetGo ==
  ASSUME IInv, NEW t \in Thread, NEW old \in Chunk \union {NoChunk},
         NEW got \in SUBSET Chunk,
         dying[t] = NoChunk, Drop(t, old),
         old # NoChunk => InHand(old),
         \A d \in got : ~InHand(d) /\ InHand(d)' /\ \A u \in Thread : dying[u] # d,
         \A d \in Chunk : InHand(d)' => InHand(d) \/ d \in got,
         \A d \in Chunk : InHand(d) /\ d # old => InHand(d)',
         \A u, v \in Thread : u # v /\ local'[u] # NoChunk => local'[u] # local'[v],
         created' = created \union got, pool' \in Seq(Chunk),
         Pooled' \subseteq Pooled \ got, Pooled \subseteq Pooled' \union got,
         \A i, j \in 1..Len(pool') : i # j => pool'[i] # pool'[j]
  PROVE  PoolIsIdle' /\ NoChunkLost'
<1> USE NoneApart
<1>1. /\ dying' \in [Thread -> Chunk \union {NoChunk}]
      /\ \A u \in Thread : u # t => dying'[u] = dying[u]
      /\ dying'[t] = IF InHand(old)' THEN NoChunk ELSE old
  BY DEF Drop, Referenced, InHand, IInv, TypeOK
<1>2. Pooled' \subseteq Chunk /\ Pooled \subseteq Chunk
  BY DEF Pooled, IInv, TypeOK
<1>3. PoolIsIdle
  BY DEF IInv, Homes
<1>4. NoChunkLost
  BY DEF IInv, Homes
<1>5. PoolIsIdle'
  <2>1. \A d \in Pooled' : ~InHand(d)'
    BY <1>2, <1>3 DEF PoolIsIdle
  <2>2. \A u \in Thread : \A d \in Chunk : dying'[u] = d => ~InHand(d)'
    <3>1. \A u \in Thread : \A d \in Chunk : u # t /\ dying'[u] = d => ~InHand(d)'
      BY <1>1, <1>3 DEF PoolIsIdle
    <3>2. \A d \in Chunk : dying'[t] = d => ~InHand(d)'
      BY <1>1
    <3>3. QED
      BY <3>1, <3>2
  <2>3. \A d \in Chunk : d \in Pooled' \union {dying'[u] : u \in Thread} => ~InHand(d)'
    BY <2>1, <2>2
  <2>4. QED
    BY <1>1, <1>2, <2>3 DEF PoolIsIdle
<1>6. NoChunkLost'
  <2>1. ASSUME NEW d \in created'
        PROVE  InHand(d)' \/ d \in Pooled' \/ \E u \in Thread : dying'[u] = d
    <3>1. d \in Chunk
      BY DEF IInv, TypeOK
    <3>2. CASE d \in got
      BY <3>2
    <3>3. CASE d \notin got
      <4>1. InHand(d) \/ d \in Pooled \/ \E u \in Thread : dying[u] = d
        BY <3>3, <1>4 DEF NoChunkLost
      <4>2. (\E u \in Thread : dying[u] = d) => \E u \in Thread : dying'[u] = d
        BY <1>1, <3>1
      <4>3. InHand(d) => InHand(d)' \/ dying'[t] = d
        BY <1>1, <3>1
      <4>4. QED
        BY <3>3, <4>1, <4>2, <4>3
    <3>4. QED
      BY <3>2, <3>3
  <2>2. \A u \in Thread : dying'[u] # NoChunk => dying'[u] \notin Pooled'
    BY <1>1, <1>3, <1>4 DEF PoolIsIdle, NoChunkLost
  <2>3. \A u, v \in Thread : dying'[u] # NoChunk /\ u # v => dying'[u] # dying'[v]
    BY <1>1, <1>3, <1>4 DEF PoolIsIdle, NoChunkLost
  <2>4. QED
    BY <2>1, <2>2, <2>3 DEF NoChunkLost
<1>7. QED
  BY <1>5, <1>6

-----------------------------------------------------------------------------
(* Each action preserves the invariant                                      *)

LEMMA InitInv == Init => IInv
<1> SUFFICES ASSUME Init PROVE IInv
  OBVIOUS
<1> USE SizesFit, NoneApart
<1>1. TypeOK
  BY DEF Init, TypeOK
<1>2. Homes
  BY DEF Init, Homes, Created, PoolIsIdle, NoChunkLost, InHand, Pooled
<1>3. Phases /\ Writers /\ OpenWhile /\ InUsedPart /\ BytesKept /\ AssertionsHold
  BY DEF Init, Phases, Writers, OpenWhile, InUsedPart, BytesKept, PacketKept, AssertionsHold
<1>4. QED
  BY <1>1, <1>2, <1>3 DEF IInv

LEMMA PushGlobalInv ==
  ASSUME IInv, NEW t \in Thread, PushGlobal(t)
  PROVE  IInv'
<1> USE NoneApart DEF PushGlobal, chunks, buffers, threads
<1> DEFINE c == dying[t]
<1>1. c \in Chunk /\ c \in created /\ c \notin Pooled /\ ~InHand(c) /\ pool \in Seq(Chunk)
  BY DEF IInv, TypeOK, Homes, Created, PoolIsIdle, NoChunkLost
<1>2. /\ pool' \in Seq(Chunk) /\ Len(pool') = Len(pool) + 1 /\ Len(pool) \in Nat
      /\ pool'[Len(pool) + 1] = c
      /\ \A i \in 1..Len(pool) : pool'[i] = pool[i]
  BY <1>1
<1>3. Pooled' = Pooled \union {c}
  BY <1>2 DEF Pooled
<1>4. TypeOK'
  BY <1>2 DEF IInv, TypeOK
<1>5. Created'
  BY <1>1, <1>2 DEF IInv, TypeOK, Homes, Created
<1>6. PoolIsIdle'
  <2>1. \A d : InHand(d)' <=> InHand(d)
    BY DEF InHand
  <2>2. {dying'[u] : u \in Thread} \subseteq {dying[u] : u \in Thread} \union {NoChunk}
    BY DEF IInv, TypeOK
  <2>3. QED
    BY <1>1, <1>3, <2>1, <2>2 DEF IInv, Homes, PoolIsIdle
<1>7. NoChunkLost'
  <2>1. \A d : InHand(d)' <=> InHand(d)
    BY DEF InHand
  <2>2. \A u \in Thread : dying'[u] = IF u = t THEN NoChunk ELSE dying[u]
    BY DEF IInv, TypeOK
  <2>3. \A d \in created' : InHand(d)' \/ d \in Pooled' \/ \E u \in Thread : dying'[u] = d
    BY <1>3, <2>1, <2>2 DEF IInv, Homes, NoChunkLost
  <2>4. \A i, j \in 1..Len(pool') : i # j => pool'[i] # pool'[j]
    BY <1>1, <1>2 DEF IInv, Homes, NoChunkLost, Pooled
  <2>5. \A u, v \in Thread : dying'[u] # NoChunk =>
          dying'[u] \notin Pooled' /\ (u # v => dying'[u] # dying'[v])
    BY <1>3, <2>2 DEF IInv, Homes, NoChunkLost
  <2>6. QED
    BY <2>3, <2>4, <2>5 DEF NoChunkLost
<1>8. (Phases /\ OpenWhile /\ InUsedPart /\ BytesKept /\ AssertionsHold)'
  BY DEF IInv, Phases, OpenWhile, InUsedPart, BytesKept, PacketKept, AssertionsHold
<1>9. Writers'
  BY DEF IInv, Writers, Writing
<1>10. QED
  BY <1>4, <1>5, <1>6, <1>7, <1>8, <1>9 DEF IInv, Homes

LEMMA BeginOpenInv ==
  ASSUME IInv, NEW t \in Thread, BeginOpen(t)
  PROVE  IInv'
<1> USE NoneApart DEF BeginOpen, Free, Running, buffers
<1>1. CASE local[t] # NoChunk
  <2> USE <1>1
  <2>1. TypeOK'
    BY DEF IInv, TypeOK
  <2>2. Homes'
    <3>1. \A d : InHand(d)' <=> InHand(d)
      BY DEF InHand
    <3>2. Pooled' = Pooled
      BY DEF Pooled
    <3>3. QED
      BY <3>1, <3>2 DEF IInv, Homes, Created, PoolIsIdle, NoChunkLost
  <2>3. (Phases /\ OpenWhile /\ InUsedPart /\ BytesKept /\ AssertionsHold)'
    BY DEF IInv, TypeOK, Phases, OpenWhile, InUsedPart, BytesKept, PacketKept, AssertionsHold
  <2>4. Writers'
    BY DEF IInv, Writers, Writing
  <2>5. QED
    BY <2>1, <2>2, <2>3, <2>4 DEF IInv
<1>2. CASE local[t] = NoChunk
  <2>1. PICK c \in Chunk : Pop(c) /\ local' = [local EXCEPT ![t] = c]
    BY <1>2
  <2>2. /\ c \in Chunk /\ ~InHand(c)
        /\ \A u \in Thread : dying[u] # c
        /\ created' = created \union {c} /\ pool' \in Seq(Chunk)
        /\ c \notin Pooled' /\ Pooled' \subseteq Pooled
        /\ \A d \in Pooled : d # c => d \in Pooled'
        /\ \A i, j \in 1..Len(pool') : i # j => pool'[i] # pool'[j]
        /\ \A i \in 1..Len(pool') : pool'[i] \in Pooled'
    BY <2>1, PopGives DEF IInv
  <2>3. /\ local' \in [Thread -> Chunk \union {NoChunk}] /\ local'[t] = c
        /\ \A u \in Thread : u # t => local'[u] = local[u]
    BY <2>1 DEF IInv, TypeOK
  <2>4. TypeOK'
    BY <2>2, <2>3 DEF IInv, TypeOK
  <2>5. Created'
    BY <2>2, <2>3 DEF IInv, Homes, Created, Pooled
  <2>6. PoolIsIdle' /\ NoChunkLost'
    <3>1. Drop(t, NoChunk)
      BY DEF Drop, IInv, TypeOK
    <3>2. \A d \in Chunk : InHand(d)' <=> InHand(d) \/ d = c
      BY <1>2, <2>3 DEF InHand
    <3>3. \A u, v \in Thread : u # v /\ local'[u] # NoChunk => local'[u] # local'[v]
      BY <2>2, <2>3 DEF InHand, IInv, Homes, PoolIsIdle
    <3>4. /\ \A d \in {c} : ~InHand(d) /\ InHand(d)' /\ \A u \in Thread : dying[u] # d
          /\ Pooled' \subseteq Pooled \ {c} /\ Pooled \subseteq Pooled' \union {c}
      BY <2>2, <3>2
    <3>5. QED
      BY <2>2, <3>1, <3>2, <3>3, <3>4, LetGo
  <2>7. Phases'
    BY <2>2, <2>3 DEF IInv, TypeOK, Phases
  <2>8. Writers'
    BY <1>2, <2>3 DEF IInv, Writers, Writing
  <2>9. (OpenWhile /\ InUsedPart /\ BytesKept /\ AssertionsHold)'
    BY <2>3 DEF IInv, OpenWhile, InUsedPart, BytesKept, PacketKept, AssertionsHold
  <2>10. QED
    BY <2>4, <2>5, <2>6, <2>7, <2>8, <2>9 DEF IInv, Homes
<1>3. QED
  BY <1>1, <1>2

LEMMA ChangeChunkInv ==
  ASSUME IInv, NEW t \in Thread, ChangeChunk(t)
  PROVE  IInv'
<1> USE NoneApart DEF ChangeChunk, Running
<1>0. PICK old \in Chunk \union {NoChunk} : old = local[t]
  BY DEF IInv, TypeOK
<1>1. PICK c \in Chunk : Pop(c) /\ local' = [local EXCEPT ![t] = c]
  OBVIOUS
<1>2. /\ c \in Chunk /\ ~InHand(c)
      /\ \A u \in Thread : dying[u] # c
      /\ created' = created \union {c} /\ pool' \in Seq(Chunk)
      /\ c \notin Pooled' /\ Pooled' \subseteq Pooled
      /\ \A d \in Pooled : d # c => d \in Pooled'
      /\ \A i, j \in 1..Len(pool') : i # j => pool'[i] # pool'[j]
      /\ \A i \in 1..Len(pool') : pool'[i] \in Pooled'
  BY <1>1, PopGives DEF IInv
<1>3. /\ local' \in [Thread -> Chunk \union {NoChunk}] /\ local'[t] = c
      /\ \A u \in Thread : u # t => local'[u] = local[u]
  BY <1>1 DEF IInv, TypeOK
<1>4. old \in Chunk /\ writer[t] = NoBuffer /\ InHand(old) /\ old # c
  BY <1>0, <1>2 DEF IInv, TypeOK, Phases, InHand
<1>5. /\ dying' \in [Thread -> Chunk \union {NoChunk}] /\ dying'[t] \in {old, NoChunk}
      /\ \A u \in Thread : u # t => dying'[u] = dying[u]
  BY <1>0 DEF IInv, TypeOK, Drop
<1>6. TypeOK'
  BY <1>2, <1>3, <1>5 DEF IInv, TypeOK
<1>7. Created'
  <2>1. \A u \in Thread : local'[u] # NoChunk => local'[u] \in created'
    BY <1>2, <1>3 DEF IInv, Homes, Created
  <2>2. \A i \in 1..Len(pool') : pool'[i] \in created'
    <3>1. \A d \in Pooled : d \in created
      BY DEF IInv, Homes, Created, Pooled
    <3>2. QED
      BY <1>2, <3>1
  <2>3. \A u \in Thread : dying'[u] # NoChunk => dying'[u] \in created'
    BY <1>0, <1>2, <1>4, <1>5 DEF IInv, Homes, Created
  <2>4. QED
    BY <1>2, <2>1, <2>2, <2>3 DEF IInv, Homes, Created
<1>8. PoolIsIdle' /\ NoChunkLost'
  <2>1. \A d \in Chunk : InHand(d)' => InHand(d) \/ d = c
    BY <1>3 DEF InHand
  <2>2. \A d \in Chunk : InHand(d) /\ d # old => InHand(d)'
    BY <1>0, <1>3 DEF InHand
  <2>3. InHand(c)'
    BY <1>3 DEF InHand
  <2>4. \A u, v \in Thread : u # v /\ local'[u] # NoChunk => local'[u] # local'[v]
    BY <1>2, <1>3 DEF InHand, IInv, Homes, PoolIsIdle
  <2>5. Drop(t, old)
    BY <1>0
  <2>6. /\ \A d \in {c} : ~InHand(d) /\ InHand(d)' /\ \A u \in Thread : dying[u] # d
        /\ Pooled' \subseteq Pooled \ {c} /\ Pooled \subseteq Pooled' \union {c}
    BY <1>2, <2>3
  <2>7. QED
    BY <1>2, <1>4, <2>1, <2>2, <2>4, <2>5, <2>6, LetGo
<1>9. Phases'
  BY <1>2, <1>3, <1>4 DEF IInv, TypeOK, Phases, InHand
<1>10. Writers'
  BY <1>3, <1>4 DEF IInv, Writers, Writing
<1>11. OpenWhile'
  BY <1>3, <1>4 DEF IInv, OpenWhile
<1>12. (InUsedPart /\ BytesKept /\ AssertionsHold)'
  BY DEF IInv, InUsedPart, BytesKept, PacketKept, AssertionsHold
<1>13. QED
  BY <1>6, <1>7, <1>8, <1>9, <1>10, <1>11, <1>12 DEF IInv, Homes

(* A SendBuffer is cut from the chunk of a thread, at used, which is what   *)
(* is used of it, or 0 if no packet is in it.                               *)
LEMMA CutInv ==
  ASSUME IInv, NEW t \in Thread, NEW used \in Nat,
         Running(t), phase[t] # "idle",
         \/ used = usedSize[local[t]]
         \/ \A b \in Buffer : owner[b] # local[t],
         AllocSize <= FreeSize(used),
         Cut(t, FALSE, used), UNCHANGED <<pool, created>>
  PROVE  IInv'
<1> USE NoneApart, SizesFit
<1> DEFINE c == local[t]
<1>1. PICK b \in Buffer :
        /\ owner[b] = NoChunk
        /\ owner' = [owner EXCEPT ![b] = c]
        /\ start' = [start EXCEPT ![b] = used]
        /\ writeSize' = [writeSize EXCEPT ![b] = 0]
        /\ Put(c, used, HeaderSize, b)
        /\ writer' = [writer EXCEPT ![t] = b]
  BY DEF Cut, FreeSize
<1>2. /\ usedSize' = [usedSize EXCEPT ![c] = used]
      /\ open' = [open EXCEPT ![c] = TRUE]
      /\ pos' = [pos EXCEPT ![t] = HeaderSize]
      /\ phase' = [phase EXCEPT ![t] = "idle"]
      /\ UNCHANGED <<local, dying, crashed, pool, created>>
  BY DEF Cut, FreeSize
<1>3. used + AllocSize <= ChunkSize
  BY DEF FreeSize
<1>4. c \in Chunk /\ b # NoBuffer
  BY DEF IInv, TypeOK, Phases
<1>5. \A u \in Thread : u # t => local[u] # c
  BY <1>4 DEF IInv, Homes, PoolIsIdle
<1>6. /\ owner' \in [Buffer -> Chunk \union {NoChunk}] /\ owner'[b] = c
      /\ start' \in [Buffer -> Nat] /\ start'[b] = used
      /\ writeSize' \in [Buffer -> 0..AllocSize] /\ writeSize'[b] = 0
      /\ \A a \in Buffer : a # b => /\ owner'[a] = owner[a] /\ start'[a] = start[a]
                                    /\ writeSize'[a] = writeSize[a]
  BY <1>1, <1>4 DEF IInv, TypeOK
<1>7. /\ usedSize' \in [Chunk -> 0..ChunkSize] /\ usedSize'[c] = used
      /\ open' \in [Chunk -> BOOLEAN] /\ open'[c] = TRUE
      /\ \A d \in Chunk : d # c => usedSize'[d] = usedSize[d] /\ open'[d] = open[d]
  BY <1>2, <1>3, <1>4 DEF IInv, TypeOK
<1>8. /\ writer' \in [Thread -> Buffer \union {NoBuffer}] /\ writer'[t] = b
      /\ pos' \in [Thread -> 0..AllocSize] /\ pos'[t] = HeaderSize
      /\ phase' \in [Thread -> {"idle", "check", "reset"}] /\ phase'[t] = "idle"
      /\ \A u \in Thread : u # t => /\ writer'[u] = writer[u] /\ pos'[u] = pos[u]
                                    /\ phase'[u] = phase[u]
  BY <1>1, <1>2 DEF IInv, TypeOK
<1>9. /\ bytes' \in [Chunk -> [0..(ChunkSize - 1) -> Buffer \union {NoBuffer}]]
      /\ \A d \in Chunk : d # c => bytes'[d] = bytes[d]
      /\ \A i \in 0..(ChunkSize - 1) :
           bytes'[c][i] = IF i \in used..(used + HeaderSize - 1) THEN b ELSE bytes[c][i]
  BY <1>1, <1>4 DEF IInv, TypeOK, Put
<1>10. TypeOK'
  BY <1>2, <1>6, <1>7, <1>8, <1>9 DEF IInv, TypeOK
<1>11. Homes'
  <2>1. \A d \in Chunk : InHand(d)' <=> InHand(d)
    BY <1>1, <1>2, <1>4, <1>6 DEF InHand
  <2>2. Pooled' = Pooled /\ Pooled \subseteq Chunk /\ created \subseteq Chunk
    BY <1>2 DEF Pooled, IInv, TypeOK
  <2>3. Created'
    BY <1>2, <1>4, <1>6 DEF IInv, Homes, Created
  <2>4. \A d \in Chunk : d \in Pooled' \union {dying'[u] : u \in Thread} => ~InHand(d)'
    BY <1>2, <1>4, <2>1, <2>2 DEF IInv, Homes, PoolIsIdle
  <2>5. Pooled' \union {dying'[u] : u \in Thread} \subseteq Chunk \union {NoChunk}
    BY <1>2, <2>2 DEF IInv, TypeOK
  <2>6. PoolIsIdle'
    BY <1>2, <2>4, <2>5 DEF IInv, Homes, PoolIsIdle
  <2>7. NoChunkLost'
    BY <1>2, <2>1, <2>2 DEF IInv, Homes, NoChunkLost
  <2>8. QED
    BY <2>3, <2>6, <2>7 DEF Homes
<1>12. Phases'
  BY <1>2, <1>5, <1>6, <1>8 DEF IInv, Phases
<1>13. Writers'
  <2>1. Writing(t)'
    <3>1. \A i \in used..(used + HeaderSize - 1) : bytes'[c][i] = b
      BY <1>3, <1>9
    <3>2. QED
      BY <1>2, <1>3, <1>4, <1>6, <1>7, <1>8, <3>1 DEF Writing
  <2>2. ASSUME NEW u \in Thread, u # t, writer'[u] # NoBuffer PROVE Writing(u)'
    <3>1. Writing(u) /\ writer[u] \in Buffer /\ local[u] \in Chunk
      BY <1>8, <2>2 DEF IInv, TypeOK, Writers, Writing
    <3>2. writer[u] # b
      BY <1>1, <3>1 DEF Writing
    <3>3. /\ writer'[u] = writer[u] /\ local'[u] = local[u] /\ pos'[u] = pos[u]
          /\ bytes'[local[u]] = bytes[local[u]] /\ open'[local[u]] = open[local[u]]
          /\ usedSize'[local[u]] = usedSize[local[u]]
          /\ owner'[writer[u]] = owner[writer[u]] /\ start'[writer[u]] = start[writer[u]]
          /\ writeSize'[writer[u]] = writeSize[writer[u]]
      BY <1>2, <1>5, <1>6, <1>7, <1>8, <1>9, <2>2, <3>1, <3>2
    <3>4. QED
      BY <3>1, <3>3 DEF Writing
  <2>3. QED
    BY <2>1, <2>2 DEF Writers
<1>14. OpenWhile'
  BY <1>2, <1>4, <1>7, <1>8 DEF IInv, OpenWhile
<1>15. InUsedPart'
  <2>1. ASSUME NEW a \in Buffer, owner'[a] # NoChunk, a # b
        PROVE  start'[a] + writeSize'[a] <= usedSize'[owner'[a]]
    <3>1. start[a] + writeSize[a] <= usedSize[owner[a]] /\ owner[a] \in Chunk
      BY <1>6, <2>1 DEF IInv, TypeOK, InUsedPart
    <3>2. usedSize'[owner[a]] = usedSize[owner[a]]
      BY <1>7, <2>1, <3>1
    <3>3. QED
      BY <1>6, <2>1, <3>1, <3>2
  <2>2. start'[b] + writeSize'[b] <= usedSize'[owner'[b]]
    BY <1>6, <1>7
  <2>3. QED
    BY <2>1, <2>2 DEF InUsedPart
<1>16. BytesKept'
  <2>1. ASSUME NEW a \in Buffer, owner'[a] # NoChunk,
               NEW i \in start'[a]..(start'[a] + writeSize'[a] - 1)
        PROVE  bytes'[owner'[a]][i] = a
    <3>1. a # b
      BY <1>6
    <3>2. /\ owner[a] \in Chunk /\ i \in start[a]..(start[a] + writeSize[a] - 1)
          /\ bytes[owner[a]][i] = a /\ start[a] \in Nat /\ writeSize[a] \in Nat
          /\ start[a] + writeSize[a] <= usedSize[owner[a]]
          /\ usedSize[owner[a]] \in 0..ChunkSize
      BY <1>6, <2>1, <3>1 DEF IInv, TypeOK, BytesKept, PacketKept, InUsedPart
    <3>3. CASE owner[a] = c
      <4>1. used = usedSize[c]
        BY <3>3
      <4>2. i \in 0..(ChunkSize - 1) /\ i < used
        BY <3>2, <3>3, <4>1
      <4>3. QED
        BY <1>6, <1>9, <3>1, <3>2, <3>3, <4>2
    <3>4. QED
      BY <1>6, <1>9, <3>1, <3>2, <3>3
  <2>2. QED
    BY <2>1 DEF BytesKept, PacketKept
<1>17. AssertionsHold'
  BY <1>2 DEF IInv, AssertionsHold
<1>18. QED
  BY <1>10, <1>11, <1>12, <1>13, <1>14, <1>15, <1>16, <1>17 DEF IInv

LEMMA OpenHereInv ==
  ASSUME IInv, NEW t \in Thread, OpenHere(t)
  PROVE  IInv'
<1> USE NoneApart DEF OpenHere
<1>1. local[t] \in Chunk /\ writer[t] = NoBuffer
  BY DEF IInv, TypeOK, Phases
<1>2. open[local[t]] = FALSE
  BY <1>1 DEF IInv, TypeOK, Homes, PoolIsIdle, OpenWhile
<1>3. PICK used \in Nat : used = usedSize[local[t]]
  BY <1>1, SizesFit DEF IInv, TypeOK
<1>4. AllocSize <= FreeSize(used)
  BY <1>2, <1>3, SizesFit DEF FreeSize
<1>5. Cut(t, FALSE, used)
  BY <1>2, <1>3
<1>6. QED
  BY <1>3, <1>4, <1>5, CutInv

LEMMA ResetAndOpenInv ==
  ASSUME IInv, NEW t \in Thread, ResetAndOpen(t)
  PROVE  IInv'
<1> USE DEF ResetAndOpen
<1>1. \A b \in Buffer : owner[b] # local[t]
  BY DEF IInv, Phases
<1>2. AllocSize <= FreeSize(0)
  BY SizesFit DEF FreeSize
<1>3. QED
  BY <1>1, <1>2, CutInv

(* What is the same about a thread's writer as long as only other threads'  *)
(* chunks and buffers change.                                               *)
LEMMA WriterKept ==
  ASSUME IInv, NEW u \in Thread, Writing(u),
         writer'[u] = writer[u], local'[u] = local[u], pos'[u] = pos[u],
         bytes'[local[u]] = bytes[local[u]], open'[local[u]] = open[local[u]],
         usedSize'[local[u]] = usedSize[local[u]],
         owner'[writer[u]] = owner[writer[u]], start'[writer[u]] = start[writer[u]],
         writeSize'[writer[u]] = writeSize[writer[u]]
  PROVE  Writing(u)'
BY DEF Writing

LEMMA WriteInv ==
  ASSUME IInv, NEW t \in Thread, NEW n \in 1..AllocSize, Write(t, n)
  PROVE  IInv'
<1> USE NoneApart, SizesFit
<1> DEFINE b == writer[t]
           c == local[t]
<1>1. /\ Writing(t) /\ b \in Buffer /\ c \in Chunk /\ owner[b] = c
      /\ UNCHANGED <<pool, created, usedSize, open, owner, start, writeSize>>
      /\ UNCHANGED <<local, phase, dying, writer>>
  BY DEF Write, buffers, IInv, TypeOK, Writers, Writing
<1>2. Homes'
  <2>1. \A d : InHand(d)' <=> InHand(d)
    BY <1>1 DEF InHand
  <2>2. Pooled' = Pooled
    BY <1>1 DEF Pooled
  <2>3. QED
    BY <1>1, <2>1, <2>2 DEF IInv, Homes, Created, PoolIsIdle, NoChunkLost
<1>3. (Phases /\ OpenWhile /\ InUsedPart)'
  BY <1>1 DEF IInv, Phases, OpenWhile, InUsedPart
<1>4. CASE crashed' = "FlatBufferWriter" /\ UNCHANGED <<bytes, pos>>
  <2>1. TypeOK'
    BY <1>1, <1>4 DEF IInv, TypeOK
  <2>2. (BytesKept /\ AssertionsHold)'
    BY <1>1, <1>4 DEF IInv, BytesKept, PacketKept, AssertionsHold
  <2>3. Writers'
    BY <1>1, <1>4 DEF IInv, Writers, Writing
  <2>4. QED
    BY <1>2, <1>3, <2>1, <2>2, <2>3 DEF IInv
<1>5. CASE /\ AllocSize - pos[t] >= n
           /\ Put(c, start[b] + pos[t], n, b)
           /\ pos' = [pos EXCEPT ![t] = @ + n]
           /\ UNCHANGED crashed
  <2>1. /\ pos[t] \in 0..AllocSize /\ pos[t] + n <= AllocSize /\ start[b] \in Nat
        /\ start[b] + AllocSize <= ChunkSize /\ start[b] = usedSize[c]
    BY <1>1, <1>5 DEF IInv, TypeOK, Writing
  <2>2. /\ pos' \in [Thread -> 0..AllocSize] /\ pos'[t] = pos[t] + n
        /\ \A u \in Thread : u # t => pos'[u] = pos[u]
    BY <1>5, <2>1 DEF IInv, TypeOK
  <2>3. /\ bytes' \in [Chunk -> [0..(ChunkSize - 1) -> Buffer \union {NoBuffer}]]
        /\ \A d \in Chunk : d # c => bytes'[d] = bytes[d]
        /\ \A i \in 0..(ChunkSize - 1) :
             bytes'[c][i] = IF i \in (start[b] + pos[t])..(start[b] + pos[t] + n - 1)
                              THEN b ELSE bytes[c][i]
    BY <1>1, <1>5 DEF IInv, TypeOK, Put
  <2>4. TypeOK'
    BY <1>1, <1>5, <2>2, <2>3 DEF IInv, TypeOK
  <2>5. Writing(t)'
    <3>1. \A i \in start[b]..(start[b] + pos[t] + n - 1) : bytes'[c][i] = b
      <4>1. TAKE i \in start[b]..(start[b] + pos[t] + n - 1)
      <4>2. i \in 0..(ChunkSize - 1)
        BY <2>1
      <4>3. CASE i < start[b] + pos[t]
        <5>1. bytes[c][i] = b
          BY <1>1, <2>1, <4>3 DEF Writing
        <5>2. QED
          BY <2>1, <2>3, <4>2, <4>3, <5>1
      <4>4. CASE i >= start[b] + pos[t]
        BY <2>1, <2>3, <4>2, <4>4
      <4>5. QED
        BY <2>1, <4>2, <4>3, <4>4
    <3>2. HeaderSize <= pos'[t]
      BY <1>1, <2>1, <2>2 DEF Writing
    <3>3. QED
      BY <1>1, <2>1, <2>2, <3>1, <3>2 DEF Writing
  <2>6. Writers'
    <3>1. ASSUME NEW u \in Thread, u # t, writer[u] # NoBuffer PROVE Writing(u)'
      <4>1. Writing(u) /\ local[u] \in Chunk /\ local[u] # c
        BY <1>1, <3>1 DEF IInv, TypeOK, Writers, Writing, Homes, PoolIsIdle
      <4>2. bytes'[local[u]] = bytes[local[u]] /\ pos'[u] = pos[u]
        BY <2>2, <2>3, <3>1, <4>1
      <4>3. QED
        BY <1>1, <4>1, <4>2, WriterKept
    <3>2. QED
      BY <1>1, <2>5, <3>1 DEF Writers
  <2>7. BytesKept'
    <3>1. ASSUME NEW a \in Buffer, owner[a] # NoChunk,
                 NEW i \in start[a]..(start[a] + writeSize[a] - 1)
          PROVE  bytes'[owner[a]][i] = a
      <4>1. /\ owner[a] \in Chunk /\ bytes[owner[a]][i] = a
            /\ start[a] \in Nat /\ writeSize[a] \in Nat
            /\ start[a] + writeSize[a] <= usedSize[owner[a]]
            /\ usedSize[owner[a]] \in 0..ChunkSize
        BY <3>1 DEF IInv, TypeOK, BytesKept, PacketKept, InUsedPart
      <4>2. CASE owner[a] = c
        <5>1. i \in 0..(ChunkSize - 1) /\ i < start[b]
          BY <2>1, <4>1, <4>2
        <5>2. i \notin (start[b] + pos[t])..(start[b] + pos[t] + n - 1)
          BY <2>1, <5>1
        <5>3. bytes'[c][i] = bytes[c][i]
          BY <2>3, <5>1, <5>2
        <5>4. QED
          BY <4>1, <4>2, <5>3
      <4>3. QED
        BY <2>3, <4>1, <4>2
    <3>2. QED
      BY <1>1, <3>1 DEF BytesKept, PacketKept
  <2>8. AssertionsHold'
    BY <1>5 DEF IInv, AssertionsHold
  <2>9. QED
    BY <1>2, <1>3, <2>4, <2>6, <2>7, <2>8 DEF IInv
<1>6. pos[t] \in 0..AllocSize
  BY DEF IInv, TypeOK
<1>7. QED
  BY <1>1, <1>4, <1>5, <1>6 DEF Write

LEMMA CloseInv ==
  ASSUME IInv, NEW t \in Thread, Close(t)
  PROVE  IInv'
<1> USE NoneApart, SizesFit
<1> DEFINE b == writer[t]
           c == local[t]
<1>1. /\ Writing(t) /\ b \in Buffer /\ c \in Chunk /\ owner[b] = c /\ open[c]
      /\ pos[t] \in 0..AllocSize
      /\ UNCHANGED <<pool, created, owner, start, local, phase, dying>>
  BY DEF Close, IInv, TypeOK, Writers, Writing
<1>2. /\ writeSize' = [writeSize EXCEPT ![b] = pos[t]]
      /\ CloseChunk(c, pos[t])
      /\ Put(c, start[b], HeaderSize, b)
      /\ writer' = [writer EXCEPT ![t] = NoBuffer]
      /\ pos' = [pos EXCEPT ![t] = 0]
      /\ UNCHANGED crashed
  BY <1>1 DEF Close
<1>3. /\ HeaderSize <= pos[t] /\ start[b] \in Nat
      /\ start[b] + AllocSize <= ChunkSize /\ start[b] = usedSize[c]
  BY <1>1 DEF IInv, TypeOK, Writing
<1>4. /\ writeSize' \in [Buffer -> 0..AllocSize] /\ writeSize'[b] = pos[t]
      /\ \A a \in Buffer : a # b => writeSize'[a] = writeSize[a]
  BY <1>1, <1>2 DEF IInv, TypeOK
<1>5. /\ usedSize' \in [Chunk -> 0..ChunkSize] /\ usedSize'[c] = start[b] + pos[t]
      /\ open' \in [Chunk -> BOOLEAN] /\ open'[c] = FALSE
      /\ \A d \in Chunk : d # c => usedSize'[d] = usedSize[d] /\ open'[d] = open[d]
  BY <1>1, <1>2, <1>3 DEF IInv, TypeOK, CloseChunk
<1>6. /\ writer' \in [Thread -> Buffer \union {NoBuffer}] /\ writer'[t] = NoBuffer
      /\ pos' \in [Thread -> 0..AllocSize]
      /\ \A u \in Thread : u # t => writer'[u] = writer[u] /\ pos'[u] = pos[u]
  BY <1>1, <1>2 DEF IInv, TypeOK
<1>7. /\ bytes' \in [Chunk -> [0..(ChunkSize - 1) -> Buffer \union {NoBuffer}]]
      /\ \A d \in Chunk : d # c => bytes'[d] = bytes[d]
      /\ \A i \in 0..(ChunkSize - 1) :
           bytes'[c][i] = IF i \in start[b]..(start[b] + HeaderSize - 1) THEN b ELSE bytes[c][i]
  BY <1>1, <1>2 DEF IInv, TypeOK, Put
<1>8. TypeOK'
  BY <1>1, <1>4, <1>5, <1>6, <1>7 DEF IInv, TypeOK
<1>9. Homes'
  <2>1. \A d : InHand(d)' <=> InHand(d)
    BY <1>1 DEF InHand
  <2>2. Pooled' = Pooled
    BY <1>1 DEF Pooled
  <2>3. QED
    BY <1>1, <2>1, <2>2 DEF IInv, Homes, Created, PoolIsIdle, NoChunkLost
<1>10. Phases'
  BY <1>1, <1>6 DEF IInv, Phases
<1>11. \A u \in Thread : u # t => local[u] # c
  BY <1>1 DEF IInv, Homes, PoolIsIdle
<1>12. Writers'
  <2>1. ASSUME NEW u \in Thread, u # t, writer[u] # NoBuffer PROVE Writing(u)'
    <3>1. Writing(u) /\ local[u] \in Chunk /\ local[u] # c /\ writer[u] \in Buffer
      BY <1>11, <2>1 DEF IInv, TypeOK, Writers, Writing
    <3>2. writer[u] # b
      BY <1>1, <3>1 DEF Writing
    <3>3. QED
      BY <1>1, <1>4, <1>5, <1>6, <1>7, <2>1, <3>1, <3>2, WriterKept
  <2>2. QED
    BY <1>6, <2>1 DEF Writers
<1>13. OpenWhile'
  BY <1>1, <1>5, <1>6 DEF IInv, OpenWhile
<1>14. InUsedPart'
  <2>1. ASSUME NEW a \in Buffer, owner[a] # NoChunk, a # b
        PROVE  start[a] + writeSize'[a] <= usedSize'[owner[a]]
    <3>1. /\ start[a] + writeSize[a] <= usedSize[owner[a]] /\ owner[a] \in Chunk
          /\ start[a] \in Nat /\ writeSize[a] \in Nat /\ usedSize[owner[a]] \in Nat
      BY <2>1 DEF IInv, TypeOK, InUsedPart
    <3>2. usedSize[owner[a]] <= usedSize'[owner[a]] /\ usedSize'[owner[a]] \in Nat
      BY <1>1, <1>3, <1>5, <3>1
    <3>3. QED
      BY <1>4, <2>1, <3>1, <3>2
  <2>2. start[b] + writeSize'[b] <= usedSize'[owner[b]]
    BY <1>1, <1>3, <1>4, <1>5
  <2>3. QED
    BY <1>1, <2>1, <2>2 DEF InUsedPart
<1>15. BytesKept'
  <2>1. ASSUME NEW a \in Buffer, owner[a] # NoChunk, a # b,
               NEW i \in start[a]..(start[a] + writeSize[a] - 1)
        PROVE  bytes'[owner[a]][i] = a
    <3>1. /\ owner[a] \in Chunk /\ bytes[owner[a]][i] = a
          /\ start[a] \in Nat /\ writeSize[a] \in Nat
          /\ start[a] + writeSize[a] <= usedSize[owner[a]]
          /\ usedSize[owner[a]] \in 0..ChunkSize
      BY <2>1 DEF IInv, TypeOK, BytesKept, PacketKept, InUsedPart
    <3>2. CASE owner[a] = c
      <4>1. i \in 0..(ChunkSize - 1) /\ i < start[b]
        BY <1>3, <3>1, <3>2
      <4>2. bytes'[c][i] = bytes[c][i]
        BY <1>3, <1>7, <4>1
      <4>3. QED
        BY <3>1, <3>2, <4>2
    <3>3. QED
      BY <1>7, <3>1, <3>2
  <2>2. ASSUME NEW i \in start[b]..(start[b] + pos[t] - 1)
        PROVE  bytes'[c][i] = b
    <3>1. bytes[c][i] = b
      BY <1>1 DEF Writing
    <3>2. i \in 0..(ChunkSize - 1)
      BY <1>1, <1>3
    <3>3. QED
      BY <1>7, <3>1, <3>2
  <2>3. QED
    BY <1>1, <1>4, <2>1, <2>2 DEF BytesKept, PacketKept
<1>16. AssertionsHold'
  BY <1>2 DEF IInv, AssertionsHold
<1>17. QED
  BY <1>8, <1>9, <1>10, <1>12, <1>13, <1>14, <1>15, <1>16 DEF IInv

LEMMA ReleaseInv ==
  ASSUME IInv, NEW t \in Thread, NEW b \in Buffer, Release(t, b)
  PROVE  IInv'
<1> USE NoneApart DEF Release, Free, Running
<1>1. PICK c \in Chunk : c = owner[b]
  BY DEF IInv, TypeOK
<1>2. /\ UNCHANGED <<pool, created, usedSize, open, local, phase, writer, pos, crashed>>
      /\ \A u \in Thread : writer[u] # b
  OBVIOUS
<1>3. /\ owner' \in [Buffer -> Chunk \union {NoChunk}] /\ owner'[b] = NoChunk
      /\ start' \in [Buffer -> Nat] /\ start'[b] = 0
      /\ writeSize' \in [Buffer -> 0..AllocSize] /\ writeSize'[b] = 0
      /\ \A a \in Buffer : a # b => /\ owner'[a] = owner[a] /\ start'[a] = start[a]
                                    /\ writeSize'[a] = writeSize[a]
  BY SizesFit DEF IInv, TypeOK
<1>4. /\ bytes' \in [Chunk -> [0..(ChunkSize - 1) -> Buffer \union {NoBuffer}]]
      /\ \A d \in Chunk : \A i \in 0..(ChunkSize - 1) :
           bytes[d][i] # b => bytes'[d][i] = bytes[d][i]
  <2>1. /\ bytes \in [Chunk -> [0..(ChunkSize - 1) -> Buffer \union {NoBuffer}]]
        /\ bytes[c] \in [0..(ChunkSize - 1) -> Buffer \union {NoBuffer}]
    BY DEF IInv, TypeOK
  <2>2. PICK f \in [0..(ChunkSize - 1) -> Buffer \union {NoBuffer}] :
          f = [i \in 0..(ChunkSize - 1) |-> IF bytes[c][i] = b THEN NoBuffer ELSE bytes[c][i]]
    BY <2>1
  <2>3. bytes' = [bytes EXCEPT ![c] = f]
    BY <1>1, <2>1, <2>2
  <2>4. bytes' \in [Chunk -> [0..(ChunkSize - 1) -> Buffer \union {NoBuffer}]]
    BY <2>1, <2>3
  <2>5. ASSUME NEW d \in Chunk, NEW i \in 0..(ChunkSize - 1), bytes[d][i] # b
        PROVE  bytes'[d][i] = bytes[d][i]
    <3>1. CASE d = c
      <4>1. bytes'[c] = f
        BY <2>1, <2>3
      <4>2. f[i] = IF bytes[c][i] = b THEN NoBuffer ELSE bytes[c][i]
        BY <2>2
      <4>3. QED
        BY <2>5, <3>1, <4>1, <4>2
    <3>2. CASE d # c
      BY <2>1, <2>3, <3>2
    <3>3. QED
      BY <3>1, <3>2
  <2>6. QED
    BY <2>4, <2>5
<1>5. /\ dying' \in [Thread -> Chunk \union {NoChunk}] /\ dying'[t] \in {c, NoChunk}
      /\ \A u \in Thread : u # t => dying'[u] = dying[u]
  BY <1>1 DEF IInv, TypeOK, Drop
<1>6. TypeOK'
  BY <1>2, <1>3, <1>4, <1>5 DEF IInv, TypeOK
<1>7. Created'
  BY <1>1, <1>2, <1>3, <1>5 DEF IInv, Homes, Created
<1>8. PoolIsIdle' /\ NoChunkLost'
  <2>1. InHand(c)
    BY <1>1 DEF InHand
  <2>2. \A d \in Chunk : InHand(d)' => InHand(d)
    BY <1>2, <1>3 DEF InHand
  <2>3. \A d \in Chunk : InHand(d) /\ d # c => InHand(d)'
    BY <1>1, <1>2, <1>3 DEF InHand
  <2>4. \A u, v \in Thread : u # v /\ local'[u] # NoChunk => local'[u] # local'[v]
    BY <1>2 DEF IInv, Homes, PoolIsIdle
  <2>5. /\ created' = created \union {} /\ pool' \in Seq(Chunk)
        /\ Pooled' \subseteq Pooled \ {} /\ Pooled \subseteq Pooled' \union {}
        /\ \A i, j \in 1..Len(pool') : i # j => pool'[i] # pool'[j]
    BY <1>2 DEF Pooled, IInv, TypeOK, Homes, NoChunkLost
  <2>6. Drop(t, c) /\ dying[t] = NoChunk
    BY <1>1
  <2>7. \A d \in {} : ~InHand(d) /\ InHand(d)' /\ \A u \in Thread : dying[u] # d
    OBVIOUS
  <2>8. {} \in SUBSET Chunk /\ c \in Chunk \union {NoChunk}
    OBVIOUS
  <2>9. \A d \in Chunk : InHand(d)' => InHand(d) \/ d \in {}
    BY <2>2
  <2>10. QED
    BY <2>1, <2>3, <2>4, <2>5, <2>6, <2>7, <2>8, <2>9, LetGo
<1>9. Phases'
  BY <1>2, <1>3 DEF IInv, Phases
<1>10. ASSUME NEW a \in Buffer, a # b, NEW d \in Chunk,
              NEW i \in 0..(ChunkSize - 1), bytes[d][i] = a
       PROVE  bytes'[d][i] = a
  BY <1>4, <1>10
<1>11. Writers'
  <2>1. ASSUME NEW u \in Thread, writer[u] # NoBuffer PROVE Writing(u)'
    <3> DEFINE w == writer[u]
               d == local[u]
    <3>1. Writing(u) /\ w \in Buffer /\ w # b /\ d \in Chunk /\ start[w] \in Nat
          /\ pos[u] \in 0..AllocSize
      BY <1>2, <2>1 DEF IInv, TypeOK, Writers, Writing
    <3>2. \A i \in start[w]..(start[w] + pos[u] - 1) : bytes'[d][i] = w
      <4>1. \A i \in start[w]..(start[w] + pos[u] - 1) :
              i \in 0..(ChunkSize - 1) /\ bytes[d][i] = w
        BY <3>1, SizesFit DEF Writing
      <4>2. QED
        BY <1>10, <3>1, <4>1
    <3>3. QED
      BY <1>2, <1>3, <3>1, <3>2 DEF Writing
  <2>2. QED
    BY <1>2, <2>1 DEF Writers
<1>12. OpenWhile'
  BY <1>2 DEF IInv, OpenWhile
<1>13. InUsedPart'
  BY <1>2, <1>3 DEF IInv, InUsedPart
<1>14. BytesKept'
  <2>1. ASSUME NEW a \in Buffer, a # b, owner[a] # NoChunk,
               NEW i \in start[a]..(start[a] + writeSize[a] - 1)
        PROVE  bytes'[owner[a]][i] = a
    <3>1. /\ owner[a] \in Chunk /\ bytes[owner[a]][i] = a
          /\ start[a] \in Nat /\ writeSize[a] \in Nat
          /\ start[a] + writeSize[a] <= usedSize[owner[a]]
          /\ usedSize[owner[a]] \in 0..ChunkSize
      BY <2>1 DEF IInv, TypeOK, BytesKept, PacketKept, InUsedPart
    <3>2. i \in 0..(ChunkSize - 1)
      BY <3>1, SizesFit
    <3>3. QED
      BY <1>10, <2>1, <3>1, <3>2
  <2>2. ASSUME NEW a \in Buffer, owner'[a] # NoChunk,
               NEW i \in start'[a]..(start'[a] + writeSize'[a] - 1)
        PROVE  bytes'[owner'[a]][i] = a
    BY <1>3, <2>1, <2>2
  <2>3. QED
    BY <2>2 DEF BytesKept, PacketKept
<1>15. AssertionsHold'
  BY <1>2 DEF IInv, AssertionsHold
<1>16. QED
  BY <1>6, <1>7, <1>8, <1>9, <1>11, <1>12, <1>13, <1>14, <1>15 DEF IInv, Homes

LEMMA ThreadEndInv ==
  ASSUME IInv, NEW t \in Thread, ThreadEnd(t)
  PROVE  IInv'
<1> USE NoneApart DEF ThreadEnd, Free, Running, chunks
<1>1. PICK c \in Chunk : c = local[t]
  BY DEF IInv, TypeOK
<1>2. /\ local' \in [Thread -> Chunk \union {NoChunk}] /\ local'[t] = NoChunk
      /\ \A u \in Thread : u # t => local'[u] = local[u]
  BY DEF IInv, TypeOK
<1>3. /\ dying' \in [Thread -> Chunk \union {NoChunk}] /\ dying'[t] \in {c, NoChunk}
      /\ \A u \in Thread : u # t => dying'[u] = dying[u]
  BY <1>1 DEF IInv, TypeOK, Drop
<1>4. TypeOK'
  BY <1>2, <1>3 DEF IInv, TypeOK
<1>5. Created'
  BY <1>1, <1>2, <1>3 DEF IInv, Homes, Created
<1>6. PoolIsIdle' /\ NoChunkLost'
  <2>1. InHand(c)
    BY <1>1 DEF InHand
  <2>2. \A d \in Chunk : InHand(d)' => InHand(d) \/ d \in {}
    BY <1>2 DEF InHand
  <2>3. \A d \in Chunk : InHand(d) /\ d # c => InHand(d)'
    BY <1>1, <1>2 DEF InHand
  <2>4. \A u, v \in Thread : u # v /\ local'[u] # NoChunk => local'[u] # local'[v]
    BY <1>2 DEF IInv, Homes, PoolIsIdle
  <2>5. /\ created' = created \union {} /\ pool' \in Seq(Chunk)
        /\ Pooled' \subseteq Pooled \ {} /\ Pooled \subseteq Pooled' \union {}
        /\ \A i, j \in 1..Len(pool') : i # j => pool'[i] # pool'[j]
    BY DEF Pooled, IInv, TypeOK, Homes, NoChunkLost
  <2>6. Drop(t, c) /\ dying[t] = NoChunk
    BY <1>1
  <2>7. \A d \in {} : ~InHand(d) /\ InHand(d)' /\ \A u \in Thread : dying[u] # d
    OBVIOUS
  <2>8. {} \in SUBSET Chunk /\ c \in Chunk \union {NoChunk}
    OBVIOUS
  <2>9. QED
    BY <2>1, <2>2, <2>3, <2>4, <2>5, <2>6, <2>7, <2>8, LetGo
<1>7. Phases'
  BY <1>2 DEF IInv, Phases
<1>8. Writers'
  BY <1>2 DEF IInv, Writers, Writing
<1>9. OpenWhile'
  BY <1>2 DEF IInv, OpenWhile
<1>10. (InUsedPart /\ BytesKept /\ AssertionsHold)'
  BY DEF IInv, InUsedPart, BytesKept, PacketKept, AssertionsHold
<1>11. QED
  BY <1>4, <1>5, <1>6, <1>7, <1>8, <1>9, <1>10 DEF IInv, Homes

LEMMA NextInv == IInv /\ [Next]_vars => IInv'
<1> SUFFICES ASSUME IInv, [Next]_vars PROVE IInv'
  OBVIOUS
<1>1. ASSUME NEW t \in Thread, BeginOpen(t) PROVE IInv'
  BY <1>1, BeginOpenInv
<1>2. ASSUME NEW t \in Thread, OpenHere(t) PROVE IInv'
  BY <1>2, OpenHereInv
<1>3. ASSUME NEW t \in Thread, ChangeChunk(t) PROVE IInv'
  BY <1>3, ChangeChunkInv
<1>4. ASSUME NEW t \in Thread, ResetAndOpen(t) PROVE IInv'
  BY <1>4, ResetAndOpenInv
<1>5. ASSUME NEW t \in Thread, PushGlobal(t) PROVE IInv'
  BY <1>5, PushGlobalInv
<1>6. ASSUME NEW t \in Thread, NEW n \in 1..AllocSize, Write(t, n) PROVE IInv'
  BY <1>6, WriteInv
<1>7. ASSUME NEW t \in Thread, Close(t) PROVE IInv'
  BY <1>7, CloseInv
<1>8. ASSUME NEW t \in Thread, NEW b \in Buffer, Release(t, b) PROVE IInv'
  BY <1>8, ReleaseInv
<1>9. ASSUME NEW t \in Thread, ThreadEnd(t) PROVE IInv'
  BY <1>9, ThreadEndInv
<1>10. CASE UNCHANGED vars
  <2>1. UNCHANGED <<pool, created, usedSize, open, bytes, owner, start, writeSize>>
    BY <1>10 DEF vars, chunks, buffers
  <2>2. UNCHANGED <<local, phase, dying, writer, pos, crashed>>
    BY <1>10 DEF vars, threads
  <2>3. TypeOK'
    BY <2>1, <2>2 DEF IInv, TypeOK
  <2>4. Homes'
    BY <2>1, <2>2 DEF IInv, Homes, Created, PoolIsIdle, NoChunkLost, InHand, Pooled
  <2>5. (Phases /\ Writers /\ OpenWhile /\ InUsedPart /\ BytesKept /\ AssertionsHold)'
    BY <2>1, <2>2 DEF IInv, Phases, Writers, Writing, OpenWhile, InUsedPart, BytesKept,
                      PacketKept, AssertionsHold
  <2>6. QED
    BY <2>3, <2>4, <2>5 DEF IInv
<1>11. QED
  BY <1>1, <1>2, <1>3, <1>4, <1>5, <1>6, <1>7, <1>8, <1>9, <1>10 DEF Next

LEMMA Invariant == Spec => []IInv
BY InitInv, NextInv, PTL DEF Spec

-----------------------------------------------------------------------------
(* The results                                                              *)

(* The variables keep their types: no chunk has more in use than it has.    *)
THEOREM TypeCorrect == Spec => []TypeOK
<1>1. IInv => TypeOK
  BY DEF IInv
<1>2. QED
  BY <1>1, Invariant, PTL

(* A packet that anybody still has holds the bytes its writer put there.    *)
THEOREM PacketsKept == Spec => []BytesKept
<1>1. IInv => BytesKept
  BY DEF IInv
<1>2. QED
  BY <1>1, Invariant, PTL

(* A chunk in the pool, or on its way there, is in nobody's hand, and no    *)
(* two threads have the same.                                               *)
THEOREM IdleWhenPooled == Spec => []PoolIsIdle
<1>1. IInv => PoolIsIdle
  BY DEF IInv, Homes
<1>2. QED
  BY <1>1, Invariant, PTL

(* No chunk is lost and none is pooled twice.                               *)
THEOREM NoneLost == Spec => []NoChunkLost
<1>1. IInv => NoChunkLost
  BY DEF IInv, Homes
<1>2. QED
  BY <1>1, Invariant, PTL

(* The assertions of Open and Close hold, and Open gives a buffer.          *)
THEOREM NoFalseAlarm == Spec => []AssertionsHold
<1>1. IInv => AssertionsHold
  BY DEF IInv
<1>2. QED
  BY <1>1, Invariant, PTL
=============================================================================
