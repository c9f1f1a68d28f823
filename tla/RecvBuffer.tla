----------------------------- MODULE RecvBuffer -----------------------------
(***************************************************************************)
(* How a PacketSession cuts the byte stream of its peer into packets:      *)
(* Session::ProcessRecv, PacketSession::OnRecv and the RecvBuffer between  *)
(* them.  One receive is processed at a time (RecvTurn of Session), so one *)
(* turn of OnRecv's loop is one step.                                      *)
(*                                                                         *)
(* A byte is its place in the stream, counted from 0: that tells a packet  *)
(* that is whole and where it belongs from any other stretch of bytes.     *)
(* The peer writes packets with true sizes, as FlatBufferWriter does.      *)
(***************************************************************************)
EXTENDS Integers, Sequences

CONSTANTS BufferSize,   \* Session::BUFFER_SIZE
          BufferCount,  \* RecvBuffer::BUFFER_COUNT
          HeaderSize,   \* sizeof(PacketHeader)
          MaxPacket,    \* the largest header.size that the program can mean
          MaxPackets    \* bound: packets in one behaviour

Capacity == BufferSize * BufferCount

ASSUME SizesNat == /\ BufferSize \in Nat /\ BufferCount \in Nat
                   /\ HeaderSize \in Nat \ {0} /\ MaxPacket \in Nat
                   /\ MaxPackets \in Nat
ASSUME HeaderFits == HeaderSize <= MaxPacket
ASSUME PacketFits == MaxPacket <= Capacity

VARIABLES
  ends,        \* the stream of the peer: where each of its packets ends
  received,    \* how much of it the kernel has put into the buffer
  buffer,      \* _buffer; -1 is a byte that nothing was written to
  readPos,     \* _readPos
  writePos,    \* _writePos
  processLen,  \* the local of OnRecv
  pc,          \* "recv": WSARecv is pending; "parse": in OnRecv; "closed"
  handled      \* history: the bytes each call of OnRecvPacket was given

positions == <<readPos, writePos>>
vars == <<ends, received, buffer, positions, processLen, pc, handled>>

\* Mutant: the room is counted from _readPos.
FreeSizeFromRead == Capacity - readPos

FreeSize == Capacity - writePos
DataSize == writePos - readPos

Init == /\ ends       = <<>>
        /\ received   = 0
        /\ buffer     = [i \in 0..(Capacity - 1) |-> -1]
        /\ readPos    = 0
        /\ writePos   = 0
        /\ processLen = 0
        /\ pc         = "recv"
        /\ handled    = <<>>

\* Where packet k begins; StartOf(Len(ends) + 1) is the end of the stream.
StartOf(k) == IF k = 1 THEN 0 ELSE ends[k - 1]

Total == StartOf(Len(ends) + 1)

\* The peer sends a packet of n bytes, header included.
SendPacket(n) ==
  /\ Len(ends) < MaxPackets
  /\ ends' = Append(ends, Total + n)
  /\ UNCHANGED <<received, buffer, positions, processLen, pc, handled>>

-----------------------------------------------------------------------------
(* ProcessRecv, up to OnRecv *)

\* What WSARecv may complete with: it was given FreeSize bytes of room.
Receivable(n) == \/ n \in 1..FreeSize /\ received + n <= Total
                 \/ n = 0 /\ FreeSize = 0 /\ received < Total

\* n bytes arrive behind WritePos(); OnWrite(n); 0 bytes end the session
Receive(n) ==
  /\ pc = "recv" /\ Receivable(n)
  /\ pc' = IF n = 0 THEN "closed" ELSE "parse"
  /\ received' = received + n
  /\ buffer' = [i \in DOMAIN buffer |->
                  IF i \in writePos..(writePos + n - 1) THEN received + (i - writePos)
                                                        ELSE buffer[i]]
  /\ writePos' = writePos + n
  /\ processLen' = 0
  /\ UNCHANGED <<ends, readPos, handled>>

-----------------------------------------------------------------------------
(* OnRecv *)

\* header.size, if the header begins with this byte; of a byte that begins
\* no packet nothing is known but that there is such a number
SizeAt(byte) ==
  IF \E k \in 1..Len(ends) : StartOf(k) = byte
    THEN ends[CHOOSE k \in 1..Len(ends) : StartOf(k) = byte] - byte
    ELSE HeaderSize

Rest == DataSize - processLen

NextSize == SizeAt(buffer[readPos + processLen])

\* Mutant: a packet that ends where the buffer's data ends is not there yet.
PacketStrictlyThere == Rest >= HeaderSize /\ Rest > NextSize

PacketThere == Rest >= HeaderSize /\ Rest >= NextSize

\* OnRecvPacket(&buffer[processLen], header.size)
HandlePacket ==
  /\ pc = "parse"
  /\ PacketThere
  /\ handled' = Append(handled, [i \in 1..NextSize |-> buffer[readPos + processLen + i - 1]])
  /\ processLen' = processLen + NextSize
  /\ UNCHANGED <<ends, received, buffer, positions, pc>>

\* Mutant: the positions go back, the bytes stay where they are.
CleanWithoutCopy(from, rest) ==
  /\ readPos' = 0
  /\ writePos' = rest
  /\ UNCHANGED buffer

\* Mutant: only an empty buffer is cleaned.
CleanEmptyOnly(from, rest) ==
  /\ readPos' = IF rest = 0 THEN 0 ELSE from
  /\ writePos' = IF rest = 0 THEN 0 ELSE writePos
  /\ UNCHANGED buffer

\* RecvBuffer::Clean: the bytes from here on move to the front.  The source
\* may overlap the target; memcpy of this platform copies such bytes rightly.
Clean(from, rest) ==
  /\ readPos' = 0
  /\ writePos' = rest
  /\ buffer' = [i \in DOMAIN buffer |-> IF i < rest THEN buffer[from + i] ELSE buffer[i]]

\* OnRecv has returned: OnRead(processLen), Clean, RegisterRecv
FinishRecv ==
  /\ pc = "parse"
  /\ ~PacketThere
  /\ IF processLen > DataSize
       THEN pc' = "closed" /\ UNCHANGED <<buffer, positions>>
       ELSE pc' = "recv" /\ Clean(readPos + processLen, Rest)
  /\ UNCHANGED <<ends, received, processLen, handled>>

-----------------------------------------------------------------------------
ReceiveSome == \E n \in 0..FreeSize : Receive(n)

Next == \/ \E n \in HeaderSize..MaxPacket : SendPacket(n)
        \/ ReceiveSome \/ HandlePacket \/ FinishRecv

Spec == Init /\ [][Next]_vars

(* The network delivers what was sent, and the worker goes on.              *)
FairSpec == Spec /\ WF_vars(ReceiveSome) /\ WF_vars(HandlePacket) /\ WF_vars(FinishRecv)

-----------------------------------------------------------------------------
(* Properties *)

(* The variables have their types; the positions stay in order and inside   *)
(* the buffer, so that FreeSize and DataSize are never negative.            *)
TypeOK ==
  /\ ends \in Seq(Nat)
  /\ received \in Nat
  /\ buffer \in [0..(Capacity - 1) -> Int]
  /\ writePos \in 0..Capacity
  /\ readPos \in 0..writePos
  /\ processLen \in Nat
  /\ pc \in {"recv", "parse", "closed"}

(* Whenever the session receives again, there is room for the rest of the   *)
(* largest packet, so that no WSARecv gets an empty buffer and the session  *)
(* is never closed by the server (RecvBuffer.cpp:17-52, Session.cpp:260).   *)
RoomForMore ==
  /\ pc # "closed"
  /\ pc = "recv" => FreeSize > Capacity - MaxPacket

(* However the network cuts the stream, OnRecvPacket is given every packet  *)
(* of the peer in turn, each whole and nothing else, and none waits for     *)
(* bytes behind it: when the session receives again, every packet that has  *)
(* arrived was handed on (PacketSession::OnRecv, Session.cpp:341-366).      *)
Packet(k) == [i \in 1..(ends[k] - StartOf(k)) |-> StartOf(k) + i - 1]

Arrived == {k \in 1..Len(ends) : ends[k] <= received}

PacketsWhole ==
  /\ 1..Len(handled) \subseteq Arrived
  /\ \A k \in 1..Len(handled) : handled[k] = Packet(k)
  /\ pc = "recv" => Arrived \subseteq 1..Len(handled)

(* Every packet that was sent is handled.                                   *)
EveryPacketHandled ==
  \A k \in 1..MaxPackets : Len(ends) >= k ~> Len(handled) >= k
=============================================================================
