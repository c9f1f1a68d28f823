--------------------------- MODULE TcpMsgResolver ---------------------------
(***************************************************************************)
(* How the C# client puts the server's packets together again: the loop of *)
(* TcpMsgResolver::OnReceiveTcp, which copies each packet into a buffer of *)
(* its own, two length bytes first, over as many receives as it takes.     *)
(*                                                                         *)
(* A byte is its place in the server's stream.  The server writes true     *)
(* sizes of at least a PacketHeader, as FlatBufferWriter does.             *)
(***************************************************************************)
EXTENDS Integers, Sequences

CONSTANTS LengthSize,   \* StaticValues.packetLenSize
          BufferSize,   \* StaticValues.bufferSize
          Streams       \* what the server may send: where each packet ends

Gap(e, k) == e[k] - (IF k = 1 THEN 0 ELSE e[k - 1])

ASSUME ResolverSizes == LengthSize \in Nat \ {0} /\ BufferSize \in Nat
ASSUME StreamsOK == \A e \in Streams : e \in Seq(Nat)
ASSUME LengthInside == \A e \in Streams : \A k \in 1..Len(e) : LengthSize < Gap(e, k)
ASSUME MessageFits == \A e \in Streams : \A k \in 1..Len(e) : Gap(e, k) <= BufferSize

VARIABLES
  ends,            \* the stream of this connection
  received,        \* how much of it receives have brought
  messageBuffer,   \* _messageBuffer; -1 is a cleared byte
  remainBytes,     \* _remainBytes; 0 outside OnReceiveTcp
  quantityToRead,  \* _quantityToRead
  currentReaded,   \* _currentReaded
  handled          \* history: the bytes each callback was given

resolverVars == <<ends, received, messageBuffer, remainBytes, quantityToRead,
                  currentReaded, handled>>

Cleared == [i \in 0..(BufferSize - 1) |-> -1]

ResolverInit == /\ ends \in Streams
                /\ received = 0
                /\ messageBuffer = Cleared
                /\ remainBytes = 0
                /\ quantityToRead = 0
                /\ currentReaded = 0
                /\ handled = <<>>

\* Where packet k begins; StartOf(Len(ends) + 1) is the end of the stream.
StartOf(k) == IF k = 1 THEN 0 ELSE ends[k - 1]

Total == StartOf(Len(ends) + 1)

\* A receive has brought n bytes: OnReceiveTcp, up to its loop.
OnReceiveTcp(n) ==
  /\ remainBytes = 0
  /\ received + n <= Total
  /\ received' = received + n
  /\ remainBytes' = n
  /\ UNCHANGED <<ends, messageBuffer, quantityToRead, currentReaded, handled>>

-----------------------------------------------------------------------------
(* The loop *)

\* BitConverter.ToUInt16(_messageBuffer): the size of the packet that begins
\* with this byte; of another byte nothing is known but that it is a number.
SizeAt(byte) ==
  IF \E k \in 1..Len(ends) : StartOf(k) = byte
    THEN ends[CHOOSE k \in 1..Len(ends) : StartOf(k) = byte] - byte
    ELSE BufferSize

\* How much ReadUntil copies: what is wanted, or what there is.
ReadSize(wanted) == IF remainBytes < wanted THEN remainBytes ELSE wanted

\* The BlockCopy of ReadUntil: the next n bytes behind those already read.
Copied(n) ==
  [i \in DOMAIN messageBuffer |->
     IF i \in currentReaded..(currentReaded + n - 1)
       THEN received - remainBytes + (i - currentReaded)
       ELSE messageBuffer[i]]

\* lines 26-36: the length bytes, or some of them
ReadLength ==
  LET n == ReadSize(LengthSize - currentReaded)
      there == currentReaded + n = LengthSize
  IN  /\ remainBytes > 0 /\ currentReaded < LengthSize
      /\ messageBuffer' = Copied(n)
      /\ remainBytes' = remainBytes - n
      /\ currentReaded' = currentReaded + n
      /\ quantityToRead' = IF there THEN SizeAt(messageBuffer'[0]) ELSE LengthSize
      /\ UNCHANGED <<ends, received, handled>>

RestThere == /\ remainBytes > 0 /\ currentReaded >= LengthSize
             /\ remainBytes >= quantityToRead - currentReaded

\* line 38, when the packet is not whole after it
ReadSome ==
  /\ remainBytes > 0 /\ currentReaded >= LengthSize
  /\ ~RestThere
  /\ messageBuffer' = Copied(remainBytes)
  /\ currentReaded' = currentReaded + remainBytes
  /\ remainBytes' = 0
  /\ UNCHANGED <<ends, received, quantityToRead, handled>>

\* Mutant: _currentReaded is set back to the end of the length bytes only.
ClearBytesOnly == /\ messageBuffer' = Cleared
                  /\ currentReaded' = LengthSize

ClearBuffer == /\ messageBuffer' = Cleared
               /\ currentReaded' = 0

\* lines 38-43: the rest of the packet, the callback and ClearBuffer
ReadRest ==
  LET n == quantityToRead - currentReaded
  IN  /\ RestThere
      /\ handled' = Append(handled, [i \in 1..quantityToRead |-> Copied(n)[i - 1]])
      /\ remainBytes' = remainBytes - n
      /\ ClearBuffer
      /\ UNCHANGED <<ends, received, quantityToRead>>

-----------------------------------------------------------------------------
ReceiveAny == \E n \in 1..(Total - received) : OnReceiveTcp(n)

-----------------------------------------------------------------------------
(* Properties *)

(* The variables have their types; what was read stays inside the buffer.   *)
ResolverTypeOK ==
  /\ ends \in Streams /\ received \in 0..Total
  /\ messageBuffer \in [0..(BufferSize - 1) -> Int]
  /\ remainBytes \in 0..received
  /\ quantityToRead \in 0..BufferSize
  /\ currentReaded \in 0..BufferSize

(* However the stream is cut, the callback is given the packets of the      *)
(* server in turn, each whole and with nothing of another one, and none     *)
(* waits for bytes behind it: between two receives every packet that has    *)
(* arrived was handed on (TcpMsgResolver.cs:16-66).                         *)
Packet(k) == [i \in 1..(ends[k] - StartOf(k)) |-> StartOf(k) + i - 1]

Arrived == {k \in 1..Len(ends) : ends[k] <= received}

MessagesWhole ==
  /\ 1..Len(handled) \subseteq Arrived
  /\ \A k \in 1..Len(handled) : handled[k] = Packet(k)
  /\ remainBytes = 0 => Arrived \subseteq 1..Len(handled)
=============================================================================
