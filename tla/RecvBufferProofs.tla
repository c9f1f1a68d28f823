-------------------------- MODULE RecvBufferProofs --------------------------
(***************************************************************************)
(* Proofs about RecvBuffer, for any sizes of the buffer, the header and    *)
(* the packets that satisfy the assumptions, and any stream of the peer.   *)
(***************************************************************************)
EXTENDS RecvBuffer, TLAPS

(* How much of the data OnRecv has been through: its local counts only      *)
(* while it runs.                                                           *)
Parsed == IF pc = "parse" THEN processLen ELSE 0

(* Every packet has at least a header and is at most the largest one.       *)
StreamOK == \A k \in 1..Len(ends) : ends[k] - StartOf(k) \in HeaderSize..MaxPacket

(* Packets that begin at the same byte are the same packet.                 *)
StartsGrow == \A j, k \in 1..(Len(ends) + 1) : j < k => StartOf(j) < StartOf(k)

(* The data in the buffer is the last of what was received, in order.       *)
Window == /\ readPos = 0
          /\ DataSize <= received
          /\ received <= Total
          /\ \A i \in readPos..(writePos - 1) : buffer[i] = received - writePos + i

(* OnRecv stands where the next packet to handle begins.                    *)
AtPacket == /\ Len(handled) <= Len(ends)
            /\ Parsed <= DataSize
            /\ StartOf(Len(handled) + 1) = received - DataSize + Parsed

(* A session that receives has the next packet not yet, or not all of it.   *)
NextIsMissing ==
  pc = "recv" /\ Len(handled) < Len(ends) => received < ends[Len(handled) + 1]

IInv == /\ TypeOK /\ handled \in Seq(Seq(Int))
        /\ StreamOK /\ StartsGrow /\ Window /\ AtPacket
        /\ RoomForMore /\ NextIsMissing
        /\ \A k \in 1..Len(handled) : handled[k] = Packet(k)

Sizes == /\ Capacity \in Nat /\ HeaderSize \in Nat \ {0} /\ MaxPacket \in Nat
         /\ HeaderSize <= MaxPacket /\ MaxPacket <= Capacity

-----------------------------------------------------------------------------
(* What the assumptions say of the sizes.                                   *)
LEMMA SizesOK == Sizes
<1>1. \A m, n \in Nat : m * n \in Nat
  BY Z3
<1>2. QED
  BY <1>1, SizesNat, HeaderFits, PacketFits DEF Sizes, Capacity

(* A place where a packet begins, or the stream ends, is a natural number.  *)
LEMMA StartNat ==
  ASSUME ends \in Seq(Nat), NEW k \in 1..(Len(ends) + 1)
  PROVE  StartOf(k) \in Nat
BY DEF StartOf

(* A packet begins where none of the earlier ones does.                     *)
LEMMA StartLess ==
  ASSUME ends \in Seq(Nat), StartsGrow,
         NEW j \in 1..(Len(ends) + 1), NEW k \in 1..(Len(ends) + 1), j < k
  PROVE  StartOf(j) < StartOf(k)
BY DEF StartsGrow

(* A sequence with an element more.                                         *)
LEMMA Appended ==
  ASSUME NEW S, NEW s \in Seq(S), NEW e \in S
  PROVE  /\ Append(s, e) \in Seq(S) /\ Len(Append(s, e)) = Len(s) + 1
         /\ Append(s, e)[Len(s) + 1] = e
         /\ \A i \in 1..Len(s) : Append(s, e)[i] = s[i]
OBVIOUS

(* Where a header is in the buffer but not read yet, it is the next         *)
(* packet's, and its size is that packet's.                                 *)
LEMMA NextIsThePacket ==
  ASSUME IInv, pc = "parse", Rest >= HeaderSize
  PROVE  LET k == Len(handled) + 1
         IN  /\ k \in 1..Len(ends)
             /\ buffer[readPos + processLen] = StartOf(k)
             /\ NextSize = ends[k] - StartOf(k)
             /\ NextSize \in HeaderSize..MaxPacket
<1> DEFINE k == Len(handled) + 1
<1> USE SizesOK DEF Sizes
<1>1. /\ Len(handled) \in Nat /\ Len(ends) \in Nat /\ Len(handled) <= Len(ends)
      /\ received \in Nat /\ writePos \in Nat /\ readPos = 0 /\ processLen \in Nat
      /\ ends \in Seq(Nat)
  BY DEF IInv, TypeOK, Window, AtPacket
<1>2. StartOf(k) = received - writePos + processLen /\ writePos - processLen >= HeaderSize
  BY <1>1 DEF IInv, AtPacket, Parsed, DataSize, Rest
<1>3. k \in 1..Len(ends)
  <2>1. SUFFICES ASSUME Len(handled) = Len(ends) PROVE FALSE
    BY <1>1
  <2>2. received <= StartOf(k)
    BY <2>1 DEF IInv, Window, Total
  <2>3. QED
    BY <1>1, <1>2, <2>2
<1>4. buffer[readPos + processLen] = StartOf(k)
  BY <1>1, <1>2 DEF IInv, Window
<1>5. \A j \in 1..Len(ends) : StartOf(j) = StartOf(k) => j = k
  <2>1. SUFFICES ASSUME NEW j \in 1..Len(ends), StartOf(j) = StartOf(k), j # k PROVE FALSE
    OBVIOUS
  <2>2. StartOf(j) \in Nat
    BY <1>1, StartNat
  <2>3. j < k \/ k < j
    BY <1>1, <2>1
  <2>4. StartOf(j) < StartOf(k) \/ StartOf(k) < StartOf(j)
    <3>1. j \in 1..(Len(ends) + 1) /\ k \in 1..(Len(ends) + 1)
      BY <1>1, <1>3
    <3>2. CASE j < k
      BY <1>1, <3>1, <3>2, StartLess DEF IInv
    <3>3. CASE k < j
      BY <1>1, <3>1, <3>3, StartLess DEF IInv
    <3>4. QED
      BY <2>3, <3>2, <3>3
  <2>5. QED
    BY <2>1, <2>2, <2>4
<1>6. (CHOOSE j \in 1..Len(ends) : StartOf(j) = StartOf(k)) = k
  BY <1>3, <1>5
<1>7. NextSize = ends[k] - StartOf(k)
  BY <1>3, <1>4, <1>6 DEF NextSize, SizeAt
<1>8. QED
  BY <1>3, <1>4, <1>7 DEF IInv, StreamOK

-----------------------------------------------------------------------------
(* At the start nothing was sent and the buffer is empty.                   *)
LEMMA InitIInv == Init => IInv
<1> SUFFICES ASSUME Init PROVE IInv
  OBVIOUS
<1> USE SizesOK DEF Sizes, Init
<1>1. TypeOK /\ handled \in Seq(Seq(Int))
  BY DEF TypeOK
<1>2. StreamOK /\ StartsGrow
  BY DEF StreamOK, StartsGrow, StartOf
<1>3. Window /\ AtPacket
  BY DEF Window, AtPacket, Parsed, DataSize, Total, StartOf
<1>4. RoomForMore
  BY DEF RoomForMore, FreeSize
<1>5. NextIsMissing
  BY DEF NextIsMissing
<1>6. QED
  BY <1>1, <1>2, <1>3, <1>4, <1>5 DEF IInv

(* A packet more at the end leaves every earlier place as it was.           *)
LEMMA SendKeeps ==
  ASSUME IInv, NEW n \in HeaderSize..MaxPacket, SendPacket(n)
  PROVE  IInv'
<1> USE SizesOK DEF Sizes, SendPacket, positions
<1>1. /\ ends \in Seq(Nat) /\ Len(ends) \in Nat /\ n \in Nat /\ Total \in Nat
      /\ Len(handled) \in Nat
  BY StartNat DEF IInv, TypeOK, Total
<1>2. /\ ends' \in Seq(Nat) /\ Len(ends') = Len(ends) + 1
      /\ \A k \in 1..Len(ends) : ends'[k] = ends[k]
      /\ ends'[Len(ends) + 1] = Total + n
  BY <1>1
<1>3. \A k \in 1..(Len(ends) + 1) : StartOf(k)' = StartOf(k) /\ StartOf(k) \in Nat
  BY <1>1, <1>2, StartNat DEF StartOf
<1>4. Total' = Total + n
  BY <1>1, <1>2 DEF Total, StartOf
<1>5. TypeOK' /\ (handled \in Seq(Seq(Int)))' /\ RoomForMore'
  BY <1>2 DEF IInv, TypeOK, RoomForMore, FreeSize
<1>6. StreamOK'
  <2>1. SUFFICES ASSUME NEW k \in 1..(Len(ends) + 1)
                 PROVE  ends'[k] - StartOf(k)' \in HeaderSize..MaxPacket
    BY <1>2 DEF StreamOK
  <2>2. CASE k \in 1..Len(ends)
    BY <1>2, <1>3, <2>2 DEF IInv, StreamOK
  <2>3. CASE k = Len(ends) + 1
    <3>1. ends'[k] = Total + n /\ StartOf(k)' = Total
      BY <1>2, <1>3, <2>3 DEF Total
    <3>2. QED
      BY <1>1, <3>1
  <2>4. QED
    BY <1>1, <2>2, <2>3
<1>7. StartsGrow'
  <2>1. SUFFICES ASSUME NEW j \in 1..(Len(ends) + 2), NEW k \in 1..(Len(ends) + 2), j < k
                 PROVE  StartOf(j)' < StartOf(k)'
    BY <1>1, <1>2 DEF StartsGrow
  <2>2. CASE k <= Len(ends) + 1
    BY <1>1, <1>2, <2>1, <2>2 DEF IInv, StartsGrow, StartOf
  <2>3. CASE k = Len(ends) + 2
    <3>1. j \in 1..(Len(ends) + 1) /\ Len(ends) + 1 \in 1..(Len(ends) + 1)
      BY <1>1, <2>1, <2>3
    <3>2. ASSUME j < Len(ends) + 1 PROVE StartOf(j) < Total
      BY <1>1, <3>1, <3>2, StartLess DEF IInv, Total
    <3>3. StartOf(j) <= Total
      <4>1. StartOf(j) \in Nat
        BY <1>3, <3>1
      <4>2. CASE j = Len(ends) + 1
        BY <1>1, <4>2 DEF Total
      <4>3. QED
        BY <1>1, <3>1, <3>2, <4>1, <4>2
    <3>4. StartOf(k)' = Total + n
      BY <1>1, <1>2, <2>3 DEF StartOf
    <3>5. QED
      BY <1>1, <1>3, <3>1, <3>3, <3>4
  <2>4. QED
    BY <1>1, <2>2, <2>3
<1>8. Window'
  BY <1>1, <1>4 DEF IInv, TypeOK, Window, DataSize
<1>9. AtPacket'
  BY <1>1, <1>2, <1>3 DEF IInv, AtPacket, Parsed, DataSize
<1>10. \A k \in 1..Len(handled') : handled'[k] = Packet(k)'
  <2>1. SUFFICES ASSUME NEW k \in 1..Len(handled) PROVE handled[k] = Packet(k)'
    OBVIOUS
  <2>2. k \in 1..Len(ends) /\ k \in 1..(Len(ends) + 1)
    BY <1>1 DEF IInv, AtPacket
  <2>3. ends'[k] = ends[k] /\ StartOf(k)' = StartOf(k)
    BY <1>2, <1>3, <2>2
  <2>4. QED
    BY <2>3 DEF IInv, Packet
<1>11. NextIsMissing'
  <2>1. SUFFICES ASSUME pc = "recv", Len(handled) < Len(ends)'
                 PROVE  received < ends'[Len(handled) + 1]
    BY DEF NextIsMissing
  <2>2. Len(handled) <= Len(ends) /\ received \in Nat /\ received <= Total
    BY DEF IInv, AtPacket, Window, TypeOK
  <2>3. CASE Len(handled) < Len(ends)
    <3>1. Len(handled) + 1 \in 1..Len(ends)
      BY <1>1, <2>3
    <3>2. QED
      BY <1>2, <2>1, <2>3, <3>1 DEF IInv, NextIsMissing
  <2>4. CASE Len(handled) = Len(ends)
    BY <1>1, <1>2, <2>2, <2>4
  <2>5. QED
    BY <1>1, <2>2, <2>3, <2>4
<1>12. QED
  BY <1>5, <1>6, <1>7, <1>8, <1>9, <1>10, <1>11 DEF IInv

(* The bytes that arrive continue the data; there was room, so at least one *)
(* arrives.                                                                 *)
LEMMA ReceiveKeeps ==
  ASSUME IInv, NEW n \in 0..FreeSize, Receive(n)
  PROVE  IInv'
<1> USE SizesOK DEF Sizes, Receive
<1>1. /\ ends \in Seq(Nat) /\ received \in Nat /\ readPos = 0
      /\ writePos \in 0..Capacity /\ FreeSize \in Nat /\ FreeSize > 0
      /\ buffer \in [0..(Capacity - 1) -> Int]
  BY DEF IInv, TypeOK, Window, RoomForMore, FreeSize
<1>2. n \in 1..FreeSize /\ received + n <= Total
  BY <1>1 DEF Receivable
<1>3. pc' = "parse" /\ writePos' = writePos + n /\ received' = received + n
  BY <1>1, <1>2
<1>4. TypeOK' /\ (handled \in Seq(Seq(Int)))'
  BY <1>1, <1>2, <1>3 DEF IInv, TypeOK, FreeSize
<1>5. StreamOK' /\ StartsGrow'
  BY DEF IInv, StreamOK, StartsGrow, StartOf
<1>6. Window'
  <2>1. \A i \in 0..(writePos + n - 1) : buffer'[i] = received + n - (writePos + n) + i
    BY <1>1, <1>2 DEF IInv, Window, FreeSize
  <2>2. Total' = Total
    BY DEF Total, StartOf
  <2>3. QED
    <3>1. readPos' = 0 /\ writePos \in Nat /\ n \in Nat
      BY <1>1, <1>2
    <3>2. DataSize' <= received' /\ received' <= Total'
      BY <1>1, <1>2, <1>3, <2>2, <3>1 DEF IInv, Window, DataSize
    <3>3. \A i \in readPos'..(writePos' - 1) : buffer'[i] = received' - writePos' + i
      <4> HIDE DEF Receive
      <4>1. SUFFICES ASSUME NEW i \in 0..(writePos + n - 1)
                     PROVE  buffer'[i] = received' - writePos' + i
        BY <1>3, <3>1
      <4>2. buffer'[i] = received + n - (writePos + n) + i
        BY <2>1
      <4>3. received' - writePos' = received + n - (writePos + n)
        BY <1>1, <1>3, <3>1
      <4>4. QED
        BY <4>2, <4>3
    <3>4. QED
      BY <3>1, <3>2, <3>3 DEF Window
<1>7. AtPacket'
  BY <1>1, <1>2, <1>3 DEF IInv, AtPacket, Parsed, DataSize, StartOf
<1>8. RoomForMore'
  BY <1>3 DEF RoomForMore
<1>9. \A k \in 1..Len(handled') : handled'[k] = Packet(k)'
  BY DEF IInv, Packet, StartOf
<1>10. NextIsMissing'
  BY <1>3 DEF NextIsMissing
<1>11. QED
  BY <1>4, <1>5, <1>6, <1>7, <1>8, <1>9, <1>10 DEF IInv

(* What OnRecvPacket is given is the next packet, and OnRecv moves to the   *)
(* one behind it.                                                           *)
LEMMA HandleKeeps ==
  ASSUME IInv, HandlePacket
  PROVE  IInv'
<1> DEFINE k == Len(handled) + 1
           bytes == [i \in 1..NextSize |-> buffer[readPos + processLen + i - 1]]
<1> USE SizesOK DEF Sizes, HandlePacket, positions
<1>1. /\ ends \in Seq(Nat) /\ received \in Nat /\ writePos \in 0..Capacity /\ readPos = 0
      /\ processLen \in Nat /\ handled \in Seq(Seq(Int)) /\ Len(handled) \in Nat
      /\ buffer \in [0..(Capacity - 1) -> Int]
  BY DEF IInv, TypeOK, Window
<1>2. /\ k \in 1..Len(ends) /\ NextSize = ends[k] - StartOf(k)
      /\ NextSize \in HeaderSize..MaxPacket
  BY NextIsThePacket DEF PacketThere
<1>3. NextSize \in Nat /\ NextSize <= writePos - processLen
  BY <1>1, <1>2 DEF PacketThere, Rest, DataSize
<1>4. StartOf(k) = received - writePos + processLen /\ StartOf(k) \in Nat
  <2>1. StartOf(k) = received - DataSize + Parsed
    BY DEF IInv, AtPacket
  <2>2. DataSize = writePos /\ Parsed = processLen
    BY <1>1 DEF DataSize, Parsed, PacketThere
  <2>3. k \in 1..(Len(ends) + 1)
    BY <1>1, <1>2
  <2>4. StartOf(k) \in Nat
    BY <1>1, <2>3, StartNat
  <2>5. QED
    BY <1>1, <2>1, <2>2, <2>4
<1>5. \A i \in 1..NextSize : buffer[readPos + processLen + i - 1] = StartOf(k) + i - 1
  BY <1>1, <1>3, <1>4 DEF IInv, Window
<1>6. bytes = Packet(k)
  BY <1>2, <1>5 DEF Packet
<1>7. bytes \in Seq(Int)
  <2>1. \A i \in 1..NextSize : buffer[readPos + processLen + i - 1] \in Int
    BY <1>3, <1>4, <1>5
  <2>2. QED
    BY <1>3, <2>1
<1>8. /\ handled' \in Seq(Seq(Int)) /\ Len(handled') = k
      /\ handled'[k] = bytes /\ \A j \in 1..Len(handled) : handled'[j] = handled[j]
  <2> DEFINE S == Seq(Int)
  <2>1. handled' = Append(handled, bytes) /\ handled \in Seq(S) /\ bytes \in S
    BY <1>1, <1>7
  <2> HIDE DEF S, HandlePacket, bytes
  <2>2. /\ Append(handled, bytes) \in Seq(S) /\ Len(Append(handled, bytes)) = k
        /\ Append(handled, bytes)[k] = bytes
        /\ \A j \in 1..Len(handled) : Append(handled, bytes)[j] = handled[j]
    BY <2>1, Appended
  <2> USE DEF S
  <2>3. QED
    BY <2>1, <2>2
<1>9. TypeOK' /\ StreamOK' /\ StartsGrow' /\ Window' /\ RoomForMore'
  BY <1>1, <1>3 DEF IInv, TypeOK, StreamOK, StartsGrow, Window, RoomForMore, FreeSize, DataSize,
                    Total, StartOf
<1>10. AtPacket'
  <2>1. StartOf(Len(handled) + 1)' = ends[k]
    BY <1>1, <1>2, <1>8 DEF StartOf
  <2>2. QED
    <3>1. Parsed' = processLen + NextSize /\ DataSize' = writePos /\ Len(handled') <= Len(ends')
      BY <1>1, <1>2, <1>8 DEF Parsed, DataSize
    <3>2. ends[k] = received - writePos + (processLen + NextSize)
      <4>1. ends[k] \in Nat
        <5> HIDE DEF HandlePacket, Sizes
        <5>1. QED
          BY <1>1, <1>2
      <4>2. ends[k] = StartOf(k) + NextSize
        BY <1>2, <1>3, <1>4, <4>1
      <4>3. QED
        BY <1>1, <1>3, <1>4, <4>2
    <3>3. processLen + NextSize <= writePos
      BY <1>1, <1>3
    <3>4. QED
      BY <2>1, <3>1, <3>2, <3>3 DEF AtPacket
<1>11. \A j \in 1..Len(handled') : handled'[j] = Packet(j)'
  <2>1. \A j \in 1..Len(handled') : Packet(j)' = Packet(j)
    BY DEF Packet, StartOf
  <2>2. \A j \in 1..Len(handled) : handled'[j] = Packet(j)
    BY <1>8 DEF IInv
  <2>3. QED
    <3>1. SUFFICES ASSUME NEW j \in 1..k PROVE handled'[j] = Packet(j)'
      BY <1>8
    <3>2. j \in 1..Len(handled) \/ j = k
      BY <1>1
    <3>3. CASE j = k
      <4>1. handled'[k] = Packet(k)
        BY <1>6, <1>8
      <4>2. Packet(j)' = Packet(k)
        BY <3>3, <2>1, <1>8
      <4>3. QED
        BY <3>3, <4>1, <4>2
    <3>4. QED
      BY <1>8, <2>1, <2>2, <3>2, <3>3
<1>12. NextIsMissing'
  BY DEF NextIsMissing
<1>13. QED
  BY <1>8, <1>9, <1>10, <1>11, <1>12 DEF IInv

(* OnRecv leaves less than a packet, and Clean moves it to the front.       *)
LEMMA FinishKeeps ==
  ASSUME IInv, FinishRecv
  PROVE  IInv'
<1> USE SizesOK DEF Sizes, FinishRecv, positions
<1>1. /\ ends \in Seq(Nat) /\ received \in Nat /\ writePos \in 0..Capacity /\ readPos = 0
      /\ processLen \in Nat /\ processLen <= writePos /\ Rest = writePos - processLen
      /\ buffer \in [0..(Capacity - 1) -> Int]
  BY DEF IInv, TypeOK, Window, AtPacket, Parsed, DataSize, Rest
<1>2. /\ pc' = "recv" /\ readPos' = 0 /\ writePos' = Rest
      /\ buffer' = [i \in DOMAIN buffer |->
                      IF i < Rest THEN buffer[processLen + i] ELSE buffer[i]]
  BY <1>1 DEF Clean, DataSize
<1>3. Rest < MaxPacket
  <2>1. CASE Rest < HeaderSize
    BY <1>1, <2>1
  <2>2. CASE Rest >= HeaderSize
    <3>1. NextSize \in HeaderSize..MaxPacket
      BY <2>2, NextIsThePacket
    <3>2. QED
      BY <1>1, <2>2, <3>1 DEF PacketThere
  <2>3. QED
    BY <1>1, <2>1, <2>2
<1>4. buffer' \in [0..(Capacity - 1) -> Int]
  BY <1>1, <1>2
<1>5. TypeOK' /\ (handled \in Seq(Seq(Int)))'
  BY <1>1, <1>2, <1>4 DEF IInv, TypeOK
<1>6. StreamOK' /\ StartsGrow'
  BY DEF IInv, StreamOK, StartsGrow, StartOf
<1>7. Window'
  <2>1. \A i \in 0..(Rest - 1) : buffer'[i] = received - Rest + i
    BY <1>1, <1>2 DEF IInv, Window
  <2>2. Total' = Total
    BY DEF Total, StartOf
  <2>3. QED
    BY <1>1, <1>2, <2>1, <2>2 DEF IInv, Window, DataSize
<1>8. AtPacket'
  BY <1>1, <1>2 DEF IInv, AtPacket, Parsed, DataSize, StartOf
<1>9. RoomForMore'
  BY <1>1, <1>2, <1>3 DEF RoomForMore, FreeSize, Capacity
<1>10. \A k \in 1..Len(handled') : handled'[k] = Packet(k)'
  BY DEF IInv, Packet, StartOf
<1>11. NextIsMissing'
  <2> DEFINE k == Len(handled) + 1
  <2>1. SUFFICES ASSUME Len(handled) < Len(ends) PROVE received < ends[k]
    BY DEF NextIsMissing
  <2>2. k \in 1..Len(ends) /\ k \in 1..(Len(ends) + 1) /\ ends[k] \in Nat
    BY <1>1, <2>1 DEF IInv
  <2>3. StartOf(k) \in Nat
    BY <1>1, <2>2, StartNat
  <2>4. StartOf(k) = received - Rest
    BY <1>1 DEF IInv, AtPacket, Parsed, DataSize
  <2>5. ends[k] - StartOf(k) \in HeaderSize..MaxPacket
    BY <2>2 DEF IInv, StreamOK
  <2>6. CASE Rest < HeaderSize
    BY <1>1, <2>2, <2>3, <2>4, <2>5, <2>6
  <2>7. CASE Rest >= HeaderSize
    <3>1. NextSize = ends[k] - StartOf(k)
      BY <2>7, NextIsThePacket
    <3>2. ~(Rest >= NextSize)
      BY <2>7 DEF PacketThere
    <3>3. Rest < ends[k] - StartOf(k)
      <4>1. Rest \in Int /\ ends[k] - StartOf(k) \in Int
        BY <1>1, <2>2, <2>3
      <4>2. QED
        BY <3>1, <3>2, <4>1
    <3>4. received \in Int /\ Rest \in Int /\ ends[k] \in Int
      BY <1>1, <2>2
    <3> HIDE DEF FinishRecv, k, Sizes
    <3>5. QED
      BY <2>4, <3>3, <3>4
  <2>8. QED
    BY <1>1, <2>6, <2>7
<1>12. QED
  BY <1>5, <1>6, <1>7, <1>8, <1>9, <1>10, <1>11 DEF IInv

(* Nothing changes in a step that leaves every variable alone.              *)
LEMMA StutterKeeps == IInv /\ UNCHANGED vars => IInv'
BY DEF IInv, vars, positions, TypeOK, StreamOK, StartsGrow, Window, AtPacket, Parsed,
       RoomForMore, NextIsMissing, Packet, StartOf, Total, FreeSize, DataSize

(* The strengthened invariant holds in every state.                         *)
THEOREM IInvHolds == Spec => []IInv
<1>1. IInv /\ [Next]_vars => IInv'
  BY SendKeeps, ReceiveKeeps, HandleKeeps, FinishKeeps, StutterKeeps DEF Next, ReceiveSome
<1>2. QED
  BY InitIInv, <1>1, PTL DEF Spec

-----------------------------------------------------------------------------
(* The positions stay in order and inside the buffer, whatever sizes the    *)
(* packets have and however the network cuts them.                          *)
THEOREM TypeCorrect == Spec => []TypeOK
<1>1. IInv => TypeOK
  BY DEF IInv
<1>2. QED
  BY IInvHolds, <1>1, PTL

(* A session never receives into a full buffer, provided that the largest   *)
(* packet fits the buffer.                                                  *)
THEOREM AlwaysRoom == Spec => []RoomForMore
<1>1. IInv => RoomForMore
  BY DEF IInv
<1>2. QED
  BY IInvHolds, <1>1, PTL

(* What was handled is the packets up to the parsed place of the stream.    *)
LEMMA HandledArrived ==
  ASSUME IInv, NEW k \in 1..Len(ends)
  PROVE  /\ k <= Len(handled) => ends[k] <= received
         /\ pc = "recv" /\ Len(handled) < k => received < ends[k]
<1> DEFINE next == Len(handled) + 1
<1>1. /\ ends \in Seq(Nat) /\ Len(ends) \in Nat /\ Len(handled) \in Nat
      /\ Len(handled) <= Len(ends) /\ received \in Nat /\ StartsGrow
  BY DEF IInv, TypeOK, AtPacket
<1>2. k + 1 \in 1..(Len(ends) + 1) /\ next \in 1..(Len(ends) + 1) /\ ends[k] \in Nat
  BY <1>1
<1>3. ends[k] = StartOf(k + 1)
  BY <1>1, <1>2 DEF StartOf
<1>4. ASSUME k <= Len(handled) PROVE ends[k] <= received
  <2>1. StartOf(next) <= received
    <3>1. DataSize \in Nat /\ Parsed \in Nat /\ Parsed <= DataSize
      BY DEF IInv, AtPacket, TypeOK, Parsed, DataSize
    <3>2. StartOf(next) = received - DataSize + Parsed
      BY DEF IInv, AtPacket
    <3>3. QED
      BY <1>1, <3>1, <3>2
  <2>2. StartOf(next) \in Nat /\ StartOf(k + 1) \in Nat
    BY <1>1, <1>2, StartNat
  <2>3. CASE k + 1 = next
    BY <1>3, <2>1, <2>3
  <2>4. CASE k + 1 < next
    BY <1>1, <1>2, <1>3, <2>1, <2>2, <2>4, StartLess
  <2>5. QED
    BY <1>1, <1>4, <2>3, <2>4
<1>5. ASSUME pc = "recv", Len(handled) < k PROVE received < ends[k]
  <2>1. next \in 1..Len(ends) /\ ends[next] \in Nat
    BY <1>1, <1>5
  <2>2. received < ends[next]
    BY <1>1, <1>5 DEF IInv, NextIsMissing
  <2>3. CASE k = next
    BY <2>2, <2>3
  <2>4. CASE next < k
    <3>1. next + 1 \in 1..(Len(ends) + 1) /\ next + 1 < k + 1
      BY <1>1, <2>1, <2>4
    <3>2. StartOf(next + 1) < StartOf(k + 1)
      BY <1>1, <1>2, <3>1, StartLess
    <3>3. StartOf(next + 1) = ends[next]
      BY <1>1 DEF StartOf
    <3>4. QED
      BY <1>1, <1>2, <1>3, <2>1, <2>2, <3>2, <3>3
  <2>5. QED
    BY <1>1, <1>5, <2>3, <2>4
<1>6. QED
  BY <1>4, <1>5

(* OnRecvPacket is given exactly the packets of the peer, in their order,   *)
(* and each before the receive that follows its last byte.                  *)
THEOREM PacketsAreWhole == Spec => []PacketsWhole
<1>1. ASSUME IInv PROVE PacketsWhole
  <2>1. Len(handled) \in Nat /\ Len(ends) \in Nat /\ Len(handled) <= Len(ends)
    BY <1>1 DEF IInv, TypeOK, AtPacket
  <2>2. 1..Len(handled) \subseteq Arrived
    <3>1. SUFFICES ASSUME NEW k \in 1..Len(handled) PROVE k \in Arrived
      OBVIOUS
    <3>2. k \in 1..Len(ends) /\ k <= Len(handled)
      BY <2>1
    <3>3. QED
      BY <1>1, <3>2, HandledArrived DEF Arrived
  <2>3. pc = "recv" => Arrived \subseteq 1..Len(handled)
    <3>1. SUFFICES ASSUME pc = "recv", NEW k \in Arrived PROVE k \in 1..Len(handled)
      OBVIOUS
    <3>2. k \in 1..Len(ends) /\ ends[k] <= received /\ ends[k] \in Nat /\ received \in Nat
      BY <1>1 DEF Arrived, IInv, TypeOK
    <3>3. ~(Len(handled) < k)
      BY <1>1, <3>1, <3>2, HandledArrived
    <3>4. QED
      BY <2>1, <3>2, <3>3
  <2>4. \A k \in 1..Len(handled) : handled[k] = Packet(k)
    BY <1>1 DEF IInv
  <2>5. QED
    BY <2>2, <2>3, <2>4 DEF PacketsWhole
<1>2. QED
  BY IInvHolds, <1>1, PTL
=============================================================================
