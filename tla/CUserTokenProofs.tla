-------------------------- MODULE CUserTokenProofs --------------------------
(***************************************************************************)
(* What the C# client promises for any number of threads, packets and      *)
(* messages and any stream of the server: packets are put together whole   *)
(* (MessagesWhole), messages are sent in order, each with its own content  *)
(* (SentInOrder), and one at a time (SendTurn).                            *)
(*                                                                         *)
(* The receive loop stands at one place of the stream: the packets that it *)
(* has handed on, and the bytes of the next one that it has (AtPlace).     *)
(* A CPacket is in one place, the pool, the queue or one thread's hands    *)
(* (Apart), so that nobody writes a packet of the queue; the queue holds   *)
(* the messages that were put into it and not yet given to the socket      *)
(* (Waiting).                                                              *)
(***************************************************************************)
EXTENDS CUserToken, TLAPS, FiniteSetTheorems, WellFoundedInduction

-----------------------------------------------------------------------------
(* The stream *)

LEMMA LeastOfNats ==
  ASSUME NEW S, S \subseteq Nat, S # {}
  PROVE  \E x \in S : \A y \in S : x <= y
<1>1. \E x \in S : \A y \in S : <<y, x>> \notin OpToRel(<, Nat)
  BY NatLessThanWellFounded, WFMin, Zenon
<1>2. PICK x \in S : \A y \in S : <<y, x>> \notin OpToRel(<, Nat)
  BY <1>1
<1> SUFFICES ASSUME NEW y \in S PROVE x <= y
  OBVIOUS
<1>3. x \in Nat /\ y \in Nat
  OBVIOUS
<1>4. ASSUME y < x PROVE FALSE
  <2>1. <<y, x>> \in Nat \X Nat /\ <<y, x>>[1] < <<y, x>>[2]
    BY <1>3, <1>4
  <2> QED
    BY <1>2, <2>1 DEF OpToRel
<1> QED
  BY <1>3, <1>4

\* Each packet begins where the one before it ends, and is longer than its
\* length bytes.
LEMMA StreamFacts ==
  ASSUME ends \in Streams
  PROVE  /\ Len(ends) \in Nat /\ StartOf(1) = 0 /\ Total = StartOf(Len(ends) + 1)
         /\ \A k \in 1..Len(ends) + 1 : StartOf(k) \in Nat
         /\ \A k \in 1..Len(ends) :
              /\ StartOf(k + 1) = ends[k] /\ StartOf(k) + LengthSize < ends[k]
              /\ ends[k] - StartOf(k) <= BufferSize
<1>1. ends \in Seq(Nat)
  BY StreamsOK
<1>2. PICK n \in Nat : n = Len(ends) /\ DOMAIN ends = 1..n
  BY <1>1
<1>3. \A k \in 1..n : ends[k] \in Nat
  BY <1>1, <1>2
<1>4. \A k \in 1..n + 1 : k = 1 \/ k - 1 \in 1..n
  BY <1>2
<1>5. \A k \in 1..n + 1 : StartOf(k) \in Nat
  BY <1>3, <1>4 DEF StartOf
<1>6. ASSUME NEW k \in 1..n
      PROVE  /\ StartOf(k + 1) = ends[k] /\ StartOf(k) + LengthSize < ends[k]
             /\ ends[k] - StartOf(k) <= BufferSize
  <2>1. k + 1 # 1 /\ (k + 1) - 1 = k /\ k \in 1..n + 1
    BY <1>6
  <2>2. LengthSize < Gap(ends, k) /\ Gap(ends, k) <= BufferSize
    BY <1>2, <1>6, LengthInside, MessageFits
  <2>3. Gap(ends, k) = ends[k] - StartOf(k)
    BY DEF Gap, StartOf
  <2>4. StartOf(k) \in Nat /\ ends[k] \in Nat /\ LengthSize \in Nat
    BY <1>3, <1>5, <2>1, ResolverSizes
  <2>5. StartOf(k + 1) = ends[k]
    BY <2>1 DEF StartOf
  <2> QED
    BY <2>2, <2>3, <2>4, <2>5
<1> QED
  BY <1>2, <1>5, <1>6 DEF StartOf, Total

LEMMA Ascending ==
  ASSUME ends \in Streams, NEW j \in 1..Len(ends) + 1, NEW k \in 1..Len(ends) + 1, j < k
  PROVE  StartOf(j) < StartOf(k)
<1> DEFINE n == Len(ends)
           S == {i \in 1..n + 1 : j < i /\ ~(StartOf(j) < StartOf(i))}
<1>0. n \in Nat
  BY StreamFacts
<1>1. ASSUME S # {} PROVE FALSE
  <2>1. S \subseteq Nat
    BY <1>0
  <2>2. PICK i \in S : \A y \in S : i <= y
    BY <1>1, <2>1, LeastOfNats
  <2>3. i \in 1..n + 1 /\ j < i /\ ~(StartOf(j) < StartOf(i)) /\ i - 1 \in 1..n /\ j <= i - 1
        /\ (i - 1) + 1 = i /\ i - 1 \in 1..n + 1 /\ ~(i <= i - 1)
    BY <1>0, <2>2
  <2>4. i - 1 \notin S
    BY <2>2, <2>3
  <2>5. j = i - 1 \/ StartOf(j) < StartOf(i - 1)
    BY <2>3, <2>4
  <2>6. StartOf(i) = ends[i - 1] /\ StartOf(i - 1) + LengthSize < ends[i - 1]
    BY <2>3, StreamFacts
  <2>7. StartOf(j) \in Nat /\ StartOf(i) \in Nat /\ StartOf(i - 1) \in Nat /\ LengthSize \in Nat
    BY <2>3, StreamFacts, ResolverSizes
  <2> QED
    BY <2>3, <2>5, <2>6, <2>7
<1>2. k \notin S
  BY <1>1
<1> QED
  BY <1>2

\* The length bytes of a packet say its size.
LEMMA SizeFound ==
  ASSUME ends \in Streams, NEW k \in 1..Len(ends)
  PROVE  SizeAt(StartOf(k)) = ends[k] - StartOf(k)
<1>1. \A j \in 1..Len(ends) : StartOf(j) = StartOf(k) => j = k
  <2> SUFFICES ASSUME NEW j \in 1..Len(ends), StartOf(j) = StartOf(k), j # k PROVE FALSE
    OBVIOUS
  <2>1. j \in 1..Len(ends) + 1 /\ k \in 1..Len(ends) + 1 /\ (j < k \/ k < j)
    BY StreamFacts
  <2>2. StartOf(j) < StartOf(k) \/ StartOf(k) < StartOf(j)
    BY <2>1, Ascending
  <2>3. StartOf(j) \in Nat /\ StartOf(k) \in Nat
    BY <2>1, StreamFacts
  <2> QED
    BY <2>2, <2>3
<1>2. (CHOOSE j \in 1..Len(ends) : StartOf(j) = StartOf(k)) = k
  BY <1>1
<1> QED
  BY <1>2 DEF SizeAt
-----------------------------------------------------------------------------
(* The receive loop *)

\* The packet whose bytes come next, and where it begins.
Current == Len(handled) + 1

Base == StartOf(Current)

Packets == {Packet(k) : k \in 1..Len(ends)}

AtPlace ==
  /\ handled \in Seq(Packets) /\ Len(handled) <= Len(ends)
  /\ \A k \in 1..Len(handled) : handled[k] = Packet(k)
  /\ received = Base + currentReaded + remainBytes
  /\ currentReaded > 0 => Current <= Len(ends) /\ currentReaded < ends[Current] - Base
  /\ currentReaded >= LengthSize => quantityToRead = ends[Current] - Base
  /\ \A i \in 0..(currentReaded - 1) : messageBuffer[i] = Base + i

LEMMA PlaceFacts ==
  ASSUME ResolverTypeOK, AtPlace
  PROVE  /\ ends \in Streams /\ Len(handled) \in Nat /\ Len(ends) \in Nat
         /\ Current \in 1..Len(ends) + 1 /\ Base \in Nat /\ Total \in Nat
         /\ received \in Nat /\ received <= Total /\ remainBytes \in Nat
         /\ currentReaded \in Nat /\ quantityToRead \in Nat
         /\ currentReaded >= LengthSize => currentReaded > 0
<1>1. ends \in Streams
  BY DEF ResolverTypeOK
<1>2. Len(handled) \in Nat /\ Len(ends) \in Nat
  BY <1>1, StreamFacts DEF AtPlace
<1>3. Current \in 1..Len(ends) + 1 /\ Len(ends) + 1 \in 1..Len(ends) + 1
  BY <1>2 DEF Current, AtPlace
<1>4. Base \in Nat /\ Total \in Nat
  BY <1>1, <1>3, StreamFacts DEF Base
<1>5. received \in Nat /\ received <= Total
  BY <1>4 DEF ResolverTypeOK
<1>6. remainBytes \in Nat /\ currentReaded \in Nat /\ quantityToRead \in Nat
  BY <1>5, ResolverSizes DEF ResolverTypeOK
<1> QED
  BY <1>1, <1>2, <1>3, <1>4, <1>5, <1>6, ResolverSizes

\* As long as there are bytes to read, there is a packet they belong to.
LEMMA CurrentThere ==
  ASSUME ResolverTypeOK, AtPlace, remainBytes > 0
  PROVE  /\ Current \in 1..Len(ends) /\ ends[Current] \in Nat
         /\ StartOf(Current + 1) = ends[Current] /\ Base + LengthSize < ends[Current]
         /\ ends[Current] - Base <= BufferSize
<1>1. Current # Len(ends) + 1
  BY PlaceFacts, StreamFacts DEF AtPlace, Base
<1>2. Current \in 1..Len(ends)
  BY <1>1, PlaceFacts
<1>3. /\ StartOf(Current + 1) = ends[Current] /\ StartOf(Current) + LengthSize < ends[Current]
      /\ ends[Current] - StartOf(Current) <= BufferSize
  BY <1>2, PlaceFacts, StreamFacts
<1>4. Current + 1 \in 1..Len(ends) + 1
  BY <1>2, PlaceFacts
<1>5. ends[Current] \in Nat
  BY <1>3, <1>4, PlaceFacts, StreamFacts
<1> QED
  BY <1>2, <1>3, <1>5 DEF Base

\* ReadUntil puts the next bytes where they belong.
LEMMA CopiedFacts ==
  ASSUME ResolverTypeOK, AtPlace, NEW n \in Nat, n <= remainBytes,
         currentReaded + n <= BufferSize
  PROVE  /\ Copied(n) \in [0..(BufferSize - 1) -> Int]
         /\ \A i \in 0..(currentReaded + n - 1) : Copied(n)[i] = Base + i
<1>1. /\ messageBuffer \in [0..(BufferSize - 1) -> Int] /\ BufferSize \in Nat
      /\ received - remainBytes = Base + currentReaded
  BY PlaceFacts, ResolverSizes DEF ResolverTypeOK, AtPlace
<1>2. \A i \in 0..(BufferSize - 1) :
        Copied(n)[i] = IF i \in currentReaded..(currentReaded + n - 1)
                         THEN received - remainBytes + (i - currentReaded)
                         ELSE messageBuffer[i]
  BY <1>1 DEF Copied
<1>3. DOMAIN Copied(n) = 0..(BufferSize - 1) /\ Copied(n) = [i \in DOMAIN Copied(n) |-> Copied(n)[i]]
  BY <1>1 DEF Copied
<1>4. ASSUME NEW i \in 0..(BufferSize - 1) PROVE Copied(n)[i] \in Int
  <2>1. messageBuffer[i] \in Int /\ received - remainBytes + (i - currentReaded) \in Int
    <3>1. messageBuffer[i] \in Int
      BY <1>1
    <3>2. received - remainBytes \in Int /\ currentReaded \in Int
      BY PlaceFacts
    <3> QED
      BY <3>1, <3>2
  <2> QED
    BY <1>2, <2>1
<1>5. ASSUME NEW i \in 0..(currentReaded + n - 1) PROVE Copied(n)[i] = Base + i
  <2>1. i \in 0..(BufferSize - 1)
    <3>1. BufferSize \in Nat /\ currentReaded \in Nat /\ currentReaded + n <= BufferSize
      BY <1>1, PlaceFacts
    <3> QED
      BY <1>5, <3>1
  <2>2. CASE i \in currentReaded..(currentReaded + n - 1)
    BY <1>1, <1>2, <2>1, <2>2, PlaceFacts
  <2>3. CASE i \notin currentReaded..(currentReaded + n - 1)
    <3>1. i \in 0..(currentReaded - 1)
      BY <1>5, <2>3, PlaceFacts
    <3> QED
      BY <1>2, <2>1, <2>3, <3>1 DEF AtPlace
  <2> QED
    BY <2>2, <2>3
<1> QED
  BY <1>3, <1>4, <1>5

LEMMA ResolverStep ==
  ASSUME ResolverTypeOK, AtPlace, ReceiveAny \/ ReadLength \/ ReadSome \/ ReadRest
  PROVE  ResolverTypeOK' /\ AtPlace'
<1>0. /\ ends' = ends /\ ends \in Streams
      /\ Total' = Total /\ \A k : StartOf(k)' = StartOf(k) /\ Packet(k)' = Packet(k)
  BY PlaceFacts DEF ReceiveAny, OnReceiveTcp, ReadLength, ReadSome, ReadRest, Total, StartOf, Packet
<1>1. Packets' = Packets
  BY <1>0 DEF Packets
<1>2. CASE ReceiveAny
  <2>1. PICK n \in 1..(Total - received) :
          /\ remainBytes = 0 /\ received + n <= Total
          /\ received' = received + n /\ remainBytes' = n
          /\ UNCHANGED <<messageBuffer, quantityToRead, currentReaded, handled>>
    BY <1>2 DEF ReceiveAny, OnReceiveTcp
  <2>2. Current' = Current /\ Base' = Base
    BY <1>0, <2>1 DEF Current, Base
  <2>3. ResolverTypeOK'
    BY <1>0, <2>1, PlaceFacts DEF ResolverTypeOK
  <2>4. AtPlace'
    <3>1. received' = Base' + currentReaded' + remainBytes'
      <4>1. PICK base \in Nat, cr \in Nat : base = Base /\ cr = currentReaded
        BY PlaceFacts
      <4>2. received = base + cr
        BY <2>1, <4>1 DEF AtPlace
      <4>3. received' = received + n /\ Base' = base /\ currentReaded' = cr /\ remainBytes' = n
        BY <2>1, <2>2, <4>1
      <4> QED
        BY <4>2, <4>3
    <3> QED
      BY <1>0, <1>1, <2>1, <2>2, <3>1 DEF AtPlace
  <2> QED
    BY <2>3, <2>4
<1>3. CASE ReadLength
  <2>1. PICK n : n = ReadSize(LengthSize - currentReaded)
    OBVIOUS
  <2>2. remainBytes > 0 /\ currentReaded < LengthSize
    BY <1>3 DEF ReadLength
  <2>3. n \in Nat \ {0} /\ n <= remainBytes /\ currentReaded + n <= LengthSize
    BY <2>1, <2>2, PlaceFacts, ResolverSizes DEF ReadSize
  <2>4. currentReaded + n < ends[Current] - Base /\ currentReaded + n <= BufferSize
        /\ LengthSize <= BufferSize
    <3>1. PICK e \in Nat, base \in Nat, size \in Nat, bs \in Nat, cr \in Nat :
            /\ e = ends[Current] /\ base = Base /\ size = LengthSize /\ bs = BufferSize
            /\ cr = currentReaded
      BY <2>2, CurrentThere, PlaceFacts, ResolverSizes
    <3>2. base + size < e /\ e - base <= bs
      BY <2>2, <3>1, CurrentThere
    <3>3. n \in Nat /\ cr + n <= size
      BY <2>3, <3>1
    <3>4. cr + n < e - base /\ cr + n <= bs /\ size <= bs
      BY <3>2, <3>3
    <3> QED
      BY <3>1, <3>4
  <2>5. PICK b : b = Copied(n) /\ b \in [0..(BufferSize - 1) -> Int]
                 /\ \A i \in 0..(currentReaded + n - 1) : b[i] = Base + i
    BY <2>3, <2>4, CopiedFacts
  <2>6. /\ messageBuffer' = b /\ remainBytes' = remainBytes - n
        /\ currentReaded' = currentReaded + n
        /\ UNCHANGED <<received, handled>>
        /\ quantityToRead' = IF currentReaded + n = LengthSize THEN SizeAt(b[0]) ELSE LengthSize
    BY <1>3, <2>1, <2>5 DEF ReadLength
  <2>7. Current' = Current /\ Base' = Base
    BY <1>0, <2>6 DEF Current, Base
  <2>8. b[0] = Base
    <3>1. 0 \in 0..(currentReaded + n - 1)
      BY <2>3, PlaceFacts
    <3> QED
      BY <2>5, <3>1, PlaceFacts
  <2>9. quantityToRead' \in 0..BufferSize
        /\ (currentReaded + n >= LengthSize => quantityToRead' = ends[Current] - Base)
    <3>1. CASE currentReaded + n = LengthSize
      <4>1. SizeAt(Base) = ends[Current] - Base
        BY <2>2, CurrentThere, PlaceFacts, SizeFound DEF Base
      <4>2. quantityToRead' = ends[Current] - Base
        BY <2>6, <2>8, <3>1, <4>1
      <4>3. PICK e \in Nat, base \in Nat, size \in Nat :
              e = ends[Current] /\ base = Base /\ size = LengthSize
        BY <2>2, CurrentThere, PlaceFacts, ResolverSizes
      <4>4. base + size < e /\ e - base <= BufferSize
        BY <2>2, <4>3, CurrentThere
      <4> QED
        BY <4>2, <4>3, <4>4, ResolverSizes
    <3>2. CASE currentReaded + n # LengthSize
      BY <2>3, <2>4, <2>6, <3>2, PlaceFacts, ResolverSizes
    <3> QED
      BY <3>1, <3>2
  <2>10. ResolverTypeOK'
    BY <1>0, <2>3, <2>4, <2>5, <2>6, <2>9, PlaceFacts DEF ResolverTypeOK
  <2>11. AtPlace'
    <3>1. received' = Base' + currentReaded' + remainBytes'
      <4>1. PICK base \in Nat, cr \in Nat, rem \in Nat :
              base = Base /\ cr = currentReaded /\ rem = remainBytes
        BY PlaceFacts
      <4>2. received = base + cr + rem
        BY <4>1 DEF AtPlace
      <4>3. base + cr + rem = base + (cr + n) + (rem - n)
        BY <2>3
      <4>4. /\ received' = received /\ Base' = base /\ currentReaded' = cr + n
            /\ remainBytes' = rem - n
        BY <2>6, <2>7, <4>1
      <4> QED
        BY <4>2, <4>3, <4>4
    <3>2. Current \in 1..Len(ends)
      BY <2>2, CurrentThere
    <3>3. Current' <= Len(ends') /\ currentReaded' < ends'[Current'] - Base'
      BY <1>0, <2>4, <2>6, <2>7, <3>2, PlaceFacts
    <3>4. currentReaded' >= LengthSize => quantityToRead' = ends'[Current'] - Base'
      BY <1>0, <2>6, <2>7, <2>9
    <3>5. \A i \in 0..(currentReaded' - 1) : messageBuffer'[i] = Base' + i
      BY <2>3, <2>5, <2>6, <2>7, PlaceFacts
    <3> QED
      BY <1>0, <1>1, <2>6, <3>1, <3>3, <3>4, <3>5 DEF AtPlace
  <2> QED
    BY <2>10, <2>11
<1>4. CASE ReadSome
  <2>1. /\ remainBytes > 0 /\ currentReaded >= LengthSize
        /\ remainBytes < quantityToRead - currentReaded
    BY <1>4, PlaceFacts DEF ReadSome, RestThere
  <2>2. PICK q \in Nat : q = quantityToRead /\ q = ends[Current] - Base /\ q <= BufferSize
    <3>1. quantityToRead = ends[Current] - Base
      BY <2>1 DEF AtPlace
    <3> QED
      BY <2>1, <3>1, CurrentThere, PlaceFacts
  <2>3. currentReaded + remainBytes < q /\ currentReaded + remainBytes <= BufferSize
    <3>1. currentReaded \in Nat /\ remainBytes \in Nat
      BY PlaceFacts
    <3>2. remainBytes < q - currentReaded /\ q <= BufferSize /\ BufferSize \in Nat
      BY <2>1, <2>2, ResolverSizes
    <3> QED
      BY <3>1, <3>2
  <2>4. PICK b : b = Copied(remainBytes) /\ b \in [0..(BufferSize - 1) -> Int]
                 /\ \A i \in 0..(currentReaded + remainBytes - 1) : b[i] = Base + i
    <3>1. remainBytes \in Nat /\ remainBytes <= remainBytes
      BY PlaceFacts
    <3> QED
      BY <2>3, <3>1, CopiedFacts
  <2>5. /\ messageBuffer' = b /\ remainBytes' = 0
        /\ currentReaded' = currentReaded + remainBytes
        /\ UNCHANGED <<received, handled, quantityToRead>>
    BY <1>4, <2>4 DEF ReadSome
  <2>6. Current' = Current /\ Base' = Base
    BY <1>0, <2>5 DEF Current, Base
  <2>7. ResolverTypeOK'
    BY <1>0, <2>3, <2>4, <2>5, PlaceFacts DEF ResolverTypeOK
  <2>8. received' = Base' + currentReaded' + remainBytes'
    BY <2>5, <2>6, PlaceFacts DEF AtPlace
  <2>9. Current \in 1..Len(ends)
    BY <2>1, CurrentThere
  <2>10. AtPlace'
    <3>1. Current' <= Len(ends') /\ currentReaded' < ends'[Current'] - Base'
          /\ quantityToRead' = ends'[Current'] - Base'
      <4>1. ends'[Current'] - Base' = q /\ currentReaded' < q /\ quantityToRead' = q
        BY <1>0, <2>2, <2>3, <2>5, <2>6, Zenon
      <4>2. Current' <= Len(ends')
        BY <1>0, <2>6, <2>9, PlaceFacts
      <4> QED
        BY <4>1, <4>2, Zenon
    <3>2. \A i \in 0..(currentReaded' - 1) : messageBuffer'[i] = Base' + i
      BY <2>4, <2>5, <2>6, PlaceFacts
    <3> QED
      BY <1>0, <1>1, <2>5, <2>8, <3>1, <3>2 DEF AtPlace
  <2> QED
    BY <2>7, <2>10
<1>5. CASE ReadRest
  <2>1. /\ remainBytes > 0 /\ currentReaded >= LengthSize
        /\ remainBytes >= quantityToRead - currentReaded
    BY <1>5 DEF ReadRest, RestThere
  <2>2. PICK q \in Nat : q = quantityToRead /\ q = ends[Current] - Base /\ q <= BufferSize
    <3>1. quantityToRead = ends[Current] - Base
      BY <2>1 DEF AtPlace
    <3> QED
      BY <2>1, <3>1, CurrentThere, PlaceFacts
  <2>3. PICK n \in Nat : n = q - currentReaded /\ n <= remainBytes /\ currentReaded + n = q
    <3>1. currentReaded < q
      BY <2>1, <2>2, PlaceFacts DEF AtPlace
    <3> QED
      BY <2>1, <2>2, <3>1, PlaceFacts
  <2>4. PICK b : b = Copied(n) /\ \A i \in 0..(q - 1) : b[i] = Base + i
    <3>1. currentReaded + n <= BufferSize
      BY <2>2, <2>3
    <3>2. \A i \in 0..(currentReaded + n - 1) : Copied(n)[i] = Base + i
      BY <2>3, <3>1, CopiedFacts
    <3>3. currentReaded + n - 1 = q - 1
      <4>1. currentReaded \in Nat
        BY PlaceFacts
      <4> QED
        BY <2>3, <4>1
    <3>4. \A i \in 0..(q - 1) : Copied(n)[i] = Base + i
      BY <3>2, <3>3, Zenon
    <3> QED
      BY <3>4
  <2>5. /\ handled' = Append(handled, [i \in 1..q |-> b[i - 1]])
        /\ remainBytes' = remainBytes - n
        /\ messageBuffer' = Cleared /\ currentReaded' = 0
        /\ UNCHANGED <<received, quantityToRead>>
    BY <1>5, <2>2, <2>3, <2>4 DEF ReadRest, ClearBuffer
  <2>6. [i \in 1..q |-> b[i - 1]] = Packet(Current)
    <3>1. \A i \in 1..q : b[i - 1] = Base + i - 1
      <4> SUFFICES ASSUME NEW i \in 1..q PROVE b[i - 1] = Base + i - 1
        OBVIOUS
      <4>1. i - 1 \in 0..(q - 1)
        BY <2>2
      <4>2. b[i - 1] = Base + (i - 1)
        BY <2>4, <4>1
      <4> QED
        BY <4>2, PlaceFacts
    <3>2. Packet(Current) = [i \in 1..q |-> Base + i - 1]
      BY <2>2 DEF Packet, Base
    <3> QED
      BY <3>1, <3>2
  <2>7. Current \in 1..Len(ends) /\ StartOf(Current + 1) = ends[Current]
    BY <2>1, CurrentThere
  <2>8. Packet(Current) \in Packets
    BY <2>7 DEF Packets
  <2>9. /\ handled' \in Seq(Packets) /\ Len(handled') = Current
        /\ handled'[Current] = Packet(Current)
        /\ \A k \in 1..Len(handled) : handled'[k] = handled[k]
    <3>1. handled \in Seq(Packets) /\ handled' = Append(handled, Packet(Current))
      BY <2>5, <2>6 DEF AtPlace
    <3>2. \A s \in Seq(Packets) : \A p \in Packets :
            /\ Append(s, p) \in Seq(Packets) /\ Len(Append(s, p)) = Len(s) + 1
            /\ Append(s, p)[Len(s) + 1] = p
            /\ \A k \in 1..Len(s) : Append(s, p)[k] = s[k]
      OBVIOUS
    <3> QED
      BY <2>8, <3>1, <3>2 DEF Current
  <2>10. Current' = Current + 1 /\ Base' = ends[Current]
    BY <1>0, <2>7, <2>9 DEF Current, Base
  <2>11. \A k \in 1..Len(handled') : handled'[k] = Packet(k)
    <3> SUFFICES ASSUME NEW k \in 1..Current PROVE handled'[k] = Packet(k)
      BY <2>9
    <3>1. k \in 1..Len(handled) \/ k = Current
      BY PlaceFacts DEF Current
    <3> QED
      BY <2>9, <3>1 DEF AtPlace
  <2>12. ResolverTypeOK'
    <3>1. Cleared \in [0..(BufferSize - 1) -> Int]
      BY DEF Cleared
    <3>2. messageBuffer' = Cleared /\ currentReaded' = 0 /\ quantityToRead' = quantityToRead
          /\ received' = received /\ remainBytes' = remainBytes - n
      BY <2>5
    <3> QED
      BY <1>0, <2>3, <3>1, <3>2, PlaceFacts, ResolverSizes DEF ResolverTypeOK
  <2>13. received' = Base' + currentReaded' + remainBytes'
    <3>1. ends[Current] = Base + q
      <4>1. ends[Current] \in Nat /\ Base \in Nat
        BY <2>1, CurrentThere, PlaceFacts
      <4> QED
        BY <2>2, <4>1
    <3>2. Base' = Base + q
      BY <2>10, <3>1
    <3>3. received = Base + currentReaded + remainBytes
      BY DEF AtPlace
    <3>4. received' = received /\ remainBytes' = remainBytes - n /\ currentReaded' = 0
      BY <2>5
    <3>5. PICK base \in Nat : base = Base
      BY PlaceFacts
    <3>6. \A cr, rem \in Nat : n = q - cr => base + cr + rem = base + q + 0 + (rem - n)
      BY <2>2, <2>3, <3>5
    <3>7. Base + currentReaded + remainBytes = Base + q + 0 + (remainBytes - n)
      BY <2>3, <3>5, <3>6, PlaceFacts
    <3> QED
      BY <3>2, <3>3, <3>4, <3>7
  <2>14. ~(currentReaded' > 0) /\ ~(currentReaded' >= LengthSize)
         /\ \A i : i \notin 0..(currentReaded' - 1)
    BY <2>5, ResolverSizes
  <2>15. Len(handled') <= Len(ends')
    BY <1>0, <2>7, <2>9, PlaceFacts
  <2>16. AtPlace'
    BY <1>0, <1>1, <2>9, <2>11, <2>13, <2>14, <2>15 DEF AtPlace
  <2> QED
    BY <2>12, <2>16
<1> QED
  BY <1>2, <1>3, <1>4, <1>5

\* The loop stands where it should, so the packets are whole.
LEMMA PlaceWhole ==
  ASSUME ResolverTypeOK, AtPlace
  PROVE  MessagesWhole
<1>1. \A k \in 1..Len(ends) : ends[k] = StartOf(k + 1) /\ k + 1 \in 1..Len(ends) + 1
                              /\ StartOf(k + 1) \in Nat
  BY PlaceFacts, StreamFacts
<1>2. ASSUME NEW k \in 1..Len(handled) PROVE k \in Arrived
  <2>1. k \in 1..Len(ends) /\ (k + 1 = Current \/ k + 1 < Current)
    BY PlaceFacts DEF AtPlace, Current
  <2>2. ends[k] <= Base
    BY <1>1, <2>1, Ascending, PlaceFacts DEF Base
  <2>3. Base <= received
    BY PlaceFacts DEF AtPlace
  <2> QED
    BY <1>1, <2>1, <2>2, <2>3, PlaceFacts DEF Arrived
<1>3. ASSUME remainBytes = 0, NEW k \in Arrived PROVE k \in 1..Len(handled)
  <2>1. k \in 1..Len(ends) /\ ends[k] <= received /\ received = Base + currentReaded
    BY <1>3, PlaceFacts DEF Arrived, AtPlace
  <2>2. ASSUME k >= Current PROVE FALSE
    <3>1. Current < k + 1 /\ Base < ends[k]
      BY <1>1, <2>1, <2>2, Ascending, PlaceFacts DEF Base
    <3>2. currentReaded > 0
      BY <1>1, <2>1, <3>1, PlaceFacts
    <3>3. Current \in 1..Len(ends) /\ currentReaded < ends[Current] - Base
      BY <3>2, PlaceFacts DEF AtPlace
    <3>4. Current = k \/ Current + 1 < k + 1
      BY <2>1, <2>2, PlaceFacts
    <3>5. ends[Current] <= ends[k]
      <4>1. CASE Current = k
        BY <1>1, <2>1, <4>1
      <4>2. CASE Current + 1 < k + 1
        <5>1. StartOf(Current + 1) < StartOf(k + 1)
          BY <1>1, <2>1, <3>3, <4>2, Ascending, PlaceFacts
        <5> QED
          BY <1>1, <2>1, <3>3, <5>1
      <4> QED
        BY <3>4, <4>1, <4>2
    <3> QED
      BY <1>1, <2>1, <3>3, <3>5, PlaceFacts
  <2> QED
    BY <2>1, <2>2, PlaceFacts DEF Current
<1> QED
  BY <1>2, <1>3 DEF MessagesWhole, AtPlace
-----------------------------------------------------------------------------
(* Sequences of packets that hold each one once *)

Once(s) == \A i, j \in DOMAIN s : s[i] = s[j] => i = j

In(s) == {s[i] : i \in DOMAIN s}

LEMMA PushOnce ==
  ASSUME NEW S, NEW s \in Seq(S), NEW p \in S, Once(s), p \notin In(s)
  PROVE  /\ Append(s, p) \in Seq(S) /\ Once(Append(s, p)) /\ In(Append(s, p)) = In(s) \cup {p}
         /\ Append(s, p) # <<>> /\ Len(Append(s, p)) = Len(s) + 1
         /\ Append(s, p)[Len(s) + 1] = p
         /\ \A i \in DOMAIN s : Append(s, p)[i] = s[i]
<1>1. PICK n \in Nat : n = Len(s) /\ DOMAIN s = 1..n
  OBVIOUS
<1>2. PICK t : t = Append(s, p)
  OBVIOUS
<1>3. /\ t \in Seq(S) /\ Len(t) = n + 1 /\ DOMAIN t = 1..n + 1 /\ t[n + 1] = p
      /\ \A i \in 1..n : t[i] = s[i]
  BY <1>1, <1>2
<1>4. \A i \in 1..n + 1 : i \in 1..n \/ i = n + 1
  BY <1>1
<1>5. \A i \in 1..n : s[i] \in In(s)
  BY <1>1 DEF In
<1>6. \A i, j \in 1..n + 1 : t[i] = t[j] => i = j
  BY <1>1, <1>3, <1>4, <1>5 DEF Once
<1>7. \A q : q \in In(t) <=> q \in In(s) \/ q = p
  <2> SUFFICES ASSUME NEW q PROVE q \in In(t) <=> q \in In(s) \/ q = p
    OBVIOUS
  <2>1. q \in In(t) <=> \E i \in 1..n + 1 : q = t[i]
    BY <1>3 DEF In
  <2>2. q \in In(s) <=> \E i \in 1..n : q = s[i]
    BY <1>1 DEF In
  <2>3. n + 1 \in 1..n + 1 /\ \A i \in 1..n : i \in 1..n + 1
    BY <1>1
  <2> QED
    BY <1>3, <1>4, <2>1, <2>2, <2>3
<1>8. In(t) = In(s) \cup {p}
  BY <1>7
<1> QED
  BY <1>1, <1>2, <1>3, <1>6, <1>8 DEF Once

LEMMA TopOnce ==
  ASSUME NEW S, NEW s \in Seq(S), Once(s), s # <<>>
  PROVE  /\ SubSeq(s, 1, Len(s) - 1) \in Seq(S) /\ Once(SubSeq(s, 1, Len(s) - 1))
         /\ In(SubSeq(s, 1, Len(s) - 1)) \subseteq In(s)
         /\ s[Len(s)] \in S /\ s[Len(s)] \in In(s)
         /\ s[Len(s)] \notin In(SubSeq(s, 1, Len(s) - 1))
<1>1. PICK n \in Nat : n = Len(s) /\ DOMAIN s = 1..n /\ n > 0
  OBVIOUS
<1>2. PICK t : t = SubSeq(s, 1, n - 1)
  OBVIOUS
<1>3. \A i \in 1..n - 1 : i \in 1..n /\ i # n
  BY <1>1
<1>4. /\ t \in Seq(S) /\ DOMAIN t = 1..n - 1 /\ \A i \in 1..n - 1 : t[i] = s[i]
  BY <1>1, <1>2
<1>5. Once(t) /\ In(t) \subseteq In(s)
  BY <1>1, <1>3, <1>4 DEF Once, In
<1>6. n \in 1..n /\ s[n] \in S
  BY <1>1
<1>7. s[n] \in In(s) /\ s[n] \notin In(t)
  BY <1>1, <1>3, <1>4, <1>6 DEF Once, In
<1> QED
  BY <1>1, <1>2, <1>4, <1>5, <1>6, <1>7

LEMMA HeadOnce ==
  ASSUME NEW S, NEW s \in Seq(S), Once(s), s # <<>>
  PROVE  /\ Tail(s) \in Seq(S) /\ Once(Tail(s)) /\ In(Tail(s)) \subseteq In(s)
         /\ Head(s) \in S /\ Head(s) \in In(s) /\ Head(s) \notin In(Tail(s))
         /\ Head(s) = s[1] /\ 1 \in DOMAIN s
         /\ Len(Tail(s)) = Len(s) - 1
         /\ \A i \in DOMAIN Tail(s) : i + 1 \in DOMAIN s /\ Tail(s)[i] = s[i + 1]
<1>1. PICK n \in Nat : n = Len(s) /\ DOMAIN s = 1..n /\ n > 0
  OBVIOUS
<1>2. PICK t : t = Tail(s)
  OBVIOUS
<1>3. \A i \in 1..n - 1 : i + 1 \in 1..n /\ i + 1 # 1
  BY <1>1
<1>4. /\ t \in Seq(S) /\ Len(t) = n - 1 /\ DOMAIN t = 1..n - 1
      /\ \A i \in 1..n - 1 : t[i] = s[i + 1]
  BY <1>1, <1>2
<1>5. 1 \in 1..n /\ s[1] \in S /\ Head(s) = s[1]
  BY <1>1
<1>6. \A i, j \in 1..n - 1 : i + 1 = j + 1 => i = j
  BY <1>1
<1>7. Once(t) /\ In(t) \subseteq In(s)
  <2>1. Once(t)
    BY <1>1, <1>3, <1>4, <1>6 DEF Once
  <2>2. ASSUME NEW i \in 1..n - 1 PROVE t[i] \in In(s)
    BY <1>1, <1>3, <1>4 DEF In
  <2> QED
    BY <1>4, <2>1, <2>2 DEF In
<1>8. s[1] \in In(s) /\ s[1] \notin In(t)
  BY <1>1, <1>3, <1>4, <1>5 DEF Once, In
<1> QED
  BY <1>1, <1>2, <1>3, <1>4, <1>5, <1>7, <1>8

LEMMA Wider ==
  ASSUME NEW S, NEW T, S \subseteq T, NEW s \in Seq(S)
  PROVE  s \in Seq(T)
OBVIOUS

LEMMA Members ==
  ASSUME NEW S, NEW s \in Seq(S)
  PROVE  In(s) \subseteq S
BY DEF In
-----------------------------------------------------------------------------
(* The packets and the queue *)

\* The packets a thread holds: the one that it made, or reads, and the copy
\* it is about to put into the queue.
Hands(t) == {p \in 1..created : p = msg[t] \/ (step[t] = "put" /\ p = copyPacket[t])}

\* A packet is in one place.
Apart ==
  /\ Once(cPacketPool) /\ Once(sendingQueue)
  /\ \A p \in In(cPacketPool) : p \notin In(sendingQueue)
  /\ \A t \in Callers : \A p \in Hands(t) : p \notin In(cPacketPool) /\ p \notin In(sendingQueue)
  /\ \A t, u \in Callers : t # u => \A p \in Hands(t) : p \notin Hands(u)

\* What a thread has done so far of what it is doing.
Program(t) ==
  /\ t = Reader => purpose[t] \in {"none", "read"}
  /\ t \in Threads /\ step[t] # "idle" => message[t] # 0
  /\ purpose[t] = "send" /\ step[t] \in {"test", "allocate", "take"} =>
       msg[t] # 0 /\ content[msg[t]] = message[t]
  /\ step[t] = "put" => /\ t \in Threads /\ msg[t] # 0 /\ copyPacket[t] # 0
                        /\ msg[t] # copyPacket[t] /\ content[copyPacket[t]] = message[t]
  /\ step[t] = "back" => msg[t] # 0

\* How many packets of the queue the socket was given: its first, unless it
\* is to be given next.
Given == IF section = "start" \/ sendingQueue = <<>> THEN 0 ELSE 1

Waiting ==
  /\ Len(queued) + Given = Len(wire) + Len(sendingQueue)
  /\ \A i \in 1..Len(wire) : wire[i] = queued[i]
  /\ \A i \in DOMAIN sendingQueue : i > Given =>
       content[sendingQueue[i]] = queued[Len(wire) + i - Given]

\* While the server is there, the queue is not empty while a send is under
\* way or processed.
Turn ==
  /\ SendTurn
  /\ ~removed => /\ inFlight => sendingQueue # <<>> /\ section = "none"
                 /\ section = "sent" => sendingQueue # <<>>
  /\ stopped = "no" /\ section = "start" => sendingQueue # <<>>

IInv == TypeOK /\ AtPlace /\ Apart /\ (\A t \in Callers : Program(t)) /\ Waiting /\ Turn
-----------------------------------------------------------------------------
(* What a step leaves alone *)

PoolTypes == /\ created \in PoolCapacity..MaxCreated
             /\ cPacketPool \in Seq(1..created)
             /\ content \in [1..MaxCreated -> 0..MaxMessages]

CallTypes == /\ session \in BOOLEAN
             /\ step \in [Callers -> {"idle", "test", "allocate", "take", "put", "back"}]
             /\ purpose \in [Callers -> {"none", "create", "send", "read"}]
             /\ message \in [Callers -> 0..MaxMessages]
             /\ msg \in [Callers -> 0..created]
             /\ copyPacket \in [Callers -> 0..created]
             /\ asked \in 0..MaxMessages

QueueTypes == /\ sendingQueue \in Seq(1..created)
              /\ owner \in Threads \cup {Completion, Nobody}
              /\ section \in {"none", "start", "sent"}
              /\ (owner = Nobody) = (section = "none")
              /\ inFlight \in BOOLEAN /\ cut \in BOOLEAN
              /\ queued \in Seq(1..MaxMessages) /\ wire \in Seq(0..MaxMessages)

EndTypes == /\ removed \in BOOLEAN
            /\ stopped \in {"no", "NoSession", "PoolEmpty", "QueueEmpty", "InProgress", "raced"}

LEMMA TypeParts ==
  /\ TypeOK <=> ResolverTypeOK /\ PoolTypes /\ CallTypes /\ QueueTypes /\ EndTypes
  /\ TypeOK' <=> ResolverTypeOK' /\ PoolTypes' /\ CallTypes' /\ QueueTypes' /\ EndTypes'
BY Zenon DEF TypeOK, PoolTypes, CallTypes, QueueTypes, EndTypes

LEMMA ResolverFrame ==
  ASSUME ResolverTypeOK, AtPlace, UNCHANGED resolverVars
  PROVE  ResolverTypeOK' /\ AtPlace'
<1>1. /\ Total' = Total /\ Packets' = Packets /\ Base' = Base /\ Current' = Current
      /\ \A k : Packet(k)' = Packet(k)
  BY DEF resolverVars, Total, StartOf, Packets, Packet, Base, Current
<1> QED
  BY <1>1 DEF resolverVars, ResolverTypeOK, AtPlace

\* The types of all that the receive loop does not touch.
LEMMA TypeFrame ==
  /\ PoolTypes /\ UNCHANGED poolVars => PoolTypes'
  /\ CallTypes /\ UNCHANGED callVars /\ UNCHANGED created => CallTypes'
  /\ QueueTypes /\ UNCHANGED queueVars /\ UNCHANGED created => QueueTypes'
  /\ EndTypes /\ UNCHANGED endVars => EndTypes'
BY Zenon DEF PoolTypes, CallTypes, QueueTypes, EndTypes, poolVars, callVars, queueVars, endVars

LEMMA HandsFacts ==
  ASSUME TypeOK, NEW t \in Callers
  PROVE  /\ Hands(t) \subseteq 1..created
         /\ msg[t] # 0 => msg[t] \in Hands(t) /\ msg[t] \in 1..MaxCreated
         /\ step[t] = "put" /\ copyPacket[t] # 0 =>
              copyPacket[t] \in Hands(t) /\ copyPacket[t] \in 1..MaxCreated
         /\ In(cPacketPool) \subseteq 1..created /\ In(sendingQueue) \subseteq 1..created
         /\ created \in Nat /\ 1..created \subseteq 1..MaxCreated
<1>1. created \in Nat /\ MaxCreated \in Nat /\ created <= MaxCreated
  BY PoolCounts DEF TypeOK
<1>2. msg[t] \in 0..created /\ copyPacket[t] \in 0..created
  BY DEF TypeOK
<1>3. In(cPacketPool) \subseteq 1..created /\ In(sendingQueue) \subseteq 1..created
  BY Members DEF TypeOK
<1> QED
  BY <1>1, <1>2, <1>3 DEF Hands

LEMMA WaitingFrame ==
  ASSUME Waiting, UNCHANGED <<section, sendingQueue, wire, queued>>,
         \A p \in In(sendingQueue) : content'[p] = content[p]
  PROVE  Waiting'
<1>1. Given' = Given
  BY DEF Given
<1>2. \A i \in DOMAIN sendingQueue : content'[sendingQueue[i]] = content[sendingQueue[i]]
  BY DEF In
<1> QED
  BY <1>1, <1>2 DEF Waiting

LEMMA TurnFrame ==
  ASSUME Turn, UNCHANGED <<owner, section, inFlight, sendingQueue, cut, removed, stopped>>
  PROVE  Turn'
BY DEF Turn, SendTurn

LEMMA ProgramFrame ==
  ASSUME TypeOK, NEW t \in Callers, Program(t),
         step'[t] = step[t], purpose'[t] = purpose[t], message'[t] = message[t],
         msg'[t] = msg[t], copyPacket'[t] = copyPacket[t],
         \A p \in Hands(t) : content'[p] = content[p]
  PROVE  Program(t)'
<1>1. msg[t] # 0 => content'[msg[t]] = content[msg[t]]
  BY HandsFacts
<1>2. step[t] = "put" /\ copyPacket[t] # 0 => content'[copyPacket[t]] = content[copyPacket[t]]
  BY HandsFacts
<1> QED
  BY <1>1, <1>2 DEF Program

LEMMA HandsFrame ==
  ASSUME TypeOK, NEW t \in Callers, created' = created, step'[t] = step[t], msg'[t] = msg[t],
         copyPacket'[t] = copyPacket[t]
  PROVE  Hands(t)' = Hands(t)
BY DEF Hands

LEMMA ApartFrame ==
  ASSUME Apart, UNCHANGED <<cPacketPool, sendingQueue>>,
         \A t \in Callers : Hands(t)' \subseteq Hands(t)
  PROVE  Apart'
<1>1. \A t \in Callers : \A p \in Hands(t)' : p \notin In(cPacketPool) /\ p \notin In(sendingQueue)
  BY DEF Apart
<1>2. ASSUME NEW t \in Callers, NEW u \in Callers, t # u, NEW p \in Hands(t)'
      PROVE  p \notin Hands(u)'
  <2>1. p \in Hands(t)
    BY <1>2
  <2>2. p \notin Hands(u)
    BY <1>2, <2>1 DEF Apart
  <2> QED
    BY <2>2
<1>3. Once(cPacketPool)' /\ Once(sendingQueue)' /\ In(cPacketPool)' = In(cPacketPool)
      /\ In(sendingQueue)' = In(sendingQueue)
  BY DEF Apart, Once, In
<1> QED
  BY <1>1, <1>2, <1>3 DEF Apart
-----------------------------------------------------------------------------
(* The steps that touch no packet *)

\* The receive loop, the session, the threads between two packets, and the
\* exceptions.
LEMMA ReadStep ==
  ASSUME IInv, Receive \/ Read \/ OnMessage
  PROVE  IInv'
<1>1. ReceiveAny \/ ReadLength \/ ReadSome \/ ReadRest
  BY DEF Receive, Read, OnMessage
<1>2. TypeOK /\ ResolverTypeOK' /\ AtPlace'
  BY <1>1, ResolverStep DEF IInv, TypeOK
<1>3. /\ UNCHANGED <<poolVars, queueVars, endVars, session, message, msg, copyPacket, asked>>
      /\ \/ UNCHANGED <<step, purpose>>
         \/ /\ step' = [step EXCEPT ![Reader] = "test"]
            /\ purpose' = [purpose EXCEPT ![Reader] = "read"]
      /\ step[Reader] = "idle"
  BY DEF Receive, Read, OnMessage, Reading, Goes, callVars
<1>4. Reader \in Callers
  BY DEF Callers
<1>5. TypeOK'
  <2>1. PoolTypes /\ CallTypes /\ QueueTypes /\ EndTypes
    BY <1>2, TypeParts
  <2>2. CallTypes'
    BY <1>3, <1>4, <2>1 DEF CallTypes, poolVars
  <2>3. PoolTypes' /\ QueueTypes' /\ EndTypes'
    BY <1>3, <2>1, TypeFrame DEF poolVars
  <2> QED
    BY <1>2, <2>2, <2>3, TypeParts
<1>6. ASSUME NEW t \in Callers PROVE Program(t)' /\ Hands(t)' \subseteq Hands(t)
  <2>1. CASE t = Reader /\ step' = [step EXCEPT ![Reader] = "test"]
    <3>1. step'[t] = "test" /\ purpose'[t] = "read" /\ t \notin Threads
      BY <1>2, <1>3, <1>4, <2>1, OtherThreads DEF TypeOK
    <3>2. Program(t)'
      BY <3>1 DEF Program
    <3>3. Hands(t)' \subseteq Hands(t)
      BY <1>3, <3>1 DEF Hands, poolVars
    <3> QED
      BY <3>2, <3>3
  <2>2. CASE t # Reader \/ step' # [step EXCEPT ![Reader] = "test"]
    <3>1. step'[t] = step[t] /\ purpose'[t] = purpose[t]
      BY <1>2, <1>3, <2>2 DEF TypeOK
    <3>2. Program(t)
      BY DEF IInv
    <3> QED
      BY <1>2, <1>3, <3>1, <3>2, ProgramFrame, HandsFrame DEF poolVars
  <2> QED
    BY <2>1, <2>2
<1>7. Apart'
  BY <1>3, <1>6, ApartFrame DEF IInv, poolVars, queueVars
<1>8. Waiting'
  BY <1>3, WaitingFrame DEF IInv, poolVars, queueVars
<1>9. Turn'
  BY <1>3, TurnFrame DEF IInv, queueVars, endVars
<1> QED
  BY <1>2, <1>5, <1>6, <1>7, <1>8, <1>9 DEF IInv

\* A step of one thread from one place of its program to another.
LEMMA CallFrame ==
  ASSUME IInv, UNCHANGED <<resolverVars, poolVars, queueVars, endVars>>, CallTypes',
         \A t \in Callers : Program(t)' /\ Hands(t)' \subseteq Hands(t)
  PROVE  IInv'
<1>1. PoolTypes /\ QueueTypes /\ EndTypes /\ ResolverTypeOK /\ AtPlace
  BY TypeParts DEF IInv
<1>2. TypeOK' /\ AtPlace'
  BY <1>1, TypeFrame, TypeParts, ResolverFrame DEF poolVars
<1>3. Apart'
  BY ApartFrame DEF IInv, poolVars, queueVars
<1>4. Waiting'
  BY WaitingFrame DEF IInv, poolVars, queueVars
<1>5. Turn'
  BY TurnFrame DEF IInv, queueVars, endVars
<1> QED
  BY <1>2, <1>3, <1>4, <1>5 DEF IInv

LEMMA CallStep ==
  ASSUME IInv, NEW t \in Callers, SetSession \/ BeginMessage(t) \/ TestCount(t)
  PROVE  IInv'
<1>1. TypeOK /\ CallTypes /\ Program(t)
  BY TypeParts DEF IInv
<1>2. UNCHANGED <<resolverVars, poolVars, queueVars, endVars, msg, copyPacket>>
  BY DEF SetSession, BeginMessage, TestCount
<1>3. \A u \in Callers : u # t => /\ step'[u] = step[u] /\ purpose'[u] = purpose[u]
                                  /\ message'[u] = message[u]
  BY <1>1 DEF SetSession, BeginMessage, TestCount, Goes, CallTypes
<1>4. CallTypes'
  <2>1. CASE SetSession
    BY <1>1, <1>2, <2>1 DEF SetSession, CallTypes, poolVars
  <2>2. CASE BeginMessage(t)
    <3>1. asked + 1 \in 0..MaxMessages
      BY <1>1, <2>2, PoolCounts DEF BeginMessage, CallTypes
    <3> QED
      BY <1>1, <1>2, <2>2, <3>1 DEF BeginMessage, Goes, CallTypes, poolVars
  <2>3. CASE TestCount(t)
    BY <1>1, <1>2, <2>3 DEF TestCount, Goes, CallTypes, poolVars
  <2> QED
    BY <2>1, <2>2, <2>3
<1>5. Program(t)' /\ Hands(t)' \subseteq Hands(t)
  <2>1. CASE SetSession
    BY <1>1, <1>2, <2>1, ProgramFrame, HandsFrame DEF SetSession, poolVars
  <2>2. CASE BeginMessage(t)
    <3>1. /\ step'[t] = "test" /\ purpose'[t] = "create" /\ message'[t] # 0
          /\ t # Reader
      BY <1>1, <2>2, OtherThreads DEF BeginMessage, Goes, CallTypes
    <3> QED
      BY <1>2, <3>1 DEF Program, Hands, poolVars
  <2>3. CASE TestCount(t)
    <3>1. /\ step'[t] \in {"allocate", "take"} /\ step[t] = "test" /\ purpose'[t] = purpose[t]
          /\ message'[t] = message[t]
      BY <1>1, <2>3 DEF TestCount, Goes, CallTypes
    <3>2. Program(t)'
      BY <1>1, <1>2, <3>1 DEF Program, poolVars
    <3>3. Hands(t)' \subseteq Hands(t)
      BY <1>2, <3>1 DEF Hands, poolVars
    <3> QED
      BY <3>2, <3>3
  <2> QED
    BY <2>1, <2>2, <2>3
<1>6. ASSUME NEW u \in Callers, u # t PROVE Program(u)' /\ Hands(u)' \subseteq Hands(u)
  <2>1. Program(u)
    BY DEF IInv
  <2> QED
    BY <1>1, <1>2, <1>3, <1>6, <2>1, ProgramFrame, HandsFrame DEF poolVars
<1> QED
  BY <1>2, <1>4, <1>5, <1>6, CallFrame

LEMMA ThrowStep ==
  ASSUME IInv, NEW exception \in {"NoSession", "PoolEmpty", "QueueEmpty", "InProgress"},
         Throws(exception), exception \in {"QueueEmpty", "InProgress"} => removed
  PROVE  IInv'
<1>1. /\ UNCHANGED <<resolverVars, poolVars, callVars, queueVars, removed>>
      /\ stopped' = exception
  BY DEF Throws
<1>2. TypeOK /\ PoolTypes /\ CallTypes /\ QueueTypes /\ EndTypes /\ ResolverTypeOK /\ AtPlace
  BY TypeParts DEF IInv
<1>3. TypeOK' /\ AtPlace'
  <2>1. EndTypes'
    BY <1>1, <1>2 DEF EndTypes
  <2> QED
    BY <1>1, <1>2, <2>1, TypeFrame, TypeParts, ResolverFrame DEF poolVars
<1>4. \A t \in Callers : Program(t)' /\ Hands(t)' \subseteq Hands(t)
  BY <1>1, <1>2, ProgramFrame, HandsFrame DEF IInv, poolVars, callVars
<1>5. Apart'
  BY <1>1, <1>4, ApartFrame DEF IInv, poolVars, queueVars
<1>6. Waiting'
  BY <1>1, WaitingFrame DEF IInv, poolVars, queueVars
<1>7. Turn'
  BY <1>1 DEF IInv, Turn, SendTurn, queueVars
<1> QED
  BY <1>3, <1>4, <1>5, <1>6, <1>7 DEF IInv
-----------------------------------------------------------------------------
(* The pool *)

\* The packet at the top of the pool is nobody else's.
LEMMA PopTaken ==
  ASSUME IInv, cPacketPool # <<>>, cPacketPool' = SubSeq(cPacketPool, 1, Len(cPacketPool) - 1)
  PROVE  /\ Top \in 1..created /\ Top \in 1..MaxCreated /\ Top # 0
         /\ cPacketPool' \in Seq(1..created) /\ Once(cPacketPool)'
         /\ \A p \in In(cPacketPool)' : p \in In(cPacketPool)
         /\ Top \notin In(cPacketPool)' /\ Top \notin In(sendingQueue)
         /\ \A t \in Callers : Top \notin Hands(t)
<1>1. cPacketPool \in Seq(1..created) /\ Once(cPacketPool)
  BY DEF IInv, TypeOK, Apart
<1>2. PICK rest : rest = SubSeq(cPacketPool, 1, Len(cPacketPool) - 1)
  OBVIOUS
<1>3. /\ rest \in Seq(1..created) /\ Once(rest) /\ In(rest) \subseteq In(cPacketPool)
      /\ Top \in 1..created /\ Top \in In(cPacketPool) /\ Top \notin In(rest)
  BY <1>1, <1>2, TopOnce DEF Top
<1>4. cPacketPool' = rest /\ Once(cPacketPool)' /\ In(cPacketPool)' = In(rest)
  BY <1>2, <1>3 DEF Once, In
<1>5. Top \notin In(sendingQueue) /\ \A t \in Callers : Top \notin Hands(t)
  BY <1>3 DEF IInv, Apart
<1>6. 1..created \subseteq 1..MaxCreated /\ Top # 0
  <2>1. PICK t \in Callers : TRUE
    BY DEF Callers
  <2> QED
    BY <1>3, <2>1, HandsFacts DEF IInv
<1> QED
  BY <1>3, <1>4, <1>5, <1>6

LEMMA PopFrame ==
  ASSUME IInv, NEW t \in Callers, cPacketPool # <<>>,
         cPacketPool' = SubSeq(cPacketPool, 1, Len(cPacketPool) - 1),
         UNCHANGED <<resolverVars, created, queueVars, endVars>>,
         NEW v \in 0..MaxMessages, content' = [content EXCEPT ![Top] = v],
         \A u \in Callers : u # t =>
           /\ step'[u] = step[u] /\ purpose'[u] = purpose[u] /\ message'[u] = message[u]
           /\ msg'[u] = msg[u] /\ copyPacket'[u] = copyPacket[u],
         CallTypes', Program(t)', Hands(t)' \subseteq Hands(t) \cup {Top}
  PROVE  IInv'
<1>0. TypeOK /\ PoolTypes /\ QueueTypes /\ EndTypes /\ ResolverTypeOK /\ AtPlace
  BY TypeParts DEF IInv
<1>1. TypeOK' /\ AtPlace'
  <2>1. PoolTypes'
    BY <1>0, PopTaken DEF PoolTypes
  <2> QED
    BY <1>0, <2>1, TypeFrame, TypeParts, ResolverFrame
<1>2. \A p : p # Top => content'[p] = content[p]
  BY <1>0 DEF PoolTypes
<1>3. ASSUME NEW u \in Callers, u # t PROVE Program(u)' /\ Hands(u)' = Hands(u)
  <2>1. Program(u) /\ Top \notin Hands(u)
    BY PopTaken DEF IInv
  <2> QED
    BY <1>0, <1>2, <1>3, <2>1, ProgramFrame, HandsFrame
<1>4. Waiting'
  BY <1>2, PopTaken, WaitingFrame DEF IInv, queueVars
<1>5. Turn'
  BY TurnFrame DEF IInv, queueVars, endVars
<1>6. Apart'
  <2>1. Once(cPacketPool)' /\ Once(sendingQueue)' /\ In(sendingQueue)' = In(sendingQueue)
    BY PopTaken DEF IInv, Apart, Once, In, queueVars
  <2>2. \A p \in In(cPacketPool)' : p \notin In(sendingQueue)'
    BY <2>1, PopTaken DEF IInv, Apart
  <2>3. \A u \in Callers : \A p \in Hands(u)' : p \in Hands(u) \/ (u = t /\ p = Top)
    BY <1>3
  <2>4. \A u \in Callers : \A p \in Hands(u)' :
          p \notin In(cPacketPool)' /\ p \notin In(sendingQueue)'
    BY <2>1, <2>3, PopTaken DEF IInv, Apart
  <2>5. ASSUME NEW u \in Callers, NEW w \in Callers, u # w, NEW p \in Hands(u)'
        PROVE  p \notin Hands(w)'
    <3>1. p \in Hands(u) => p \notin Hands(w)
      BY <2>5 DEF IInv, Apart
    <3>2. Top \notin Hands(u) /\ Top \notin Hands(w)
      BY PopTaken
    <3> QED
      BY <2>3, <2>5, <3>1, <3>2
  <2> QED
    BY <2>1, <2>2, <2>4, <2>5 DEF Apart
<1> QED
  BY <1>1, <1>3, <1>4, <1>5, <1>6 DEF IInv

LEMMA PopStep ==
  ASSUME IInv, NEW t \in Callers, PopForCreate(t) \/ PopForSend(t) \/ (PopForRead /\ t = Reader)
  PROVE  IInv'
<1>0. TypeOK /\ CallTypes /\ PoolTypes /\ Program(t)
  BY TypeParts DEF IInv
<1>1. /\ cPacketPool # <<>> /\ cPacketPool' = SubSeq(cPacketPool, 1, Len(cPacketPool) - 1)
      /\ UNCHANGED <<resolverVars, created, queueVars, endVars, session, message, asked>>
      /\ step[t] = "take"
  BY DEF PopForCreate, PopForSend, PopForRead, TakeTop
<1>2. \A u \in Callers : u # t =>
        /\ step'[u] = step[u] /\ purpose'[u] = purpose[u] /\ message'[u] = message[u]
        /\ msg'[u] = msg[u] /\ copyPacket'[u] = copyPacket[u]
  BY <1>0, <1>1 DEF PopForCreate, PopForSend, PopForRead, Goes, CallTypes
<1>3. PICK p : p = Top /\ p \in 1..created /\ p \in 1..MaxCreated /\ p # 0 /\ p \notin Hands(t)
               /\ p \in 0..created
  <2>1. Top \in 1..created /\ Top \in 1..MaxCreated /\ Top # 0 /\ Top \notin Hands(t)
    BY <1>1, PopTaken
  <2>2. Top \in 0..created
    BY <2>1, HandsFacts DEF IInv
  <2> QED
    BY <2>1, <2>2
<1>4. CASE PopForCreate(t)
  <2>1. /\ msg' = [msg EXCEPT ![t] = p] /\ content' = [content EXCEPT ![p] = message[t]]
        /\ purpose' = [purpose EXCEPT ![t] = "send"] /\ step' = [step EXCEPT ![t] = "test"]
        /\ purpose[t] = "create" /\ UNCHANGED copyPacket
    BY <1>3, <1>4 DEF PopForCreate, TakeTop, Goes
  <2>2. t # Reader /\ t \in Threads /\ message[t] # 0 /\ message[t] \in 0..MaxMessages
    BY <1>0, <1>1, <2>1 DEF Program, Callers, CallTypes
  <2>3. CallTypes'
    BY <1>0, <1>1, <1>3, <2>1 DEF CallTypes
  <2>4. /\ msg'[t] = p /\ purpose'[t] = "send" /\ step'[t] = "test" /\ content'[p] = message[t]
        /\ message'[t] = message[t]
    BY <1>0, <1>1, <1>3, <2>1 DEF CallTypes, PoolTypes
  <2>5. Program(t)'
    BY <1>3, <2>2, <2>4 DEF Program
  <2>6. Hands(t)' \subseteq Hands(t) \cup {Top}
    BY <1>3, <2>4 DEF Hands
  <2> QED
    BY <1>1, <1>2, <1>3, <2>1, <2>2, <2>3, <2>5, <2>6, PopFrame
<1>5. CASE PopForSend(t)
  <2>1. /\ copyPacket' = [copyPacket EXCEPT ![t] = p]
        /\ content' = [content EXCEPT ![p] = content[msg[t]]]
        /\ purpose' = [purpose EXCEPT ![t] = "none"] /\ step' = [step EXCEPT ![t] = "put"]
        /\ purpose[t] = "send" /\ UNCHANGED msg
    BY <1>3, <1>5 DEF PopForSend, TakeTop, Goes
  <2>2. t # Reader /\ t \in Threads /\ message[t] # 0 /\ msg[t] # 0
        /\ content[msg[t]] = message[t] /\ message[t] \in 0..MaxMessages
    BY <1>0, <1>1, <2>1 DEF Program, Callers, CallTypes
  <2>3. CallTypes'
    BY <1>0, <1>1, <1>3, <2>1 DEF CallTypes
  <2>4. /\ copyPacket'[t] = p /\ purpose'[t] = "none" /\ step'[t] = "put"
        /\ content'[p] = message[t] /\ message'[t] = message[t] /\ msg'[t] = msg[t]
    BY <1>0, <1>1, <1>3, <2>1, <2>2 DEF CallTypes, PoolTypes
  <2>5. msg[t] # p /\ msg[t] \in Hands(t)
    BY <1>0, <1>3, <2>2, HandsFacts
  <2>6. Program(t)'
    BY <1>3, <2>2, <2>4, <2>5 DEF Program
  <2>7. Hands(t)' \subseteq Hands(t) \cup {Top}
    BY <1>3, <2>4, <2>5 DEF Hands
  <2>8. content' = [content EXCEPT ![Top] = message[t]]
    BY <1>3, <2>1, <2>2
  <2> QED
    BY <1>1, <1>2, <1>3, <2>1, <2>2, <2>3, <2>6, <2>7, <2>8, PopFrame
<1>6. CASE PopForRead /\ t = Reader
  <2>1. /\ msg' = [msg EXCEPT ![t] = p] /\ content' = [content EXCEPT ![p] = 0]
        /\ purpose' = [purpose EXCEPT ![t] = "none"] /\ step' = [step EXCEPT ![t] = "back"]
        /\ UNCHANGED copyPacket
    BY <1>3, <1>6 DEF PopForRead, TakeTop, Goes
  <2>2. t \notin Threads /\ 0 \in 0..MaxMessages
    BY <1>6, OtherThreads, PoolCounts
  <2>3. CallTypes'
    BY <1>0, <1>1, <1>3, <2>1 DEF CallTypes
  <2>4. msg'[t] = p /\ purpose'[t] = "none" /\ step'[t] = "back"
    BY <1>0, <1>3, <2>1 DEF CallTypes
  <2>5. Program(t)'
    BY <1>3, <2>2, <2>4 DEF Program
  <2>6. Hands(t)' \subseteq Hands(t) \cup {Top}
    BY <1>3, <2>4 DEF Hands
  <2> QED
    BY <1>1, <1>2, <1>3, <2>1, <2>2, <2>3, <2>5, <2>6, PopFrame
<1> QED
  BY <1>4, <1>5, <1>6

\* The packets that Allocate makes are new.
LEMMA FreshOnce ==
  ASSUME NEW a \in Nat, NEW b \in Nat, NEW s \in Seq(1..a), Once(s)
  PROVE  /\ s \o [i \in 1..b |-> a + i] \in Seq(1..(a + b))
         /\ Once(s \o [i \in 1..b |-> a + i])
         /\ \A p \in In(s \o [i \in 1..b |-> a + i]) : p \in In(s) \/ p \notin 1..a
<1>1. PICK n \in Nat : n = Len(s) /\ DOMAIN s = 1..n
  OBVIOUS
<1>2. PICK f : f = [i \in 1..b |-> a + i]
  OBVIOUS
<1>3. 1..a \subseteq 1..(a + b) /\ \A i \in 1..b : a + i \in 1..(a + b) /\ a + i \notin 1..a
  OBVIOUS
<1>4. f \in Seq(1..(a + b)) /\ Len(f) = b
  BY <1>2, <1>3
<1>5. s \in Seq(1..(a + b))
  BY <1>3, Wider
<1>6. PICK u : u = s \o f
  OBVIOUS
<1>7. /\ u \in Seq(1..(a + b)) /\ DOMAIN u = 1..n + b
      /\ \A i \in 1..n + b : u[i] = IF i <= n THEN s[i] ELSE f[i - n]
  <2>1. u \in Seq(1..(a + b)) /\ Len(u) = n + b
    <3>1. \A x, y \in Seq(1..(a + b)) : x \o y \in Seq(1..(a + b))
                                         /\ Len(x \o y) = Len(x) + Len(y)
      OBVIOUS
    <3> QED
      BY <1>1, <1>4, <1>5, <1>6, <3>1
  <2>2. DOMAIN u = 1..n + b
    BY <2>1
  <2>3. \A i \in 1..n + b : u[i] = IF i <= n THEN s[i] ELSE f[i - n]
    <3>1. \A x, y \in Seq(1..(a + b)) : \A i \in 1..(Len(x) + Len(y)) :
            (x \o y)[i] = IF i <= Len(x) THEN x[i] ELSE y[i - Len(x)]
      OBVIOUS
    <3> QED
      BY <1>1, <1>4, <1>5, <1>6, <3>1
  <2> QED
    BY <2>1, <2>2, <2>3
<1>8. \A i \in 1..n + b : /\ i \in 1..n => u[i] = s[i] /\ s[i] \in 1..a
                          /\ i \notin 1..n => u[i] = a + (i - n) /\ u[i] \notin 1..a
  <2> SUFFICES ASSUME NEW i \in 1..n + b
               PROVE  /\ i \in 1..n => u[i] = s[i] /\ s[i] \in 1..a
                      /\ i \notin 1..n => u[i] = a + (i - n) /\ u[i] \notin 1..a
    OBVIOUS
  <2>1. CASE i \in 1..n
    BY <1>1, <1>7, <2>1
  <2>2. CASE i \notin 1..n
    <3>1. i - n \in 1..b /\ ~(i <= n)
      BY <1>1, <2>2
    <3>2. u[i] = a + (i - n)
      BY <1>2, <1>7, <3>1
    <3> QED
      BY <1>3, <2>2, <3>1, <3>2
  <2> QED
    BY <2>1, <2>2
<1>9. Once(u)
  <2> SUFFICES ASSUME NEW i \in 1..n + b, NEW j \in 1..n + b, u[i] = u[j] PROVE i = j
    BY <1>7 DEF Once
  <2>1. CASE i \in 1..n /\ j \in 1..n
    BY <1>1, <1>8, <2>1 DEF Once
  <2>2. CASE i \notin 1..n /\ j \notin 1..n
    <3>1. a + (i - n) = a + (j - n)
      BY <1>8, <2>2
    <3> QED
      BY <1>1, <3>1
  <2>3. CASE i \in 1..n /\ j \notin 1..n
    BY <1>8, <2>3
  <2>4. CASE i \notin 1..n /\ j \in 1..n
    BY <1>8, <2>4
  <2> QED
    BY <2>1, <2>2, <2>3, <2>4
<1>10. \A p \in In(u) : p \in In(s) \/ p \notin 1..a
  BY <1>1, <1>7, <1>8 DEF In
<1> QED
  BY <1>2, <1>6, <1>7, <1>9, <1>10

LEMMA AllocateStep ==
  ASSUME IInv, NEW t \in Callers, Allocate(t)
  PROVE  IInv'
<1>0. TypeOK /\ PoolTypes /\ CallTypes /\ QueueTypes /\ EndTypes /\ ResolverTypeOK /\ AtPlace
  BY TypeParts DEF IInv
<1>1. /\ step[t] = "allocate" /\ created + PoolCapacity <= MaxCreated
      /\ created' = created + PoolCapacity
      /\ cPacketPool' = cPacketPool \o [i \in 1..PoolCapacity |-> created + i]
      /\ step' = [step EXCEPT ![t] = "take"]
      /\ UNCHANGED <<resolverVars, content, session, purpose, message, msg, copyPacket, asked,
                     queueVars, endVars>>
  BY DEF Allocate, Goes
<1>2. created \in Nat /\ PoolCapacity \in Nat \ {0} /\ created' \in PoolCapacity..MaxCreated
      /\ 1..created \subseteq 1..created' /\ 0..created \subseteq 0..created'
  BY <1>0, <1>1, PoolCounts DEF PoolTypes
<1>3. /\ cPacketPool' \in Seq(1..created') /\ Once(cPacketPool)'
      /\ \A p \in In(cPacketPool)' : p \in In(cPacketPool) \/ p \notin 1..created
  <2>1. PICK all : all = cPacketPool \o [i \in 1..PoolCapacity |-> created + i]
    OBVIOUS
  <2>2. /\ all \in Seq(1..(created + PoolCapacity)) /\ Once(all)
        /\ \A p \in In(all) : p \in In(cPacketPool) \/ p \notin 1..created
    BY <1>0, <1>2, <2>1, FreshOnce DEF IInv, Apart, PoolTypes
  <2>3. cPacketPool' = all /\ In(cPacketPool)' = In(all) /\ (Once(cPacketPool)' <=> Once(all))
    BY <1>1, <2>1 DEF Once, In
  <2> QED
    BY <1>1, <2>2, <2>3
<1>4. TypeOK' /\ AtPlace'
  <2>1. PoolTypes'
    BY <1>0, <1>1, <1>2, <1>3 DEF PoolTypes
  <2>2. CallTypes'
    <3>1. msg' \in [Callers -> 0..created'] /\ copyPacket' \in [Callers -> 0..created']
      BY <1>0, <1>1, <1>2 DEF CallTypes
    <3> QED
      BY <1>0, <1>1, <3>1 DEF CallTypes
  <2>3. QueueTypes'
    <3>1. sendingQueue' \in Seq(1..created')
      BY <1>0, <1>1, <1>2, Wider DEF QueueTypes, queueVars
    <3> QED
      BY <1>0, <1>1, <3>1 DEF QueueTypes, queueVars
  <2> QED
    BY <1>0, <1>1, <2>1, <2>2, <2>3, TypeFrame, TypeParts, ResolverFrame
<1>5. ASSUME NEW u \in Callers PROVE Program(u)' /\ Hands(u)' \subseteq Hands(u)
  <2>1. msg'[u] = msg[u] /\ copyPacket'[u] = copyPacket[u] /\ purpose'[u] = purpose[u]
        /\ message'[u] = message[u] /\ msg[u] \in 0..created /\ copyPacket[u] \in 0..created
    BY <1>0, <1>1 DEF CallTypes
  <2>2. \/ step'[u] = step[u]
        \/ step[u] = "allocate" /\ step'[u] = "take"
    BY <1>0, <1>1 DEF CallTypes
  <2>3. \A p \in 1..created' : p \in 0..created => p \in 1..created
    BY <1>2
  <2>4. Hands(u)' \subseteq Hands(u)
    BY <2>1, <2>2, <2>3 DEF Hands
  <2>5. Program(u)
    BY DEF IInv
  <2>6. Program(u)'
    BY <1>1, <2>1, <2>2, <2>5 DEF Program
  <2> QED
    BY <2>4, <2>6
<1>6. Waiting' /\ Turn'
  BY <1>1, WaitingFrame, TurnFrame DEF IInv, queueVars, endVars
<1>7. Apart'
  <2>1. Once(sendingQueue)' /\ In(sendingQueue)' = In(sendingQueue)
    BY <1>1 DEF IInv, Apart, Once, In, queueVars
  <2>2. \A u \in Callers : Hands(u) \subseteq 1..created /\ In(sendingQueue) \subseteq 1..created
    BY <1>0, HandsFacts
  <2>3. \A p \in In(cPacketPool)' : p \notin In(sendingQueue)'
    BY <1>3, <2>1, <2>2 DEF IInv, Apart
  <2>4. \A u \in Callers : \A p \in Hands(u)' :
          p \notin In(cPacketPool)' /\ p \notin In(sendingQueue)'
    BY <1>3, <1>5, <2>1, <2>2 DEF IInv, Apart
  <2>5. ASSUME NEW u \in Callers, NEW w \in Callers, u # w, NEW p \in Hands(u)'
        PROVE  p \notin Hands(w)'
    BY <1>5, <2>5 DEF IInv, Apart
  <2> QED
    BY <1>3, <2>1, <2>3, <2>4, <2>5 DEF Apart
<1> QED
  BY <1>4, <1>5, <1>6, <1>7 DEF IInv

LEMMA PushBackStep ==
  ASSUME IInv, NEW t \in Callers, PushBack(t)
  PROVE  IInv'
<1>0. TypeOK /\ PoolTypes /\ CallTypes /\ QueueTypes /\ EndTypes /\ ResolverTypeOK /\ AtPlace
      /\ Program(t)
  BY TypeParts DEF IInv
<1>1. /\ step[t] = "back" /\ cPacketPool' = Append(cPacketPool, msg[t])
      /\ content' = [content EXCEPT ![msg[t]] = 0]
      /\ msg' = [msg EXCEPT ![t] = 0] /\ copyPacket' = [copyPacket EXCEPT ![t] = 0]
      /\ message' = [message EXCEPT ![t] = 0] /\ step' = [step EXCEPT ![t] = "idle"]
      /\ UNCHANGED <<resolverVars, created, session, purpose, asked, queueVars, endVars>>
  BY DEF PushBack, Goes
<1>2. PICK q : /\ q = msg[t] /\ q \in 1..created /\ q \in Hands(t) /\ q \in 1..MaxCreated
  BY <1>0, <1>1, HandsFacts DEF Program
<1>3. /\ q \notin In(cPacketPool) /\ q \notin In(sendingQueue)
      /\ \A u \in Callers : u # t => q \notin Hands(u)
  BY <1>2 DEF IInv, Apart
<1>4. /\ cPacketPool' \in Seq(1..created) /\ Once(cPacketPool)'
      /\ \A p \in In(cPacketPool)' : p \in In(cPacketPool) \/ p = q
  <2>1. PICK all : all = Append(cPacketPool, q)
    OBVIOUS
  <2>2. all \in Seq(1..created) /\ Once(all) /\ In(all) = In(cPacketPool) \cup {q}
    BY <1>0, <1>2, <1>3, <2>1, PushOnce DEF IInv, Apart, PoolTypes
  <2>3. cPacketPool' = all /\ In(cPacketPool)' = In(all) /\ (Once(cPacketPool)' <=> Once(all))
    BY <1>1, <1>2, <2>1 DEF Once, In
  <2> QED
    BY <2>2, <2>3
<1>5. TypeOK' /\ AtPlace'
  <2>1. PoolTypes'
    BY <1>0, <1>1, <1>2, <1>4, PoolCounts DEF PoolTypes
  <2>2. 0 \in 0..created /\ 0 \in 0..MaxMessages
    BY <1>0, PoolCounts DEF PoolTypes
  <2>3. CallTypes'
    BY <1>0, <1>1, <2>2 DEF CallTypes
  <2> QED
    BY <1>0, <1>1, <2>1, <2>3, TypeFrame, TypeParts, ResolverFrame
<1>6. \A p : p # q => content'[p] = content[p]
  BY <1>0, <1>1, <1>2 DEF PoolTypes
<1>7. Program(t)' /\ Hands(t)' = {}
  <2>1. step'[t] = "idle" /\ msg'[t] = 0 /\ purpose'[t] = purpose[t]
    BY <1>0, <1>1 DEF CallTypes
  <2>2. 0 \notin 1..created'
    BY <1>0, <1>1 DEF PoolTypes
  <2>3. Hands(t)' = {}
    BY <2>1, <2>2 DEF Hands
  <2> QED
    BY <1>0, <2>1, <2>3 DEF Program
<1>8. ASSUME NEW u \in Callers, u # t PROVE Program(u)' /\ Hands(u)' = Hands(u)
  <2>1. /\ step'[u] = step[u] /\ purpose'[u] = purpose[u] /\ message'[u] = message[u]
        /\ msg'[u] = msg[u] /\ copyPacket'[u] = copyPacket[u]
    BY <1>0, <1>1, <1>8 DEF CallTypes
  <2>2. Program(u) /\ \A p \in Hands(u) : content'[p] = content[p]
    BY <1>3, <1>6, <1>8 DEF IInv
  <2> QED
    BY <1>0, <1>1, <2>1, <2>2, ProgramFrame, HandsFrame
<1>9. Waiting' /\ Turn'
  BY <1>1, <1>3, <1>6, WaitingFrame, TurnFrame DEF IInv, queueVars, endVars
<1>10. Apart'
  <2>1. Once(sendingQueue)' /\ In(sendingQueue)' = In(sendingQueue)
    BY <1>1 DEF IInv, Apart, Once, In, queueVars
  <2>2. \A p \in In(cPacketPool)' : p \notin In(sendingQueue)'
    BY <1>3, <1>4, <2>1 DEF IInv, Apart
  <2>3. \A u \in Callers : \A p \in Hands(u)' : p \in Hands(u) /\ u # t
    BY <1>7, <1>8
  <2>4. \A u \in Callers : \A p \in Hands(u)' :
          p \notin In(cPacketPool)' /\ p \notin In(sendingQueue)'
    BY <1>3, <1>4, <2>1, <2>3 DEF IInv, Apart
  <2>5. ASSUME NEW u \in Callers, NEW w \in Callers, u # w, NEW p \in Hands(u)'
        PROVE  p \notin Hands(w)'
    BY <2>3, <2>5 DEF IInv, Apart
  <2> QED
    BY <1>4, <2>1, <2>2, <2>4, <2>5 DEF Apart
<1> QED
  BY <1>5, <1>7, <1>8, <1>9, <1>10 DEF IInv
-----------------------------------------------------------------------------
(* The queue *)

LEMMA WaitingFacts ==
  ASSUME TypeOK, Waiting
  PROVE  /\ Given \in {0, 1} /\ Given <= Len(sendingQueue) /\ Len(wire) <= Len(queued)
         /\ Len(wire) \in Nat /\ Len(queued) \in Nat /\ Len(sendingQueue) \in Nat
<1>1. Len(wire) \in Nat /\ Len(queued) \in Nat /\ Len(sendingQueue) \in Nat
      /\ sendingQueue \in Seq(1..created)
  BY DEF TypeOK
<1>2. \A s \in Seq(1..created) : s # <<>> => Len(s) >= 1
  OBVIOUS
<1>3. Given \in {0, 1} /\ Given <= Len(sendingQueue)
  BY <1>1, <1>2 DEF Given
<1>4. Len(queued) + Given = Len(wire) + Len(sendingQueue)
  BY DEF Waiting
<1> QED
  BY <1>1, <1>3, <1>4

\* What is behind the queue's end stays there.
LEMMA Lengthened ==
  ASSUME NEW S, NEW s \in Seq(S), NEW e \in S
  PROVE  /\ Append(s, e) \in Seq(S) /\ Len(Append(s, e)) = Len(s) + 1
         /\ Append(s, e) # <<>> /\ Append(s, e)[Len(s) + 1] = e
         /\ \A i \in 1..Len(s) : Append(s, e)[i] = s[i]
OBVIOUS

LEMMA PutStep ==
  ASSUME IInv, NEW t \in Threads, Put(t)
  PROVE  IInv'
<1>0. TypeOK /\ PoolTypes /\ CallTypes /\ QueueTypes /\ EndTypes /\ ResolverTypeOK /\ AtPlace
      /\ Program(t) /\ Waiting /\ Turn /\ t \in Callers
  BY TypeParts DEF IInv, Callers
<1>1. /\ step[t] = "put" /\ owner = Nobody /\ section = "none"
      /\ step' = [step EXCEPT ![t] = "back"]
      /\ UNCHANGED <<resolverVars, poolVars, session, purpose, message, msg, copyPacket, asked,
                     inFlight, wire, cut, endVars>>
  BY <1>0 DEF Put, Goes, QueueTypes
<1>2. PICK c : /\ c = copyPacket[t] /\ c \in 1..created /\ c \in Hands(t) /\ c # msg[t]
               /\ content[c] = message[t] /\ message[t] \in 1..MaxMessages /\ msg[t] # 0
  <2>1. copyPacket[t] # 0 /\ copyPacket[t] # msg[t] /\ content[copyPacket[t]] = message[t]
        /\ message[t] # 0 /\ msg[t] # 0
    BY <1>0, <1>1 DEF Program
  <2>2. message[t] \in 1..MaxMessages
    BY <1>0, <2>1, PoolCounts DEF CallTypes
  <2> QED
    BY <1>0, <1>1, <2>1, <2>2, HandsFacts
<1>3. /\ c \notin In(cPacketPool) /\ c \notin In(sendingQueue)
      /\ \A u \in Callers : u # t => c \notin Hands(u)
  BY <1>0, <1>2 DEF IInv, Apart
<1>4. PICK q : /\ q = Append(sendingQueue, c) /\ sendingQueue' = q
               /\ q \in Seq(1..created) /\ Once(q) /\ In(q) = In(sendingQueue) \cup {c}
               /\ q # <<>> /\ Len(q) = Len(sendingQueue) + 1 /\ q[Len(sendingQueue) + 1] = c
               /\ \A i \in DOMAIN sendingQueue : q[i] = sendingQueue[i]
  <2>1. sendingQueue \in Seq(1..created) /\ Once(sendingQueue)
    BY <1>0 DEF QueueTypes, IInv, Apart
  <2>2. sendingQueue' = Append(sendingQueue, c)
    BY <1>2 DEF Put
  <2>3. PICK q : q = Append(sendingQueue, c)
    OBVIOUS
  <2>4. /\ q \in Seq(1..created) /\ Once(q) /\ In(q) = In(sendingQueue) \cup {c}
        /\ q # <<>> /\ Len(q) = Len(sendingQueue) + 1 /\ q[Len(sendingQueue) + 1] = c
        /\ \A i \in DOMAIN sendingQueue : q[i] = sendingQueue[i]
    <3>1. c \in 1..created /\ c \notin In(sendingQueue)
      BY <1>2, <1>3
    <3>2. q \in Seq(1..created) /\ Once(q) /\ In(q) = In(sendingQueue) \cup {c}
      <4>1. /\ Append(sendingQueue, c) \in Seq(1..created) /\ Once(Append(sendingQueue, c))
            /\ In(Append(sendingQueue, c)) = In(sendingQueue) \cup {c}
        <5>1. \A S : \A s \in Seq(S) : \A p \in S :
                Once(s) /\ p \notin In(s) =>
                  /\ Append(s, p) \in Seq(S) /\ Once(Append(s, p))
                  /\ In(Append(s, p)) = In(s) \cup {p}
          BY PushOnce
        <5> QED
          BY <2>1, <3>1, <5>1, Zenon
      <4> QED
        BY <2>3, <4>1, Zenon
    <3>3. /\ q # <<>> /\ Len(q) = Len(sendingQueue) + 1 /\ q[Len(sendingQueue) + 1] = c
          /\ \A i \in 1..Len(sendingQueue) : q[i] = sendingQueue[i]
      BY <2>1, <2>3, <3>1, Lengthened
    <3>4. DOMAIN sendingQueue = 1..Len(sendingQueue)
      BY <2>1
    <3> QED
      BY <3>2, <3>3, <3>4
  <2> QED
    BY <2>2, <2>3, <2>4
<1>5. PICK w : /\ w = message[t] /\ queued' = Append(queued, w) /\ w \in 1..MaxMessages
               /\ queued' \in Seq(1..MaxMessages) /\ Len(queued') = Len(queued) + 1
               /\ queued'[Len(queued) + 1] = w
               /\ \A i \in 1..Len(queued) : queued'[i] = queued[i]
  <2>1. queued \in Seq(1..MaxMessages) /\ queued' = Append(queued, message[t])
    BY <1>0 DEF Put, QueueTypes
  <2> QED
    BY <1>2, <2>1, Lengthened
<1>6. /\ owner' = IF sendingQueue = <<>> THEN t ELSE Nobody
      /\ section' = IF sendingQueue = <<>> THEN "start" ELSE "none"
      /\ t # Nobody
  BY OtherThreads DEF Put
<1>7. TypeOK' /\ AtPlace'
  <2>1. QueueTypes'
    BY <1>0, <1>1, <1>4, <1>5, <1>6 DEF QueueTypes, poolVars
  <2>2. CallTypes'
    BY <1>0, <1>1 DEF CallTypes, poolVars
  <2> QED
    BY <1>0, <1>1, <2>1, <2>2, TypeFrame, TypeParts, ResolverFrame
<1>8. Program(t)' /\ \A p \in Hands(t)' : p \in Hands(t) /\ p # c
  <2>1. step'[t] = "back" /\ msg'[t] = msg[t] /\ message'[t] = message[t]
        /\ purpose'[t] = purpose[t] /\ created' = created
    BY <1>0, <1>1 DEF CallTypes, poolVars
  <2>2. Program(t)'
    BY <1>0, <1>1, <1>2, <2>1 DEF Program
  <2> QED
    BY <1>2, <2>1, <2>2 DEF Hands
<1>9. ASSUME NEW u \in Callers, u # t PROVE Program(u)' /\ Hands(u)' = Hands(u)
  <2>1. /\ step'[u] = step[u] /\ purpose'[u] = purpose[u] /\ message'[u] = message[u]
        /\ msg'[u] = msg[u] /\ copyPacket'[u] = copyPacket[u] /\ content' = content
        /\ created' = created
    BY <1>0, <1>1, <1>9 DEF CallTypes, poolVars
  <2>2. Program(u)
    BY DEF IInv
  <2> QED
    BY <1>0, <2>1, <2>2, ProgramFrame, HandsFrame
<1>10. Waiting'
  <2>1. Given' = Given
    BY <1>1, <1>4, <1>6 DEF Given
  <2>2. PICK n \in Nat : n = Len(sendingQueue) /\ DOMAIN sendingQueue = 1..n
    BY <1>0 DEF QueueTypes
  <2>3. PICK l \in Nat, k \in Nat, g \in {0, 1} :
          l = Len(wire) /\ k = Len(queued) /\ g = Given /\ k + g = l + n /\ g <= n /\ l <= k
    BY <1>0, <2>2, WaitingFacts DEF Waiting
  <2>4. content' = content /\ wire' = wire
    BY <1>1 DEF poolVars
  <2>5. Len(queued') + Given' = Len(wire') + Len(sendingQueue')
    <3>1. Len(queued') = k + 1 /\ Given' = g /\ Len(wire') = l /\ Len(sendingQueue') = n + 1
      BY <1>4, <1>5, <2>1, <2>2, <2>3, <2>4
    <3>2. k + 1 + g = l + (n + 1)
      BY <2>2, <2>3
    <3> QED
      BY <3>1, <3>2
  <2>6. \A i \in 1..Len(wire') : wire'[i] = queued'[i]
    <3>1. \A i \in 1..l : i \in 1..k
      BY <2>3
    <3> QED
      BY <1>0, <1>5, <2>3, <2>4, <3>1 DEF Waiting
  <2>7. ASSUME NEW i \in DOMAIN q, i > g PROVE content[q[i]] = queued'[l + i - g]
    <3>1. i \in 1..n + 1
      BY <1>4, <2>2
    <3>2. CASE i \in 1..n
      <4>1. l + i - g \in 1..k
        BY <2>3, <2>7, <3>2, <2>2
      <4>2. content[sendingQueue[i]] = queued[l + i - g]
        BY <1>0, <2>2, <2>3, <2>7, <3>2 DEF Waiting
      <4> QED
        BY <1>4, <1>5, <2>2, <2>3, <3>2, <4>1, <4>2
    <3>3. CASE i = n + 1
      <4>1. l + i - g = k + 1
        BY <2>2, <2>3, <3>3
      <4> QED
        BY <1>2, <1>4, <1>5, <2>2, <2>3, <3>3, <4>1
    <3> QED
      BY <2>2, <3>1, <3>2, <3>3
  <2> QED
    BY <1>4, <2>1, <2>3, <2>4, <2>5, <2>6, <2>7 DEF Waiting
<1>11. Turn'
  <2>1. /\ UNCHANGED <<inFlight, cut, removed, stopped>> /\ sendingQueue' # <<>>
        /\ sendingQueue # <<>> => owner' = Nobody /\ section' = "none"
        /\ sendingQueue = <<>> => owner' # Nobody /\ section' = "start"
    BY <1>1, <1>4, <1>6 DEF endVars
  <2> QED
    BY <1>0, <1>1, <2>1 DEF Turn, SendTurn
<1>12. Apart'
  <2>1. Once(cPacketPool)' /\ In(cPacketPool)' = In(cPacketPool)
    BY <1>1 DEF IInv, Apart, Once, In, poolVars
  <2>2. Once(sendingQueue)' /\ In(sendingQueue)' = In(sendingQueue) \cup {c}
    BY <1>4 DEF Once, In
  <2>3. \A p \in In(cPacketPool)' : p \notin In(sendingQueue)'
    BY <1>3, <2>1, <2>2 DEF IInv, Apart
  <2>4. \A u \in Callers : \A p \in Hands(u)' : p \in Hands(u) /\ p # c
    BY <1>3, <1>8, <1>9
  <2>5. \A u \in Callers : \A p \in Hands(u)' :
          p \notin In(cPacketPool)' /\ p \notin In(sendingQueue)'
    BY <2>1, <2>2, <2>4 DEF IInv, Apart
  <2>6. ASSUME NEW u \in Callers, NEW x \in Callers, u # x, NEW p \in Hands(u)'
        PROVE  p \notin Hands(x)'
    BY <2>4, <2>6 DEF IInv, Apart
  <2> QED
    BY <2>1, <2>2, <2>3, <2>5, <2>6 DEF Apart
<1> QED
  BY <1>7, <1>8, <1>9, <1>10, <1>11, <1>12 DEF IInv
\* A step under the lock that touches the queue's variables only.
LEMMA LockedFrame ==
  ASSUME IInv, UNCHANGED <<resolverVars, poolVars, callVars, endVars, sendingQueue>>,
         QueueTypes', Waiting', Turn'
  PROVE  IInv'
<1>1. TypeOK /\ PoolTypes /\ CallTypes /\ EndTypes /\ ResolverTypeOK /\ AtPlace
  BY TypeParts DEF IInv
<1>2. TypeOK' /\ AtPlace'
  BY <1>1, TypeFrame, TypeParts, ResolverFrame DEF poolVars
<1>3. \A t \in Callers : Program(t)' /\ Hands(t)' \subseteq Hands(t)
  BY <1>1, ProgramFrame, HandsFrame DEF IInv, poolVars, callVars
<1>4. Apart'
  BY <1>3, ApartFrame DEF IInv, poolVars
<1> QED
  BY <1>2, <1>3, <1>4 DEF IInv

LEMMA StartSendStep ==
  ASSUME IInv, stopped = "no", StartSendPending \/ StartSendAtOnce
  PROVE  IInv'
<1>0. TypeOK /\ QueueTypes /\ PoolTypes /\ Waiting /\ Turn
  BY TypeParts DEF IInv
<1>1. /\ section = "start" /\ ~inFlight /\ wire' = Append(wire, content[Head(sendingQueue)])
      /\ UNCHANGED <<resolverVars, poolVars, callVars, sendingQueue, queued, cut, endVars>>
      /\ \/ inFlight' = TRUE /\ owner' = Nobody /\ section' = "none"
         \/ inFlight' = inFlight /\ owner' = owner /\ section' = "sent"
  BY DEF StartSendPending, StartSendAtOnce, Peeked
<1>2. sendingQueue # <<>>
  BY <1>0, <1>1 DEF Turn
<1>3. PICK n \in Nat : n = Len(sendingQueue) /\ DOMAIN sendingQueue = 1..n /\ n >= 1
                       /\ Head(sendingQueue) = sendingQueue[1]
  <2>1. \A s \in Seq(1..created) : s # <<>> => /\ Len(s) \in Nat /\ DOMAIN s = 1..Len(s)
                                               /\ Len(s) >= 1 /\ Head(s) = s[1]
    OBVIOUS
  <2> QED
    BY <1>0, <1>2, <2>1 DEF QueueTypes
<1>4. PICK v \in 0..MaxMessages : v = content[Head(sendingQueue)]
  <2>1. Head(sendingQueue) \in 1..created
    <3>1. sendingQueue \in Seq(1..created) /\ Once(sendingQueue)
      BY <1>0 DEF IInv, Apart, QueueTypes
    <3> QED
      BY <1>2, <3>1, HeadOnce, Zenon
  <2>2. Head(sendingQueue) \in 1..MaxCreated
    BY <1>0, <2>1, PoolCounts DEF PoolTypes
  <2> QED
    BY <1>0, <2>2 DEF PoolTypes
<1>5. PICK l \in Nat, k \in Nat : l = Len(wire) /\ k = Len(queued) /\ k = l + n
  BY <1>0, <1>1, <1>3, WaitingFacts DEF Waiting, Given
<1>6. /\ wire' \in Seq(0..MaxMessages) /\ Len(wire') = l + 1 /\ wire'[l + 1] = v
      /\ \A i \in 1..l : wire'[i] = wire[i]
  <2>1. wire \in Seq(0..MaxMessages) /\ wire' = Append(wire, v)
    BY <1>0, <1>1, <1>4 DEF QueueTypes
  <2> QED
    BY <1>5, <2>1, Lengthened
<1>7. QueueTypes'
  <2>1. sendingQueue' \in Seq(1..created') /\ queued' \in Seq(1..MaxMessages)
        /\ cut' \in BOOLEAN /\ inFlight' \in BOOLEAN
    BY <1>0, <1>1 DEF QueueTypes, poolVars
  <2>2. /\ owner' \in Threads \cup {Completion, Nobody} /\ section' \in {"none", "start", "sent"}
        /\ (owner' = Nobody) = (section' = "none")
    BY <1>0, <1>1 DEF QueueTypes
  <2> QED
    BY <1>6, <2>1, <2>2 DEF QueueTypes
<1>8. Waiting'
  <2>1. Given = 0 /\ Given' = 1
    BY <1>1, <1>2 DEF Given
  <2>2. content' = content /\ queued' = queued /\ sendingQueue' = sendingQueue
    BY <1>1 DEF poolVars
  <2>3. \A i \in 1..n : content[sendingQueue[i]] = queued[l + i]
    <3> SUFFICES ASSUME NEW i \in 1..n PROVE content[sendingQueue[i]] = queued[l + i]
      OBVIOUS
    <3>1. i > Given /\ l + i - Given = l + i
      BY <1>3, <1>5, <2>1
    <3> QED
      BY <1>0, <1>3, <1>5, <3>1 DEF Waiting
  <2>4. Len(queued') + Given' = Len(wire') + Len(sendingQueue')
    <3>1. Len(queued') = k /\ Given' = 1 /\ Len(wire') = l + 1 /\ Len(sendingQueue') = n
      BY <1>3, <1>5, <1>6, <2>1, <2>2
    <3>2. k + 1 = l + 1 + n
      BY <1>3, <1>5
    <3> QED
      BY <3>1, <3>2
  <2>5. \A i \in 1..Len(wire') : wire'[i] = queued'[i]
    <3> SUFFICES ASSUME NEW i \in 1..l + 1 PROVE wire'[i] = queued[i]
      BY <1>6, <2>2
    <3>1. CASE i \in 1..l
      BY <1>0, <1>5, <1>6, <3>1 DEF Waiting
    <3>2. CASE i = l + 1
      <4>1. 1 \in 1..n /\ content[sendingQueue[1]] = queued[l + 1]
        BY <1>3, <2>3
      <4> QED
        BY <1>3, <1>4, <1>6, <3>2, <4>1
    <3> QED
      BY <1>5, <3>1, <3>2
  <2>6. ASSUME NEW i \in 1..n, i > 1
        PROVE  content[sendingQueue[i]] = queued[l + 1 + i - 1]
    <3>1. l + 1 + i - 1 = l + i
      BY <1>3, <1>5
    <3> QED
      BY <2>3, <3>1
  <2>7. \A i \in DOMAIN sendingQueue' : i > Given' =>
          content'[sendingQueue'[i]] = queued'[Len(wire') + i - Given']
    BY <1>3, <1>6, <2>1, <2>2, <2>6
  <2> QED
    BY <2>4, <2>5, <2>7 DEF Waiting
<1>9. Turn'
  BY <1>0, <1>1, <1>2 DEF Turn, SendTurn, QueueTypes, endVars
<1> QED
  BY <1>1, <1>7, <1>8, <1>9, LockedFrame

LEMMA OtherCompletion == Completion # Nobody
<1> SUFFICES ASSUME Completion = Nobody PROVE FALSE
  OBVIOUS
<1>1. {Reader, Completion, Nobody} = {Reader} \cup {Nobody}
  OBVIOUS
<1>2. IsFiniteSet({Reader}) /\ Cardinality({Reader}) = 1
  BY FS_Singleton
<1>3. Cardinality({Reader} \cup {Nobody}) \in {1, 2}
  BY <1>2, FS_AddElement
<1> QED
  BY <1>1, <1>3, OtherThreads

LEMMA CompletedStep ==
  ASSUME IInv, SendCompleted \/ ProcessSendFails
  PROVE  IInv'
<1>0. TypeOK /\ QueueTypes /\ Waiting /\ Turn
  BY TypeParts DEF IInv
<1>1. UNCHANGED <<resolverVars, poolVars, callVars, endVars, sendingQueue, queued, wire>>
  BY DEF SendCompleted, ProcessSendFails
<1>2. section # "start" /\ section' # "start" /\ Nobody # Completion
  BY <1>0, OtherCompletion DEF SendCompleted, ProcessSendFails, QueueTypes
<1>3. QueueTypes'
  <2>1. sendingQueue' \in Seq(1..created') /\ queued' \in Seq(1..MaxMessages)
        /\ wire' \in Seq(0..MaxMessages)
    BY <1>0, <1>1 DEF QueueTypes, poolVars
  <2>2. /\ owner' \in Threads \cup {Completion, Nobody} /\ section' \in {"none", "start", "sent"}
        /\ (owner' = Nobody) = (section' = "none")
    BY <1>2 DEF SendCompleted, ProcessSendFails
  <2>3. inFlight' \in BOOLEAN /\ cut' \in BOOLEAN
    BY <1>0 DEF SendCompleted, ProcessSendFails, QueueTypes
  <2> QED
    BY <2>1, <2>2, <2>3 DEF QueueTypes
<1>4. Waiting'
  <2>1. Given' = Given
    BY <1>1, <1>2 DEF Given
  <2> QED
    BY <1>0, <1>1, <2>1 DEF Waiting, poolVars
<1>5. Turn'
  <2>1. CASE SendCompleted
    BY <1>0, <1>2, <2>1 DEF SendCompleted, Turn, SendTurn, endVars
  <2>2. CASE ProcessSendFails
    BY <1>0, <1>2, <2>2 DEF ProcessSendFails, Turn, SendTurn, endVars
  <2> QED
    BY <2>1, <2>2
<1> QED
  BY <1>1, <1>3, <1>4, <1>5, LockedFrame
LEMMA ProcessSendStep ==
  ASSUME IInv, ProcessSend
  PROVE  IInv'
<1>0. TypeOK /\ PoolTypes /\ CallTypes /\ QueueTypes /\ EndTypes /\ ResolverTypeOK /\ AtPlace
      /\ Waiting /\ Turn
  BY TypeParts DEF IInv
<1>1. /\ section = "sent" /\ sendingQueue # <<>>
      /\ cPacketPool' = Append(cPacketPool, Head(sendingQueue))
      /\ content' = [content EXCEPT ![Head(sendingQueue)] = 0]
      /\ sendingQueue' = Tail(sendingQueue)
      /\ owner' = IF Len(sendingQueue) > 1 THEN owner ELSE Nobody
      /\ section' = IF Len(sendingQueue) > 1 THEN "start" ELSE "none"
      /\ UNCHANGED <<resolverVars, created, callVars, inFlight, queued, wire, cut, endVars>>
  BY DEF ProcessSend
<1>2. PICK n \in Nat, h \in 1..created :
        /\ h = Head(sendingQueue) /\ n = Len(sendingQueue) /\ n >= 1
        /\ DOMAIN sendingQueue = 1..n
  <2>1. \A s \in Seq(1..created) : s # <<>> => /\ Len(s) \in Nat /\ DOMAIN s = 1..Len(s)
                                               /\ Len(s) >= 1
    OBVIOUS
  <2>2. sendingQueue \in Seq(1..created) /\ Once(sendingQueue)
    BY <1>0 DEF IInv, Apart, QueueTypes
  <2>3. Head(sendingQueue) \in 1..created
    BY <1>1, <2>2, HeadOnce, Zenon
  <2> QED
    BY <1>1, <2>1, <2>2, <2>3
<1>3. /\ Tail(sendingQueue) \in Seq(1..created) /\ Once(Tail(sendingQueue))
      /\ In(Tail(sendingQueue)) \subseteq In(sendingQueue)
      /\ h \in In(sendingQueue) /\ h \notin In(Tail(sendingQueue))
      /\ Len(Tail(sendingQueue)) = n - 1
      /\ \A i \in DOMAIN Tail(sendingQueue) :
           i + 1 \in DOMAIN sendingQueue /\ Tail(sendingQueue)[i] = sendingQueue[i + 1]
  <2>1. sendingQueue \in Seq(1..created) /\ Once(sendingQueue)
    BY <1>0 DEF IInv, Apart, QueueTypes
  <2>2. \A S : \A s \in Seq(S) : Once(s) /\ s # <<>> =>
          /\ Tail(s) \in Seq(S) /\ Once(Tail(s)) /\ In(Tail(s)) \subseteq In(s)
          /\ Head(s) \in In(s) /\ Head(s) \notin In(Tail(s))
          /\ Len(Tail(s)) = Len(s) - 1
          /\ \A i \in DOMAIN Tail(s) : i + 1 \in DOMAIN s /\ Tail(s)[i] = s[i + 1]
    BY HeadOnce
  <2> QED
    BY <1>1, <1>2, <2>1, <2>2, Zenon
<1>4. PICK r : /\ r = Tail(sendingQueue) /\ r \in Seq(1..created) /\ Once(r)
               /\ \A p \in In(r) : p \in In(sendingQueue) /\ p # h
               /\ Len(r) = n - 1 /\ DOMAIN r = 1..n - 1
               /\ \A i \in 1..n - 1 : r[i] = sendingQueue[i + 1]
  <2>1. PICK r : r = Tail(sendingQueue)
    OBVIOUS
  <2>2. r \in Seq(1..created) /\ Len(r) = n - 1
    BY <1>3, <2>1
  <2>3. DOMAIN r = 1..n - 1
    BY <2>2
  <2>4. \A p \in In(r) : p \in In(sendingQueue) /\ p # h
    BY <1>3, <2>1
  <2> QED
    BY <1>3, <2>1, <2>2, <2>3, <2>4, Zenon
<1>5. h \notin In(cPacketPool) /\ (\A u \in Callers : h \notin Hands(u)) /\ h \in 1..MaxCreated
  <2>1. 1..created \subseteq 1..MaxCreated
    BY <1>0, PoolCounts DEF PoolTypes
  <2> QED
    BY <1>3, <2>1 DEF IInv, Apart
<1>6. /\ cPacketPool' \in Seq(1..created) /\ Once(cPacketPool)'
      /\ \A p \in In(cPacketPool)' : p \in In(cPacketPool) \/ p = h
  <2>1. PICK all : all = Append(cPacketPool, h)
    OBVIOUS
  <2>2. all \in Seq(1..created) /\ Once(all) /\ In(all) = In(cPacketPool) \cup {h}
    BY <1>0, <1>3, <1>5, <2>1, PushOnce DEF IInv, Apart, PoolTypes
  <2>3. cPacketPool' = all /\ In(cPacketPool)' = In(all) /\ (Once(cPacketPool)' <=> Once(all))
    BY <1>1, <1>2, <2>1 DEF Once, In
  <2> QED
    BY <2>2, <2>3
<1>7. TypeOK' /\ AtPlace'
  <2>1. PoolTypes'
    BY <1>0, <1>1, <1>2, <1>5, <1>6, PoolCounts DEF PoolTypes
  <2>2. QueueTypes'
    BY <1>0, <1>1, <1>4 DEF QueueTypes
  <2> QED
    BY <1>0, <1>1, <2>1, <2>2, TypeFrame, TypeParts, ResolverFrame
<1>8. \A p : p # h => content'[p] = content[p]
  BY <1>0, <1>1, <1>2, <1>5 DEF PoolTypes
<1>9. ASSUME NEW u \in Callers PROVE Program(u)' /\ Hands(u)' = Hands(u)
  <2>1. Program(u) /\ \A p \in Hands(u) : content'[p] = content[p]
    BY <1>5, <1>8 DEF IInv
  <2> QED
    BY <1>0, <1>1, <2>1, ProgramFrame, HandsFrame DEF callVars
<1>10. PICK l \in Nat, k \in Nat : l = Len(wire) /\ k = Len(queued) /\ k + 1 = l + n
  <2>1. Given = 1
    BY <1>1 DEF Given
  <2> QED
    BY <1>0, <1>2, <2>1, WaitingFacts DEF Waiting
<1>11. sendingQueue' = r /\ (r = <<>> <=> ~(n > 1))
  <2>1. \A s \in Seq(1..created) : s = <<>> <=> Len(s) = 0
    OBVIOUS
  <2> QED
    BY <1>1, <1>2, <1>4, <2>1
<1>12. Waiting'
  <2>1. Given = 1 /\ Given' = 0
    BY <1>1, <1>2, <1>11 DEF Given
  <2>2. \A i \in 2..n : content[sendingQueue[i]] = queued[l + i - 1]
    <3> SUFFICES ASSUME NEW i \in 2..n PROVE content[sendingQueue[i]] = queued[l + i - 1]
      OBVIOUS
    <3>1. i \in DOMAIN sendingQueue /\ i > Given
      BY <1>2, <2>1
    <3> QED
      BY <1>0, <1>10, <2>1, <3>1 DEF Waiting
  <2>3. ASSUME NEW i \in 1..n - 1 PROVE content'[r[i]] = queued[l + i]
    <3>1. i + 1 \in 2..n /\ l + (i + 1) - 1 = l + i
      BY <1>2, <1>10
    <3>2. r[i] = sendingQueue[i + 1] /\ r[i] # h
      <4>1. r[i] \in In(r)
        BY <1>4, <2>3 DEF In
      <4> QED
        BY <1>4, <2>3, <4>1
    <3>3. content[sendingQueue[i + 1]] = queued[l + (i + 1) - 1]
      BY <2>2, <3>1
    <3> QED
      BY <1>8, <3>1, <3>2, <3>3
  <2>4. queued' = queued /\ wire' = wire
    BY <1>1
  <2>5. Len(queued') + Given' = Len(wire') + Len(sendingQueue')
    <3>1. Len(queued') = k /\ Given' = 0 /\ Len(wire') = l /\ Len(sendingQueue') = n - 1
      BY <1>4, <1>10, <1>11, <2>1, <2>4
    <3>2. k + 0 = l + (n - 1)
      BY <1>2, <1>10
    <3> QED
      BY <3>1, <3>2
  <2>6. \A i \in DOMAIN sendingQueue' : i > Given' =>
          content'[sendingQueue'[i]] = queued'[Len(wire') + i - Given']
    <3> SUFFICES ASSUME NEW i \in 1..n - 1 PROVE content'[r[i]] = queued[l + i - 0]
      BY <1>4, <1>10, <1>11, <2>1, <2>4
    <3>1. l + i - 0 = l + i
      BY <1>2, <1>10
    <3> QED
      BY <2>3, <3>1
  <2>7. \A i \in 1..Len(wire') : wire'[i] = queued'[i]
    BY <1>0, <2>4 DEF Waiting
  <2> QED
    BY <2>5, <2>6, <2>7 DEF Waiting
<1>13. Turn'
  <2>1. n > 1 => owner' = owner /\ section' = "start" /\ sendingQueue' # <<>>
    BY <1>1, <1>2, <1>11
  <2>2. ~(n > 1) => section' = "none" /\ sendingQueue' = <<>>
    BY <1>1, <1>2, <1>11
  <2>3. owner # Nobody /\ UNCHANGED <<inFlight, cut, removed, stopped>>
    BY <1>0, <1>1 DEF QueueTypes, endVars
  <2>4. ~removed => ~inFlight
    BY <1>0, <1>1 DEF Turn
  <2> QED
    BY <1>0, <2>1, <2>2, <2>3, <2>4 DEF Turn, SendTurn
<1>14. Apart'
  <2>1. Once(sendingQueue)' /\ \A p \in In(sendingQueue)' : p \in In(sendingQueue) /\ p # h
    BY <1>4, <1>11 DEF Once, In
  <2>2. \A p \in In(cPacketPool)' : p \notin In(sendingQueue)'
    BY <1>6, <2>1 DEF IInv, Apart
  <2>3. \A u \in Callers : \A p \in Hands(u)' :
          p \notin In(cPacketPool)' /\ p \notin In(sendingQueue)'
    BY <1>5, <1>6, <1>9, <2>1 DEF IInv, Apart
  <2>4. ASSUME NEW u \in Callers, NEW w \in Callers, u # w, NEW p \in Hands(u)'
        PROVE  p \notin Hands(w)'
    BY <1>9, <2>4 DEF IInv, Apart
  <2> QED
    BY <1>6, <2>1, <2>2, <2>3, <2>4 DEF Apart
<1> QED
  BY <1>7, <1>9, <1>12, <1>13, <1>14 DEF IInv
LEMMA Elements ==
  ASSUME NEW S, NEW s \in Seq(S)
  PROVE  \A i \in 1..Len(s) : s[i] \in S
OBVIOUS

LEMMA Narrower ==
  ASSUME NEW S, NEW T, NEW s \in Seq(S), \A i \in 1..Len(s) : s[i] \in T
  PROVE  s \in Seq(T)
OBVIOUS

\* Only after OnRemoved can the queue be empty, or the send still under way,
\* where a packet is to be sent.
LEMMA SendThrows ==
  ASSUME IInv, StartSendRefused \/ ProcessSendNothing
  PROVE  IInv'
<1>1. ~removed => (inFlight => section = "none") /\ (section = "sent" => sendingQueue # <<>>)
  BY DEF IInv, Turn
<1>2. CASE StartSendRefused
  <2>1. removed /\ Throws("InProgress")
    BY <1>1, <1>2, Zenon DEF StartSendRefused
  <2> QED
    BY <2>1, ThrowStep
<1>3. CASE ProcessSendNothing
  <2>1. removed /\ Throws("QueueEmpty")
    BY <1>1, <1>3, Zenon DEF ProcessSendNothing
  <2> QED
    BY <2>1, ThrowStep
<1> QED
  BY <1>2, <1>3

LEMMA OnRemovedStep ==
  ASSUME IInv, OnRemoved
  PROVE  IInv'
<1>0. TypeOK /\ PoolTypes /\ CallTypes /\ QueueTypes /\ EndTypes /\ ResolverTypeOK /\ AtPlace
      /\ Waiting /\ Turn
  BY TypeParts DEF IInv
<1>1. /\ removed' = TRUE /\ sendingQueue' = <<>> /\ queued' = wire
      /\ stopped' = IF owner = Nobody THEN "no" ELSE "raced"
      /\ UNCHANGED <<resolverVars, poolVars, callVars, owner, section, inFlight, wire, cut>>
  BY DEF OnRemoved
<1>2. wire \in Seq(1..MaxMessages)
  <2>1. \A i \in 1..Len(wire) : i \in 1..Len(queued)
    BY <1>0, WaitingFacts
  <2>2. \A i \in 1..Len(queued) : queued[i] \in 1..MaxMessages
    BY <1>0, Elements DEF QueueTypes
  <2>3. \A i \in 1..Len(wire) : wire[i] \in 1..MaxMessages
    BY <1>0, <2>1, <2>2 DEF Waiting
  <2> QED
    BY <1>0, <2>3, Narrower DEF QueueTypes
<1>3. TypeOK' /\ AtPlace'
  <2>1. QueueTypes'
    <3>1. sendingQueue' \in Seq(1..created')
      BY <1>1
    <3> QED
      BY <1>0, <1>1, <1>2, <3>1 DEF QueueTypes
  <2>2. EndTypes'
    BY <1>1 DEF EndTypes
  <2> QED
    BY <1>0, <1>1, <2>1, <2>2, TypeFrame, TypeParts, ResolverFrame DEF poolVars
<1>4. ASSUME NEW t \in Callers PROVE Program(t)' /\ Hands(t)' = Hands(t)
  BY <1>0, <1>1, ProgramFrame, HandsFrame DEF IInv, poolVars, callVars
<1>5. DOMAIN sendingQueue' = {} /\ Len(sendingQueue') = 0
  BY <1>1
<1>6. Apart'
  <2>1. Once(cPacketPool)' /\ In(cPacketPool)' = In(cPacketPool)
    BY <1>1 DEF IInv, Apart, Once, In, poolVars
  <2>2. Once(sendingQueue)' /\ In(sendingQueue)' = {}
    BY <1>5 DEF Once, In
  <2>3. \A t, u \in Callers : t # u => \A p \in Hands(t)' : p \notin Hands(u)'
    BY <1>4 DEF IInv, Apart
  <2> QED
    BY <1>4, <2>1, <2>2, <2>3 DEF IInv, Apart
<1>7. Waiting'
  <2>1. Given' = 0 /\ Len(wire) \in Nat
    BY <1>0, <1>1, WaitingFacts DEF Given
  <2> QED
    BY <1>1, <1>5, <2>1 DEF Waiting
<1>8. Turn'
  BY <1>0, <1>1 DEF Turn, SendTurn, QueueTypes
<1> QED
  BY <1>3, <1>4, <1>6, <1>7, <1>8 DEF IInv
-----------------------------------------------------------------------------
(* The invariant *)

LEMMA InitIInv == Init => IInv
<1> SUFFICES ASSUME Init PROVE IInv
  OBVIOUS
<1>1. PoolCapacity \in Nat \ {0} /\ MaxCreated \in Nat /\ MaxMessages \in Nat
      /\ PoolCapacity <= MaxCreated /\ LengthSize \in Nat \ {0} /\ BufferSize \in Nat
  BY PoolCounts, ResolverSizes
<1>2. ResolverTypeOK /\ AtPlace
  <2>1. /\ ends \in Streams /\ received = 0 /\ messageBuffer = Cleared /\ remainBytes = 0
        /\ quantityToRead = 0 /\ currentReaded = 0 /\ handled = <<>>
    BY DEF Init, ResolverInit
  <2>2. Len(ends) \in Nat /\ Total \in Nat /\ StartOf(1) = 0
    BY <2>1, StreamFacts
  <2>3. Base = 0 /\ Len(handled) = 0 /\ handled \in Seq(Packets)
    BY <2>1, <2>2 DEF Base, Current
  <2>4. Cleared \in [0..(BufferSize - 1) -> Int]
    BY DEF Cleared
  <2>5. ResolverTypeOK
    BY <1>1, <2>1, <2>2, <2>4 DEF ResolverTypeOK
  <2>6. AtPlace
    BY <1>1, <2>1, <2>2, <2>3 DEF AtPlace
  <2> QED
    BY <2>5, <2>6
<1>3. PICK pool : pool = [i \in 1..PoolCapacity |-> i] /\ cPacketPool = pool
  BY DEF Init
<1>4. pool \in Seq(1..PoolCapacity) /\ DOMAIN pool = 1..PoolCapacity /\ Once(pool)
  BY <1>1, <1>3 DEF Once
<1>5. DOMAIN sendingQueue = {} /\ Len(sendingQueue) = 0 /\ sendingQueue = <<>> /\ Len(wire) = 0
      /\ Len(queued) = 0
  BY DEF Init
<1>6. TypeOK
  <2>1. PoolTypes
    BY <1>1, <1>3, <1>4 DEF Init, PoolTypes
  <2>2. CallTypes
    <3>1. 0 \in 0..created /\ 0 \in 0..MaxMessages
      BY <1>1 DEF Init
    <3>2. /\ [t \in Callers |-> 0] \in [Callers -> 0..created]
          /\ [t \in Callers |-> 0] \in [Callers -> 0..MaxMessages]
      BY <3>1
    <3>3. /\ session = FALSE /\ asked = 0
          /\ step = [t \in Callers |-> "idle"] /\ purpose = [t \in Callers |-> "none"]
          /\ message = [t \in Callers |-> 0] /\ msg = [t \in Callers |-> 0]
          /\ copyPacket = [t \in Callers |-> 0]
      BY DEF Init
    <3> QED
      BY <3>1, <3>2, <3>3 DEF CallTypes
  <2>3. QueueTypes
    <3>1. /\ sendingQueue = <<>> /\ owner = Nobody /\ section = "none" /\ inFlight = FALSE
          /\ cut = FALSE /\ queued = <<>> /\ wire = <<>>
      BY DEF Init
    <3>2. \A S : <<>> \in Seq(S)
      OBVIOUS
    <3> QED
      BY <3>1, <3>2 DEF QueueTypes
  <2>4. EndTypes
    BY DEF Init, EndTypes
  <2> QED
    BY <1>2, <2>1, <2>2, <2>3, <2>4, TypeParts
<1>7. \A t \in Callers : step[t] = "idle" /\ msg[t] = 0 /\ purpose[t] = "none"
  BY DEF Init
<1>8. \A t \in Callers : Program(t) /\ Hands(t) = {}
  <2>1. 0 \notin 1..created
    BY <1>1 DEF Init
  <2> QED
    BY <1>7, <2>1 DEF Program, Hands
<1>9. Apart
  BY <1>3, <1>4, <1>5, <1>8 DEF Apart, Once, In
<1>10. Waiting
  BY <1>5 DEF Waiting, Given
<1>11. Turn
  BY <1>5 DEF Init, Turn, SendTurn
<1> QED
  BY <1>2, <1>6, <1>8, <1>9, <1>10, <1>11 DEF IInv

LEMMA StutterStep ==
  ASSUME IInv, UNCHANGED vars
  PROVE  IInv'
<1>1. UNCHANGED <<resolverVars, poolVars, callVars, queueVars, endVars>>
  BY DEF vars
<1>2. TypeOK /\ CallTypes
  BY TypeParts DEF IInv
<1>3. CallTypes'
  BY <1>1, <1>2, TypeFrame DEF poolVars
<1>4. \A t \in Callers : Program(t)' /\ Hands(t)' \subseteq Hands(t)
  BY <1>1, <1>2, ProgramFrame, HandsFrame DEF IInv, poolVars, callVars
<1> QED
  BY <1>1, <1>3, <1>4, CallFrame

LEMMA IInvStep == IInv /\ [Next]_vars => IInv'
<1> SUFFICES ASSUME IInv, [Next]_vars PROVE IInv'
  OBVIOUS
<1>1. CASE UNCHANGED vars
  BY <1>1, StutterStep
<1>2. CASE Next
  <2>1. stopped = "no"
    BY <1>2 DEF Next
  <2>2. CASE Read \/ Receive \/ OnMessage
    BY <2>2, ReadStep
  <2>3. CASE OnMessageTooEarly
    BY <2>3, ThrowStep DEF OnMessageTooEarly
  <2>4. CASE SetSession
    <3>1. Reader \in Callers
      BY DEF Callers
    <3> QED
      BY <2>4, <3>1, CallStep
  <2>5. CASE PoolNext
    <3>1. PICK t \in Callers :
            \/ BeginMessage(t) \/ TestCount(t) \/ Allocate(t) \/ TakeNothing(t)
            \/ PopForCreate(t) \/ PopForSend(t) \/ PushBack(t)
      BY <2>5 DEF PoolNext
    <3>2. CASE TakeNothing(t)
      BY <3>2, ThrowStep DEF TakeNothing
    <3> QED
      BY <3>1, <3>2, CallStep, AllocateStep, PopStep, PushBackStep
  <2>6. CASE SendNext
    BY <2>1, <2>6, PutStep, StartSendStep, CompletedStep, ProcessSendStep, SendThrows DEF SendNext
  <2>7. CASE PopForRead
    <3>1. Reader \in Callers
      BY DEF Callers
    <3> QED
      BY <2>7, <3>1, PopStep
  <2>8. CASE OnRemoved
    BY <2>8, OnRemovedStep
  <2> QED
    BY <1>2, <2>2, <2>3, <2>4, <2>5, <2>6, <2>7, <2>8 DEF Next
<1> QED
  BY <1>1, <1>2

LEMMA IInvAlways == Spec => []IInv
BY InitIInv, IInvStep, PTL DEF Spec
-----------------------------------------------------------------------------
(* Every variable has its type, and neither what the receive loop reads nor *)
(* where it puts it leaves its buffer (TcpMsgResolver.cs:57).               *)
THEOREM PacketsTyped == Spec => []TypeOK
<1>1. IInv => TypeOK
  BY DEF IInv
<1> QED
  BY <1>1, IInvAlways, PTL

(* However the stream of the server is cut into receives, the callback is   *)
(* given its packets whole and in turn, and as soon as they have arrived    *)
(* (TcpMsgResolver.cs:16-66).                                               *)
THEOREM MessagesWholeHolds == Spec => []MessagesWhole
<1>1. IInv => MessagesWhole
  BY PlaceWhole DEF IInv, TypeOK
<1> QED
  BY <1>1, IInvAlways, PTL

(* The socket is given the messages in the order in which they were put     *)
(* into the queue, each once and with its own content (CUserToken.cs:42-67).*)
THEOREM SentInOrderHolds == Spec => []SentInOrder
<1>1. IInv => SentInOrder
  BY WaitingFacts DEF IInv, Waiting, SentInOrder
<1> QED
  BY <1>1, IInvAlways, PTL

(* While the server is there, one send is under way whenever a packet waits *)
(* outside the lock, and never two (CUserToken.cs:42-88).                   *)
THEOREM SendTurnHolds == Spec => []SendTurn
<1>1. IInv => SendTurn
  BY DEF IInv, Turn
<1> QED
  BY <1>1, IInvAlways, PTL
=============================================================================
