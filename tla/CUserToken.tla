----------------------------- MODULE CUserToken -----------------------------
(***************************************************************************)
(* A connection of the C# client: the packets of CPacketBufferManager's    *)
(* pool, CUserToken's queue of packets to send, of which one at a time is  *)
(* with the socket, and the receiving thread, which puts the server's      *)
(* packets together (TcpMsgResolver), takes a packet of the pool to read   *)
(* each, and empties the queue when the server is gone.                    *)
(*                                                                         *)
(* What holds lock_sendingQueue is one step from one call to the next; the *)
(* pool tests its count outside its lock, and OnRemoved does not lock.     *)
(***************************************************************************)
EXTENDS TcpMsgResolver, FiniteSets

CONSTANTS Threads,      \* threads of the content code, which send
          Reader,       \* the thread that is in ProcessRecv
          Completion,   \* a thread that comes with the completion of a send
          Nobody,
          PoolCapacity, \* _poolCapacity
          MaxCreated,   \* bound: CPackets that are ever created
          MaxMessages   \* bound: messages that are ever sent

ASSUME OtherThreads == /\ {Reader, Completion, Nobody} \cap Threads = {}
                       /\ Cardinality({Reader, Completion, Nobody}) = 3
ASSUME PoolCounts   == /\ PoolCapacity \in Nat \ {0}
                       /\ MaxCreated \in Nat /\ MaxMessages \in Nat
                       /\ PoolCapacity <= MaxCreated

VARIABLES
  created,       \* the CPackets are 1..created
  cPacketPool,   \* _cPacketPool, its top last
  content,       \* the message in each CPacket's buffer; 0 is none, or in the pool
  session,       \* _session is set
  step,          \* where a thread is
  purpose,       \* what a thread pops a packet for
  message,       \* the message a thread sends
  msg,           \* the packet a thread has made, or is reading; 0 is none
  copyPacket,    \* the packet Send has made of it; 0 is none
  sendingQueue,  \* sendingQueue
  owner,         \* who is inside lock_sendingQueue
  section,       \* what the owner does next
  inFlight,      \* the socket has not completed the send it has accepted
  asked,         \* messages content code has begun to send
  queued,        \* history: the messages put in the queue and not removed
  wire,          \* history: the messages given to SendAsync
  cut,           \* a send has failed or was cut short
  removed,       \* OnRemoved was called
  stopped        \* the exception that has ended the process, or a data race

poolVars == <<created, cPacketPool, content>>
callVars == <<session, step, purpose, message, msg, copyPacket, asked>>
queueVars == <<sendingQueue, owner, section, inFlight, queued, wire, cut>>
endVars == <<removed, stopped>>
vars == <<resolverVars, poolVars, callVars, queueVars, endVars>>

Callers == Threads \cup {Reader}

Init ==
  /\ ResolverInit
  /\ created = PoolCapacity
  /\ cPacketPool = [i \in 1..PoolCapacity |-> i]
  /\ content = [p \in 1..MaxCreated |-> 0]
  /\ session = FALSE
  /\ step = [t \in Callers |-> "idle"]
  /\ purpose = [t \in Callers |-> "none"]
  /\ message = [t \in Callers |-> 0]
  /\ msg = [t \in Callers |-> 0]
  /\ copyPacket = [t \in Callers |-> 0]
  /\ sendingQueue = <<>> /\ owner = Nobody /\ section = "none" /\ inFlight = FALSE
  /\ asked = 0 /\ queued = <<>> /\ wire = <<>>
  /\ cut = FALSE /\ removed = FALSE /\ stopped = "no"

Goes(t, s) == step' = [step EXCEPT ![t] = s]

\* An exception nobody catches ends the process; of what else the step does
\* nothing is seen.
Throws(exception) ==
  /\ stopped' = exception
  /\ UNCHANGED <<resolverVars, poolVars, callVars, queueVars, removed>>

-----------------------------------------------------------------------------
(* The pool *)

\* callback_OnConnected: content code makes a Session and sets it.
SetSession ==
  /\ ~session
  /\ session' = TRUE
  /\ UNCHANGED <<resolverVars, poolVars, step, purpose, message, msg, copyPacket, asked,
                 queueVars, endVars>>

\* Content code sends its next message: PopForCreate begins.
BeginMessage(t) ==
  /\ t \in Threads /\ session /\ step[t] = "idle" /\ asked < MaxMessages
  /\ asked' = asked + 1
  /\ message' = [message EXCEPT ![t] = asked + 1]
  /\ purpose' = [purpose EXCEPT ![t] = "create"]
  /\ Goes(t, "test")
  /\ UNCHANGED <<resolverVars, poolVars, session, msg, copyPacket, queueVars, endVars>>

\* Pop: _cPacketPool.Count, read outside the lock
TestCount(t) ==
  /\ step[t] = "test"
  /\ Goes(t, IF cPacketPool = <<>> THEN "allocate" ELSE "take")
  /\ UNCHANGED <<resolverVars, poolVars, session, purpose, message, msg, copyPacket, asked,
                 queueVars, endVars>>

Allocate(t) ==
  /\ step[t] = "allocate" /\ created + PoolCapacity <= MaxCreated
  /\ created' = created + PoolCapacity
  /\ cPacketPool' = cPacketPool \o [i \in 1..PoolCapacity |-> created + i]
  /\ Goes(t, "take")
  /\ UNCHANGED <<resolverVars, content, session, purpose, message, msg, copyPacket, asked,
                 queueVars, endVars>>

Top == cPacketPool[Len(cPacketPool)]

\* Stack.Pop under the lock
TakeTop(t, why) ==
  /\ step[t] = "take" /\ purpose[t] = why /\ cPacketPool # <<>>
  /\ cPacketPool' = SubSeq(cPacketPool, 1, Len(cPacketPool) - 1)

\* Stack.Pop of an empty stack
TakeNothing(t) ==
  /\ step[t] = "take" /\ cPacketPool = <<>>
  /\ Throws("PoolEmpty")

\* The packet is content code's, which writes the message into it and calls
\* Send, whose PopForSend begins.
PopForCreate(t) ==
  /\ TakeTop(t, "create")
  /\ msg' = [msg EXCEPT ![t] = Top]
  /\ content' = [content EXCEPT ![Top] = message[t]]
  /\ purpose' = [purpose EXCEPT ![t] = "send"]
  /\ Goes(t, "test")
  /\ UNCHANGED <<resolverVars, created, session, message, copyPacket, asked, queueVars, endVars>>

PopForSend(t) ==
  /\ TakeTop(t, "send")
  /\ copyPacket' = [copyPacket EXCEPT ![t] = Top]
  /\ content' = [content EXCEPT ![Top] = content[msg[t]]]
  /\ purpose' = [purpose EXCEPT ![t] = "none"]
  /\ Goes(t, "put")
  /\ UNCHANGED <<resolverVars, created, session, message, msg, asked, queueVars, endVars>>

\* The received packet is copied; its content is no message of the client.
PopForRead ==
  /\ TakeTop(Reader, "read")
  /\ msg' = [msg EXCEPT ![Reader] = Top]
  /\ content' = [content EXCEPT ![Top] = 0]
  /\ purpose' = [purpose EXCEPT ![Reader] = "none"]
  /\ Goes(Reader, "back")
  /\ UNCHANGED <<resolverVars, created, session, message, copyPacket, asked, queueVars, endVars>>

\* PushBack(msg): at the end of a Session's Send and OnMessage
PushBack(t) ==
  /\ step[t] = "back" /\ owner # t
  /\ cPacketPool' = Append(cPacketPool, msg[t])
  /\ content' = [content EXCEPT ![msg[t]] = 0]
  /\ msg' = [msg EXCEPT ![t] = 0]
  /\ copyPacket' = [copyPacket EXCEPT ![t] = 0]
  /\ message' = [message EXCEPT ![t] = 0]
  /\ Goes(t, "idle")
  /\ UNCHANGED <<resolverVars, created, session, purpose, asked, queueVars, endVars>>

-----------------------------------------------------------------------------
(* The queue *)

\* CUserToken::Send, once it has its copy
Put(t) ==
  /\ step[t] = "put" /\ owner = Nobody
  /\ sendingQueue' = Append(sendingQueue, copyPacket[t])
  /\ queued' = Append(queued, message[t])
  /\ owner' = IF sendingQueue = <<>> THEN t ELSE Nobody
  /\ section' = IF sendingQueue = <<>> THEN "start" ELSE "none"
  /\ Goes(t, "back")
  /\ UNCHANGED <<resolverVars, poolVars, session, purpose, message, msg, copyPacket, asked,
                 inFlight, wire, cut, endVars>>

\* Mutant: StartSend takes the packet that was put in last.
PeekedLast == sendingQueue[Len(sendingQueue)]

\* The packet StartSend copies to the socket's buffer.
Peeked == Head(sendingQueue)

\* The socket keeps the send and completes it later.
StartSendPending ==
  /\ section = "start" /\ ~inFlight
  /\ wire' = Append(wire, content[Peeked])
  /\ inFlight' = TRUE
  /\ owner' = Nobody
  /\ section' = "none"
  /\ UNCHANGED <<resolverVars, poolVars, callVars, sendingQueue, queued, cut, endVars>>

\* The send is complete already, and ProcessSend follows inside the lock.
StartSendAtOnce ==
  /\ section = "start" /\ ~inFlight
  /\ wire' = Append(wire, content[Peeked])
  /\ section' = "sent"
  /\ UNCHANGED <<resolverVars, poolVars, callVars, sendingQueue, owner, inFlight,
                 queued, cut, endVars>>

\* sendArgs are still in use: SetBuffer and SendAsync refuse them.
StartSendRefused ==
  /\ section = "start" /\ inFlight
  /\ Throws("InProgress")

\* OnSendCompleted, up to the lock of ProcessSend
SendCompleted ==
  /\ inFlight /\ owner = Nobody
  /\ inFlight' = FALSE
  /\ owner' = Completion
  /\ section' = "sent"
  /\ UNCHANGED <<resolverVars, poolVars, callVars, sendingQueue, queued, wire, cut, endVars>>

\* ProcessSend returns: an error, or fewer bytes than the packet has.
ProcessSendFails ==
  /\ section = "sent"
  /\ cut' = TRUE
  /\ owner' = Nobody
  /\ section' = "none"
  /\ UNCHANGED <<resolverVars, poolVars, callVars, sendingQueue, inFlight, queued, wire,
                 endVars>>

\* Mutant: the next packet is not started.
ProcessSendNoNext ==
  /\ section = "sent" /\ sendingQueue # <<>>
  /\ cPacketPool' = Append(cPacketPool, Head(sendingQueue))
  /\ content' = [content EXCEPT ![Head(sendingQueue)] = 0]
  /\ sendingQueue' = Tail(sendingQueue)
  /\ owner' = Nobody
  /\ section' = "none"
  /\ UNCHANGED <<resolverVars, created, callVars, inFlight, queued, wire, cut,
                 endVars>>

\* The whole packet is sent: Dequeue, PushBack and the next StartSend.
ProcessSend ==
  /\ section = "sent" /\ sendingQueue # <<>>
  /\ cPacketPool' = Append(cPacketPool, Head(sendingQueue))
  /\ content' = [content EXCEPT ![Head(sendingQueue)] = 0]
  /\ sendingQueue' = Tail(sendingQueue)
  /\ owner' = IF Len(sendingQueue) > 1 THEN owner ELSE Nobody
  /\ section' = IF Len(sendingQueue) > 1 THEN "start" ELSE "none"
  /\ UNCHANGED <<resolverVars, created, callVars, inFlight, queued, wire, cut,
                 endVars>>

\* Peek of an empty queue: OnRemoved was here first.
ProcessSendNothing ==
  /\ section = "sent" /\ sendingQueue = <<>>
  /\ Throws("QueueEmpty")

-----------------------------------------------------------------------------
(* The receiving thread *)

Reading == step[Reader] = "idle" /\ ~removed

Receive == /\ Reading /\ ReceiveAny
           /\ UNCHANGED <<poolVars, callVars, queueVars, endVars>>

Read == /\ Reading /\ (ReadLength \/ ReadSome)
        /\ UNCHANGED <<poolVars, callVars, queueVars, endVars>>

\* A whole packet: OnMessage pops one for it.
OnMessage ==
  /\ Reading /\ session /\ ReadRest
  /\ purpose' = [purpose EXCEPT ![Reader] = "read"]
  /\ Goes(Reader, "test")
  /\ UNCHANGED <<poolVars, session, message, msg, copyPacket, asked, queueVars, endVars>>

\* A whole packet before the session is set
OnMessageTooEarly ==
  /\ Reading /\ ~session /\ RestThere
  /\ Throws("NoSession")

\* A receive of 0 bytes, or a failed one: OnServerShutDown, OnRemoved.  The
\* queue is emptied without the lock; if somebody is inside, the two race.
OnRemoved ==
  /\ Reading /\ remainBytes = 0
  /\ removed' = TRUE
  /\ sendingQueue' = <<>>
  /\ queued' = wire
  /\ stopped' = IF owner = Nobody THEN "no" ELSE "raced"
  /\ UNCHANGED <<resolverVars, poolVars, callVars, owner, section, inFlight, wire, cut>>

-----------------------------------------------------------------------------
PoolNext ==
  \E t \in Callers :
    \/ BeginMessage(t) \/ TestCount(t) \/ Allocate(t) \/ TakeNothing(t)
    \/ PopForCreate(t) \/ PopForSend(t) \/ PushBack(t)

SendNext ==
  \/ \E t \in Threads : Put(t)
  \/ StartSendPending \/ StartSendAtOnce \/ StartSendRefused \/ SendCompleted
  \/ ProcessSend \/ ProcessSendFails \/ ProcessSendNothing

\* Between two callbacks the loop of OnReceiveTcp touches nothing that
\* another thread sees; it goes without interruption.
InLoop == remainBytes > 0 /\ step[Reader] = "idle"

Next ==
  /\ stopped = "no"
  /\ \/ InLoop /\ (Read \/ OnMessage \/ OnMessageTooEarly)
     \/ ~InLoop /\ (SetSession \/ PoolNext \/ SendNext \/ Receive \/ PopForRead \/ OnRemoved)

Spec == Init /\ [][Next]_vars

-----------------------------------------------------------------------------
(* Properties *)

(* The variables have their types; what TcpMsgResolver has read stays       *)
(* inside its buffer (TcpMsgResolver.cs:57).                                *)
TypeOK ==
  /\ ResolverTypeOK
  /\ created \in PoolCapacity..MaxCreated
  /\ cPacketPool \in Seq(1..created)
  /\ content \in [1..MaxCreated -> 0..MaxMessages]
  /\ session \in BOOLEAN
  /\ step \in [Callers -> {"idle", "test", "allocate", "take", "put", "back"}]
  /\ purpose \in [Callers -> {"none", "create", "send", "read"}]
  /\ message \in [Callers -> 0..MaxMessages]
  /\ msg \in [Callers -> 0..created]
  /\ copyPacket \in [Callers -> 0..created]
  /\ sendingQueue \in Seq(1..created)
  /\ owner \in Threads \cup {Completion, Nobody}
  /\ section \in {"none", "start", "sent"}
  /\ (owner = Nobody) = (section = "none")
  /\ inFlight \in BOOLEAN
  /\ asked \in 0..MaxMessages
  /\ queued \in Seq(1..MaxMessages) /\ wire \in Seq(0..MaxMessages)
  /\ cut \in BOOLEAN /\ removed \in BOOLEAN
  /\ stopped \in {"no", "NoSession", "PoolEmpty", "QueueEmpty", "InProgress", "raced"}

(* The socket is given the messages in the order in which they were put in  *)
(* the queue, each once and with its own content, although every packet     *)
(* they are in goes back to the pool and is written again                   *)
(* (CUserToken.cs:42-67, 88).                                               *)
SentInOrder ==
  /\ Len(wire) <= Len(queued)
  /\ \A i \in 1..Len(wire) : wire[i] = queued[i]

(* As long as the server is there, the queue has one send under way while   *)
(* a packet waits, and only one: whoever leaves the lock leaves the next    *)
(* packet with the socket, unless a send has failed or was cut short        *)
(* (CUserToken.cs:81-86), and SendAsync is never called too early, nor a    *)
(* completion processed that finds no packet.                               *)
SendTurn ==
  /\ stopped \in {"InProgress", "QueueEmpty"} => removed
  /\ owner = Nobody /\ sendingQueue # <<>> /\ ~cut => inFlight
=============================================================================
