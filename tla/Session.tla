------------------------------ MODULE Session ------------------------------
(***************************************************************************)
(* One ServerCore Session: connect or accept, send, receive, disconnect,   *)
(* run by worker threads that take its completions from the IocpCore,      *)
(* while any thread may Send to it or Disconnect it; with the Service that *)
(* lists it, and on a server the Listener's event that accepts it and the  *)
(* ClientSessionManager.                                                   *)
(*                                                                         *)
(* A thread's calls are a stack of labels, the innermost first; each label *)
(* is the code from one access to shared state to the next.  The events    *)
(* (connect, disconnect, recv, send, and the listener's accept) are        *)
(* reused, so that each may be with the kernel once at a time.  What the   *)
(* kernel answers is left open: a call is pending or fails with a reset or *)
(* another error, and a completion carries data or 0 bytes; on a socket    *)
(* whose connect was refused every call fails.                             *)
(***************************************************************************)
EXTENDS Naturals, Sequences, FiniteSets

CONSTANTS Threads,   \* the worker threads
          Messages,  \* send buffers, each of them sent at most once
          NoThread   \* the session's lock is free

ASSUME ThreadsFinite == IsFiniteSet(Threads)
ASSUME MessagesFinite == IsFiniteSet(Messages)
ASSUME NoThreadIsNone == NoThread \notin Threads

VARIABLES
  role,            \* _type of the service: "client" or "server"
  connected,       \* _connected
  inService,       \* the session is in Service::_sessions
  managed,         \* the session is in ClientSessionManager::_sessions
  sendQueue,       \* _sendQueue
  sendRegistered,  \* _sendRegistered
  sendBuffers,     \* _sendEvent.sendBuffers
  lock,            \* who holds the session's WRITE_LOCK across steps
  pending,         \* the events that are with the kernel
  owned,           \* the session's events whose owner holds a reference
  stack,           \* per thread: its calls on this session
  met,             \* history: "connected", "disconnected", "released", ...
  pushed,          \* history: the messages in the order of _sendQueue.push
  wire             \* history: the messages in the order of WSASend

sendState == <<sendQueue, sendRegistered, sendBuffers>>
service   == <<role, inService, managed>>
io        == <<pending, owned>>
vars == <<connected, service, sendState, lock, io, stack, met, pushed, wire>>

Events == {"connect", "accept", "disconnect", "recv", "send"}

Init == /\ role           \in {"client", "server"}
        /\ connected      = FALSE
        /\ inService      = FALSE
        /\ managed        = FALSE
        /\ sendQueue      = <<>>
        /\ sendRegistered = FALSE
        /\ sendBuffers    = <<>>
        /\ lock           = NoThread
        /\ pending        = {}
        /\ owned          = {}
        /\ stack          = [t \in Threads |-> <<>>]
        /\ met            = {}
        /\ pushed         = <<>>
        /\ wire           = <<>>

InCall(t, labels) == \E i \in 1..Len(stack[t]) : stack[t][i] \in labels

At(t, label) == stack[t] # <<>> /\ Head(stack[t]) = label

Rest(t) == Tail(stack[t])

Idle(t) == stack[t] = <<>>

\* t goes on with these labels and then with what it was called from.
Then(t, labels, rest) == stack' = [stack EXCEPT ![t] = labels \o rest]

\* Mutant: Disconnect as load and store, so that every caller goes on.
DisconnectAlways(t, rest) ==
  /\ connected' = FALSE
  /\ Then(t, <<"disconnect">>, rest)

\* Mutant: the test on what exchange returned is the wrong way round.
DisconnectInverted(t, rest) ==
  /\ connected' = FALSE
  /\ Then(t, IF connected THEN <<>> ELSE <<"disconnect">>, rest)

\* Session::Disconnect, up to RegisterDisconnect: _connected.exchange(false)
Disconnect(t, rest) ==
  /\ connected' = FALSE
  /\ Then(t, IF connected THEN <<"disconnect">> ELSE <<>>, rest)

Usable == "refused" \notin met  \* the socket has a connection, or had one

\* HandleError: Disconnect on a reset, nothing but a log line otherwise
HandleError(t, error, rest) ==
  IF error = "reset"
    THEN Disconnect(t, rest) /\ UNCHANGED met
    ELSE Then(t, <<>>, rest) /\ met' = met \cup {"ignored"} /\ UNCHANGED connected

-----------------------------------------------------------------------------
(* Send *)

\* Content code that has the session: a handler or callback of the session
\* (the server's OnConnected only adds it to the manager), or anything that
\* found it in the service (Broadcast, jobs of a room).
InContent(t) == \/ At(t, "onConnected") /\ role = "client"
                \/ At(t, "onRecv") \/ At(t, "sendNext")
                \/ Idle(t) /\ "added" \in met

\* history: somebody used the session before OnConnected had returned
Notice(t) ==
  met' = IF Idle(t) /\ \E u \in Threads : InCall(u, {"addSession", "onConnected"})
           THEN met \cup {"early"} ELSE met

\* Session::Send, up to the lock
BeginSend(t) ==
  /\ InContent(t)
  /\ Len(pushed) + Cardinality({u \in Threads : At(u, "push")}) < Cardinality(Messages)
  /\ connected
  /\ Then(t, <<"push">>, stack[t])
  /\ Notice(t)
  /\ UNCHANGED <<connected, service, sendState, lock, io, pushed, wire>>

\* Mutant: the sender goes on without looking at what exchange returned.
PushAlwaysRegisters(t, m) ==
  /\ At(t, "push")
  /\ lock = NoThread
  /\ sendQueue' = Append(sendQueue, m)
  /\ pushed' = Append(pushed, m)
  /\ sendRegistered' = TRUE
  /\ Then(t, <<"registerSend">>, Rest(t))
  /\ UNCHANGED <<connected, service, sendBuffers, lock, io, met, wire>>

\* under the lock: _sendQueue.push, _sendRegistered.exchange(true)
PushMessage(t, m) ==
  /\ At(t, "push")
  /\ lock = NoThread
  /\ sendQueue' = Append(sendQueue, m)
  /\ pushed' = Append(pushed, m)
  /\ sendRegistered' = TRUE
  /\ Then(t, IF sendRegistered THEN <<>> ELSE <<"registerSend">>, Rest(t))
  /\ UNCHANGED <<connected, service, sendBuffers, lock, io, met, wire>>

\* RegisterSend: IsConnected, then the event's owner (ADD_REF), then under the
\* lock the queue moves to the event
RegisterSend(t) ==
  /\ At(t, "registerSend")
  /\ IF connected
       THEN Then(t, <<"drain">>, Rest(t)) /\ owned' = owned \cup {"send"}
       ELSE Then(t, <<>>, Rest(t)) /\ UNCHANGED owned
  /\ UNCHANGED <<connected, service, sendState, lock, pending, met, pushed, wire>>

\* Mutant: the last message pushed is the first one sent.
DrainBackwards(t) ==
  /\ At(t, "drain")
  /\ lock \in {NoThread, t}
  /\ sendBuffers' = sendBuffers \o [i \in 1..Len(sendQueue) |->
                                      sendQueue[Len(sendQueue) + 1 - i]]
  /\ sendQueue' = <<>>
  /\ Then(t, <<"wsaSend">>, Rest(t))
  /\ UNCHANGED <<connected, service, sendRegistered, lock, io, met, pushed, wire>>

Drain(t) ==
  /\ At(t, "drain")
  /\ lock \in {NoThread, t}
  /\ sendBuffers' = sendBuffers \o sendQueue
  /\ sendQueue' = <<>>
  /\ Then(t, <<"wsaSend">>, Rest(t))
  /\ UNCHANGED <<connected, service, sendRegistered, lock, io, met, pushed, wire>>

WsaSend(t) ==
  /\ At(t, "wsaSend")
  /\ Usable
  /\ pending' = pending \cup {"send"}
  /\ wire' = wire \o sendBuffers
  /\ Then(t, <<>>, Rest(t))
  /\ UNCHANGED <<connected, service, sendState, lock, owned, met, pushed>>

WsaSendFails(t, error) ==
  /\ At(t, "wsaSend")
  /\ error = "reset" => Usable
  /\ HandleError(t, error, <<"sendFailed">> \o Rest(t))
  /\ UNCHANGED <<service, sendState, lock, io, pushed, wire>>

\* what was in the event is dropped; the queue is not looked at again
SendFailed(t) ==
  /\ At(t, "sendFailed")
  /\ owned' = owned \ {"send"}
  /\ sendBuffers' = <<>>
  /\ sendRegistered' = FALSE
  /\ Then(t, <<>>, Rest(t))
  /\ UNCHANGED <<connected, service, sendQueue, lock, pending, met, pushed, wire>>

-----------------------------------------------------------------------------
(* The completions, as IocpCore::Dispatch hands them to an idle worker *)

\* The worker holds a reference of its own while it dispatches; the handler
\* begins with owner = nullptr (RELEASE_REF).  An error completion, which
\* IocpCore dispatches like any other, carries 0 bytes.
Completes(t, event) ==
  /\ Idle(t) /\ event \in pending
  /\ pending' = pending \ {event}
  /\ owned' = owned \ {event}

\* what Session::ProcessConnect calls
Welcome == <<"addSession", "onConnected", "registerRecv">>

\* Session::ProcessConnect, of ConnectEx, whether or not it was refused
ProcessConnect(t, result) ==
  /\ Completes(t, "connect")
  /\ connected' = TRUE
  /\ met' = met \cup result
  /\ Then(t, Welcome, <<>>)
  /\ UNCHANGED <<service, sendState, lock, pushed, wire>>

\* Listener::ProcessAccept of this session's accept; it fails when the peer
\* has gone already.  The next RegisterAccept is for another session.
ProcessAccept(t, outcome) ==
  /\ Completes(t, "accept")
  /\ "accepted" \notin met
  /\ met' = met \cup {"accepted"}
  /\ connected' = (outcome = "accepted")
  /\ Then(t, (IF outcome = "accepted" THEN Welcome ELSE <<>>) \o <<"registerAccept">>, <<>>)
  /\ UNCHANGED <<service, sendState, lock, pushed, wire>>

AddSession(t) ==
  /\ At(t, "addSession")
  /\ inService' = TRUE
  /\ met' = met \cup {"added"}
  /\ Then(t, <<>>, Rest(t))
  /\ UNCHANGED <<role, managed, connected, sendState, lock, io, pushed, wire>>

\* ClientSession::OnConnected
AddToManager(t) ==
  /\ At(t, "onConnected")
  /\ role = "server"
  /\ managed' = TRUE
  /\ Then(t, <<>>, Rest(t))
  /\ UNCHANGED <<role, inService, connected, sendState, lock, io, met, pushed, wire>>

\* ProcessSend up to OnSend, which is content code that runs at "sendNext"
ProcessSend(t, numOfBytes) ==
  /\ Completes(t, "send")
  /\ sendBuffers' = <<>>
  /\ IF numOfBytes = 0 THEN Disconnect(t, <<>>)
                       ELSE Then(t, <<"sendNext">>, <<>>) /\ UNCHANGED connected
  /\ UNCHANGED <<service, sendQueue, sendRegistered, lock, met, pushed, wire>>

\* Mutant: the turn is given up without looking at the queue.
SendNextNever(t) ==
  /\ At(t, "sendNext")
  /\ lock = NoThread
  /\ sendRegistered' = FALSE
  /\ Then(t, <<>>, Rest(t))
  /\ UNCHANGED <<connected, service, sendQueue, sendBuffers, lock, io, met,
                 pushed, wire>>

\* the end of ProcessSend: with the lock, give the turn up or take the next one
SendNext(t) ==
  /\ At(t, "sendNext")
  /\ lock = NoThread
  /\ IF sendQueue = <<>>
       THEN /\ sendRegistered' = FALSE
            /\ Then(t, <<>>, Rest(t))
            /\ UNCHANGED lock
       ELSE /\ lock' = t
            /\ Then(t, <<"registerSend", "unlock">>, Rest(t))
            /\ UNCHANGED sendRegistered
  /\ UNCHANGED <<connected, service, sendQueue, sendBuffers, io, met, pushed, wire>>

Unlock(t) ==
  /\ At(t, "unlock")
  /\ lock' = NoThread
  /\ Then(t, <<>>, Rest(t))
  /\ UNCHANGED <<connected, service, sendState, io, met, pushed, wire>>

\* Mutant: the next receive is registered before and after OnRecv.
ProcessRecvEarly(t, numOfBytes) ==
  /\ Completes(t, "recv")
  /\ IF numOfBytes = 0
       THEN Disconnect(t, <<>>)
       ELSE Then(t, <<"registerRecv", "onRecv", "registerRecv">>, <<>>) /\ UNCHANGED connected
  /\ UNCHANGED <<service, sendState, lock, met, pushed, wire>>

ProcessRecv(t, numOfBytes) ==
  /\ Completes(t, "recv")
  /\ IF numOfBytes = 0
       THEN Disconnect(t, <<>>)
       ELSE Then(t, <<"onRecv", "registerRecv">>, <<>>) /\ UNCHANGED connected
  /\ UNCHANGED <<service, sendState, lock, met, pushed, wire>>

\* ProcessDisconnect calls OnDisconnected (on a server Remove of the manager),
\* then Service::ReleaseSession
ProcessDisconnect(t) ==
  /\ Completes(t, "disconnect")
  /\ managed' = FALSE
  /\ Then(t, <<"release">>, <<>>)
  /\ UNCHANGED <<role, inService, connected, sendState, lock, met, pushed, wire>>

\* ASSERT_CRASH(_sessions.erase(session) != 0)
ReleaseSession(t) ==
  /\ At(t, "release")
  /\ inService' = FALSE
  /\ met' = met \cup (IF inService THEN {"released"} ELSE {"crashed"})
  /\ Then(t, <<>>, Rest(t))
  /\ UNCHANGED <<role, managed, connected, sendState, lock, io, pushed, wire>>

-----------------------------------------------------------------------------
(* Content code returns or disconnects; receiving and disconnecting *)

ReturnFromContent(t) ==
  /\ (At(t, "onConnected") /\ role = "client") \/ At(t, "onRecv")
  /\ Then(t, <<>>, Rest(t))
  /\ UNCHANGED <<connected, service, sendState, lock, io, met, pushed, wire>>

\* OnWrite, OnRecv or OnRead report more than the buffer holds
RecvOverflow(t) ==
  /\ At(t, "onRecv")
  /\ Disconnect(t, Tail(Rest(t)))
  /\ UNCHANGED <<service, sendState, lock, io, met, pushed, wire>>

DisconnectFromContent(t) ==
  /\ InContent(t)
  /\ Disconnect(t, stack[t])
  /\ Notice(t)
  /\ UNCHANGED <<service, sendState, lock, io, pushed, wire>>

\* DisconnectEx; nobody looks at the false that RegisterDisconnect may return
RegisterDisconnect(t) ==
  /\ At(t, "disconnect")
  /\ \/ /\ Usable
        /\ pending' = pending \cup {"disconnect"}
        /\ owned' = owned \cup {"disconnect"}
        /\ UNCHANGED met
     \/ met' = met \cup {"notDisconnected"} /\ UNCHANGED io
  /\ Then(t, <<>>, Rest(t))
  /\ UNCHANGED <<connected, service, sendState, lock, pushed, wire>>

RegisterRecv(t) ==
  /\ At(t, "registerRecv")
  /\ IF connected
       THEN Then(t, <<"wsaRecv">>, Rest(t)) /\ owned' = owned \cup {"recv"}
       ELSE Then(t, <<>>, Rest(t)) /\ UNCHANGED owned
  /\ UNCHANGED <<connected, service, sendState, lock, pending, met, pushed, wire>>

WsaRecv(t) ==
  /\ At(t, "wsaRecv")
  /\ Usable
  /\ pending' = pending \cup {"recv"}
  /\ Then(t, <<>>, Rest(t))
  /\ UNCHANGED <<connected, service, sendState, lock, owned, met, pushed, wire>>

WsaRecvFails(t, error) ==
  /\ At(t, "wsaRecv")
  /\ error = "reset" => Usable
  /\ HandleError(t, error, <<"recvFailed">> \o Rest(t))
  /\ UNCHANGED <<service, sendState, lock, io, pushed, wire>>

\* Mutant: the event keeps its reference after an error.
RecvFailedKeeps(t) ==
  /\ At(t, "recvFailed")
  /\ Then(t, <<>>, Rest(t))
  /\ UNCHANGED <<connected, service, sendState, lock, io, met, pushed, wire>>

RecvFailed(t) ==
  /\ At(t, "recvFailed")
  /\ owned' = owned \ {"recv"}
  /\ Then(t, <<>>, Rest(t))
  /\ UNCHANGED <<connected, service, sendState, lock, pending, met, pushed, wire>>

-----------------------------------------------------------------------------
(* Service::Start, which the main thread calls before or after the workers  *)
(* run *)

\* Start, up to its first call of this session
Start(t, call) ==
  /\ Idle(t)
  /\ "started" \notin met
  /\ met' = met \cup {"started"}
  /\ Then(t, <<call>>, <<>>)
  /\ UNCHANGED <<connected, service, sendState, lock, io, pushed, wire>>

\* ClientService: CreateSession and Connect
StartClient(t) == role = "client" /\ Start(t, "registerConnect")

\* ServerService: StartAccept; where it fails, the server does not start
StartAccept(t) == role = "server" /\ Start(t, "registerAccept")

\* an option, the bind or ConnectEx may fail, and the session is given up
RegisterConnect(t) ==
  /\ At(t, "registerConnect")
  /\ \/ pending' = pending \cup {"connect"} /\ owned' = owned \cup {"connect"}
     \/ UNCHANGED io
  /\ Then(t, <<>>, Rest(t))
  /\ UNCHANGED <<connected, service, sendState, lock, met, pushed, wire>>

\* CreateSession and AcceptEx.  While AcceptEx fails at once the code calls
\* itself: nothing changes but the depth of the calls.
RegisterAccept(t) ==
  /\ At(t, "registerAccept")
  /\ pending' = pending \cup {"accept"}
  /\ Then(t, <<>>, Rest(t))
  /\ UNCHANGED <<connected, service, sendState, lock, owned, met, pushed, wire>>

-----------------------------------------------------------------------------
Errors == {"reset", "other"}

\* Messages are alike: they are named in the order in which they are pushed.
NextMessage == CHOOSE m \in Messages : \A i \in 1..Len(pushed) : pushed[i] # m

SendStep(t) == \/ PushMessage(t, NextMessage)
               \/ RegisterSend(t) \/ Drain(t) \/ WsaSend(t)
               \/ \E error \in Errors : WsaSendFails(t, error)
               \/ SendFailed(t) \/ SendNext(t) \/ Unlock(t)
OtherStep(t) == \/ AddSession(t) \/ AddToManager(t) \/ ReleaseSession(t)
                \/ RegisterConnect(t) \/ RegisterAccept(t)
                \/ ReturnFromContent(t) \/ RecvOverflow(t)
                \/ RegisterDisconnect(t) \/ RegisterRecv(t) \/ WsaRecv(t)
                \/ \E error \in Errors : WsaRecvFails(t, error)
                \/ RecvFailed(t)
Completion(t) == \/ \E result \in {{}, {"refused"}} : ProcessConnect(t, result)
                 \/ \E outcome \in {"accepted", "gone"} : ProcessAccept(t, outcome)
                 \/ ProcessDisconnect(t)
                 \/ \E n \in {0, 1} : ProcessSend(t, n)
                 \/ \E n \in {0, 1} : ProcessRecv(t, n)

Next == \E t \in Threads : \/ StartClient(t) \/ StartAccept(t)
                           \/ SendStep(t) \/ OtherStep(t) \/ Completion(t)
                           \/ BeginSend(t) \/ DisconnectFromContent(t)

Spec == Init /\ [][Next]_vars

(* The threads run on, content code returns, and the kernel completes a     *)
(* send or a disconnect it has accepted, to some idle worker.  The peer     *)
(* need never send anything.                                                *)
Fairness ==
  /\ \A t \in Threads : WF_vars(SendStep(t)) /\ WF_vars(OtherStep(t))
  /\ WF_vars(\E t \in Threads : \E n \in {0, 1} : ProcessSend(t, n))
  /\ WF_vars(\E t \in Threads : ProcessDisconnect(t))

FairSpec == Spec /\ Fairness

-----------------------------------------------------------------------------
(* Properties *)

Labels == {"push", "registerSend", "drain", "wsaSend", "sendFailed", "sendNext",
           "unlock", "addSession", "onConnected", "onRecv", "registerRecv",
           "wsaRecv", "recvFailed", "disconnect", "release",
           "registerConnect", "registerAccept"}

(* The variables have their types, and no list grows longer than there are  *)
(* messages: none goes through _sendQueue, _sendEvent or WSASend twice      *)
(* (Session.cpp:200-210 and 292).                                           *)
TypeOK ==
  /\ role \in {"client", "server"}
  /\ {connected, inService, managed, sendRegistered} \subseteq BOOLEAN
  /\ \A q \in {sendQueue, sendBuffers, pushed, wire} :
       q \in Seq(Messages) /\ Len(q) <= Cardinality(Messages)
  /\ lock \in Threads \cup {NoThread}
  /\ pending \subseteq Events /\ owned \subseteq Events
  /\ stack \in [Threads -> Seq(Labels)]
  /\ met \subseteq {"started", "refused", "accepted", "added", "early", "ignored",
                    "notDisconnected", "released", "crashed"}

SendLabels == {"registerSend", "drain", "wsaSend", "sendFailed", "sendNext"}

RecvLabels == {"addSession", "onConnected", "onRecv", "registerRecv", "wsaRecv",
               "recvFailed"}

Turns(event, labels) ==
  Cardinality({t \in Threads : InCall(t, labels)})
    + (IF event \in pending THEN 1 ELSE 0)

(* The one _sendEvent is in one hand: with the kernel, or with one thread   *)
(* between RegisterSend and ProcessSend; while _sendRegistered is set on a  *)
(* live connection, somebody has it (Session.cpp:33-47 and 302-310); and no *)
(* message waits in _sendQueue with nobody to send it, unless HandleError   *)
(* ignored an error: then RegisterSend clears _sendRegistered behind the    *)
(* back of a concurrent Send (Session.cpp:235).                             *)
SendTurn ==
  /\ Turns("send", SendLabels) <= 1
  /\ connected /\ sendRegistered => Turns("send", SendLabels) = 1
  /\ connected /\ sendQueue # <<>> /\ "ignored" \notin met => sendRegistered

(* The one _recvEvent too: OnRecv never runs twice at a time, and a live    *)
(* connection is always being read, unless HandleError ignored an error     *)
(* (Session.cpp:158-184, 260-287 and 313-326).                              *)
RecvTurn ==
  /\ Turns("recv", RecvLabels) <= 1
  /\ connected /\ "ignored" \notin met => Turns("recv", RecvLabels) = 1

(* Messages reach WSASend in the order of _sendQueue.push, none skipped and *)
(* none twice, as long as HandleError ignored no error.                     *)
Drained == IF \E t \in Threads : At(t, "wsaSend") THEN sendBuffers ELSE <<>>

SentInOrder ==
  connected /\ "ignored" \notin met => wire \o Drained \o sendQueue = pushed

(* An event that is with the kernel keeps the session alive through its     *)
(* owner, and one that is not, and in no thread's Register call, does not:  *)
(* the session is freed neither under the kernel nor never (the ADD_REF and *)
(* RELEASE_REF comments of Session.cpp).  The listener's event is never     *)
(* lost either: once started, a server has it with the kernel or in a       *)
(* thread that will give it back, whatever became of the session that was   *)
(* accepted (Listener.cpp:94-143).                                          *)
Registering(event) ==
  \E t \in Threads : InCall(t, CASE event = "recv" -> {"wsaRecv", "recvFailed"}
                                [] event = "send" -> {"drain", "wsaSend", "sendFailed"}
                                [] OTHER          -> {})

EventsOwned ==
  /\ \A event \in Events \ {"accept"} :
       event \in owned <=> event \in pending \/ Registering(event)
  /\ role = "server" /\ "started" \in met => Turns("accept", {"registerAccept"}) = 1

(* What the kernel was given is what the event holds until ProcessSend: the *)
(* buffers that WSASend reads are neither freed nor added to.               *)
KernelBuffersKept ==
  [][ "send" \in pending /\ "send" \in pending' => sendBuffers' = sendBuffers ]_vars

(* ReleaseSession always finds its session (ASSERT_CRASH in Service.cpp:62, *)
(* which takes Disconnect to be acted on once, and AddSession to come       *)
(* before anybody can disconnect), and a session that left the service has  *)
(* left the ClientSessionManager too, for good: OnConnected has added it    *)
(* before OnDisconnected removes it.  The exception (early) is a session    *)
(* that somebody found in the service and used before OnConnected returned  *)
(* (Session.cpp:245-249).                                                   *)
ReleaseFindsSession ==
  /\ "crashed" \notin met
  /\ "released" \in met /\ "early" \notin met => ~managed

\* How far the session is; the life that is promised has no crash.
Phase == IF "crashed" \in met THEN "crashed"
         ELSE IF "released" \in met THEN "released"
         ELSE IF connected THEN "open"
         ELSE IF inService THEN "closed" ELSE "new"

Life == INSTANCE SessionLife WITH phase <- Phase, listed <- inService

(* Whoever calls Disconnect and whenever, in threads that read, send, accept*)
(* or broadcast, the session has one life: it is never connected again,     *)
(* never disconnected before AddSession, and it leaves the service once and *)
(* only after it was disconnected (Session.cpp:54-63, 236-258, Service.cpp: *)
(* 49-63).                                                                  *)
ImplementsLife == Life!LifeSpec

(* A session that is no longer connected leaves the service, unless         *)
(* DisconnectEx failed, which nobody looks at (Session.cpp:144-152).        *)
DisconnectedIsReleased ==
  ("added" \in met /\ ~connected) ~> ("released" \in met \/ "notDisconnected" \in met)

(* A message put in the queue is sent, or the connection ends, or an error  *)
(* was ignored.                                                             *)
OnTheWire(m) == \E i \in 1..Len(wire) : wire[i] = m

MessageIsSent ==
  \A m \in Messages :
    (\E i \in 1..Len(pushed) : pushed[i] = m) ~>
       (OnTheWire(m) \/ ~connected \/ "ignored" \in met)
=============================================================================
