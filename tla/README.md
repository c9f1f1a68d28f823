# ServerCoreModel in TLA+

Specifications, model checks and proofs for the C++ IOCP server core under
`(1)ServerCoreModel/` (ServerCore, GameServer, DummyClient) and its C# client.
Paths below are relative to that directory; comments of the source that are quoted
are translated from Korean.

## 1. The system

A process has one `ThreadManager`, which launches threads; every server thread
(and `main`) runs the same endless loop, `DoWorkerJob` (GameServer.cpp:174):

    set the deadline LEndTickCount = now + 64 ms
    IocpCore::Dispatch      one completion: a session's or the listener's handler
    DistributeReservedJobs  due timers push their jobs to their queues
    DoGlobalQueueWork       run queues from the global queue until the deadline

Handlers of a session's completions are content code. Content code that concerns
shared objects (a lobby, a room) does not lock them: it pushes a *job* to the
object's `JobQueue`. Whoever pushes to an empty queue runs it, at once if it is not
inside another queue's job, otherwise by way of `GlobalQueue`.

| component | state it keeps | operations | how it meets the others |
|---|---|---|---|
| `Lock` | `_lockFlag` (owner id, readers), `_writeCount` | WriteLock, WriteUnlock, ReadLock, ReadUnlock through guards | in nearly every class (`USE_LOCK`) |
| `DeadLockProfiler` | names, lock-order graph, search marks; a stack per thread | PushLock, PopLock, CheckCycle, Dfs | called by Lock in debug builds |
| `JobQueue`, `LockQueue` | `_jobs`, `_jobCount`, thread-local `LCurrentJobQueue` | Push (DoAsync), Execute, ClearJobs | Lobby and Room are job queues |
| `GlobalQueue`, `ThreadManager` | the list of queues; `LEndTickCount` | Push, Pop, DoGlobalQueueWork, Launch, Join | worker loop |
| `JobTimer` | a heap of jobs by time, `_distributing` | Reserve, Distribute, Clear | pushes to job queues |
| `Session` | `_connected`, `_sendQueue`, `_sendRegistered`, four reused events, `_recvBuffer` | Connect, Send, Disconnect, Register..., Process... | Service, IocpCore, content code |
| `PacketSession`, `RecvBuffer` | read and write positions | OnRecv, OnWrite, OnRead, Clean | inside ProcessRecv |
| `IocpCore`, `Listener`, `Service` | completion port; accept events; the set of sessions | Dispatch, RegisterAccept, ProcessAccept, AddSession, ReleaseSession, Broadcast | owns sessions |
| `SendBuffer` and chunks | used size, open flag; a chunk per thread; a pool | Open, Close, Pop, Push | FlatBufferWriter, Session::Send |
| `Memory`, `MemoryPool`, `ObjectPool` | free lists by size | Allocate, Release, Pop, Push | under every allocation |
| `Lobby`, `Room`, `ClientSessionManager` | who is in the lobby, in which room, connected | AcceptClient, MakeRoom, JoinRoom, BackToLobby, OnExitGame, RemoveRoom, Add, Remove | jobs; packet handlers |
| `DBConnectionPool` etc. | a locked list of ODBC connections | Connect, Pop, Push, Clear | start-up demonstration |
| C# `CUserToken`, `TcpMsgResolver`, `CPacketBufferManager`, `CConnector` | sending queue; reassembly position; packet pool | Send, ProcessSend, OnReceiveTcp, Pop, Push, Connect | a client of the server |

What is hard about it: several threads between any two accesses to `_jobCount`,
`_jobs`, `_lockFlag`, `_sendRegistered` and `_sendQueue`; counters that run ahead of
the lists they count; completions, errors and disconnects that come in any order and
on any thread; the 64 ms deadline that takes a queue away in mid-run; objects that
are entered both from their own jobs and from elsewhere. PROJECT.json lists each
such hazard at its line, with the properties that cover it or the reason why none
does.

What makes each component correct:

* **Job queues**: one executor per queue, no job lost, none run twice, order kept.
* **Lock**: writers exclude each other (and readers); `_writeCount` is touched by the owner only; the unlock checks catch misuse and nothing else.
* **Session**: one send and one receive at a time; messages in order, none stranded; what the kernel reads is not touched; each event owns the session exactly while the kernel or a Register call has it; a session is released exactly once; the listener goes on accepting whatever becomes of a session.
* **DeadLockProfiler**: a cycle in the order of locks is reported.
* **RecvBuffer/PacketSession**: there is always room for the next receive; packets are cut at their ends and none is handled twice.
* **SendBuffer**: no two buffers of a chunk overlap, a chunk is pooled only when no buffer of it lives.
* **JobTimer**: a due job is pushed once, in the order of the ticks, and at last; an owner that is gone is skipped.
* **Memory**: who asks for a size gets a block of that size that nobody else has; a block goes back to the pool it came from; the pools' counters settle.
* **Database**: a connection is in one hand; a query reads and writes the variables of its own borrower only.
* **Lobby/Room**: a client is in the lobby or in one room or in neither when gone; no room in the list is empty for good; a disconnected client leaves both.
* **C# client**: messages are sent in order and the queue never stands still; packets are reassembled.

## 2. The modules

| module | models | state | actions |
|---|---|---|---|
| `Mailbox` | nothing in the code: what a JobQueue promises | waiting, running and served jobs per queue | Send, Start, Finish, Discard |
| `JobQueue` | JobQueue.cpp/.h, LockQueue.h, GlobalQueue.cpp, DoGlobalQueueWork, DoWorkerJob | see the comments at its VARIABLES, one per C++ variable | one per access to shared state |
| `MCJobQueue` | TLC instances of it | | |
| `JobQueueProofs` | theorems about it | | |
| `ReadWriteLock` | nothing in the code: what a Lock promises a class that takes guards of one kind | each thread's guards | TakeWriteGuard, TakeReadGuard, EndGuard |
| `Lock`, `MCLock`, `LockProofs` | Lock.cpp, the guards of Lock.h | `flag`, `writeCount`, a pc, the local `expected` and a stack of guards per thread | one per access to `_lockFlag` or `_writeCount` |
| `SessionLife` | nothing in the code: what a Session and its Service promise | how far the session is, whether it is listed | Open, List, Close, Release |
| `Session`, `MCSession`, `SessionProofs` | Session.cpp, Dispatch of IocpCore.cpp, Listener.cpp, Service.cpp, OnConnected and OnDisconnected of ClientSession.cpp | one session of a client or a server; a stack of labels per thread; what is with the kernel, which events own the session; where it is listed | one per access to shared state, completion or outcome of a Winsock call |
| `JobTimer` | JobTimer.cpp/.h, DoTimer of JobQueue.h, DistributeReservedJobs | `items`, `distributing`, the clock, the ticks; per thread its `now` and its local vector | BeginReserve, PutItem, ReadClock, Enter, Collect, PushNext, PushReturns, Leave, Clear, Destroy of an owner |
| `Memory` | Memory.cpp/.h, MemoryPool.cpp/.h, ObjectPool.h, StompAllocator | per pool its list and counters; per block its header, its size and who has it | AllocateLarge, PopNew, PopOld, Count..., ReleaseLarge, BeginRelease, ClearHeader, PushEntry |
| `DBConnectionPool` | DBConnectionPool.cpp, DBConnection.cpp, DBBind.h, their use in SampleForMsServerDB | the pool; per connection what is bound to its statement and whether a result set is open; per borrower its DBBind | Connect, Pop, Push, ClearPool, MakeBind, BindParam, BindCol, Execute, ExecutePlain, Fetch |
| `MCServices` | a TLC instance of these three, which share no state | `side`, which of them moves | |
| `ServicesProofs` | theorems about each of the three and about DeadLockProfiler | | |
| `RecvBuffer`, `MCRecvBuffer`, `RecvBufferProofs` | RecvBuffer.cpp/.h, PacketSession::OnRecv, ProcessRecv around it | `buffer`, `readPos`, `writePos`, the local `processLen`, the stream of the peer | Receive, HandlePacket, FinishRecv; the peer's SendPacket |
| `DeadLockProfiler`, `MCDeadLockProfiler` | DeadLockProfiler.cpp/.h, and nested write guards under it | `names`, `lockHistory`, a stack of ids and of guards per thread, who owns each lock | PushLock, WriteLock, PopLock, WriteUnlock |
| `CycleSearch` | CheckCycle and Dfs of DeadLockProfiler.cpp | no variables: the search's members are the fields of a record | |
| `Lobby`, `MCLobby`, `LobbyProofs` | Lobby.cpp, Room.cpp, ClientSessionManager.cpp, ClientPacketHandler.cpp, ClientSession.cpp | `lobby`, `listed`, `members`, `room`: the C++ members; the jobs of each queue; where each handler is | the packet handlers, the jobs of Lobby, Enter, OnExitGame, BackToLobby, Remove |
| `TcpMsgResolver` | TcpMsgResolver.cs | its members, the stream of the server, what the callback was given | OnReceiveTcp, ReadLength, ReadSome, ReadRest |
| `CUserToken` (extends TcpMsgResolver), `MCUserToken`, `CUserTokenProofs` | CUserToken.cs, CPacketBufferManager.cs, CNetworkService.cs, Pop and PushBack of CPacket.cs | the pool, the sending queue, who holds its lock, what the socket has; where each thread is | TestCount, Allocate, PopFor..., PushBack, Put, StartSend..., ProcessSend..., OnMessage, OnRemoved |
| `SendBuffer`, `MCSendBuffer`, `SendBufferProofs` | SendBuffer.cpp/.h, FlatBufferWriter.cpp/.h | the members of the manager, the chunks and the buffers; LSendBufferChunk, the writer and the place in Open per thread | BeginOpen, OpenHere, ChangeChunk, ResetAndOpen, PushGlobal, Write, Close, Release, ThreadEnd |

**JobQueue.** `Push` is `BeginPush` (fetch_add), `Enqueue` (`_jobs.Push`) and then
`ExecuteInline` or `PushGlobal`; `Execute` is `PopAll`, `StartJob`/`FinishJob` for
each job, `Settle` (fetch_sub and the decision to leave) and `GoOn` or `HandOver` (the
deadline). `ClearJobs` may be called at any moment by anybody. User code runs in the
dispatch phase of the loop and inside jobs; it may push any job to any queue, with or
without `pushOnly`. Time is one Boolean per thread, `late`, that may become TRUE at any
step and is reset where the loop renews `LEndTickCount`. A LockQueue operation is one
step because it runs under its write lock, and atomics are sequentially consistent in
the code (default memory order).

**Lock.** A step is one access to the atomic word or to `_writeCount`. `use` says
which guards the class that owns the lock takes *from outside*: "write" (as all
classes of this repository do; a read guard inside one's own write guard is allowed),
"read", or "both". The first two are the uses for which the lock can work; "both"
is the subject of `lock_read`. A guard belongs to a scope, so guards of one thread
are a stack.

**Session.** A thread's calls on the session are a stack of labels; taking a
completion starts one, and content code that runs in `OnConnected`, `OnRecv`
(label "onRecv"), `OnSend` ("sendNext"), or in an idle thread that found the session
in the service, may begin Send or Disconnect on top of it. `role` is the service's
type: a client's session begins with RegisterConnect, a server's with the listener's
AcceptEvent, and the server's OnConnected and OnDisconnected enter the session in the
ClientSessionManager and take it out (`managed`). `pending` is the set of events that
are with the kernel, `owned` that of the session's events whose `owner` holds a
reference to it. The kernel may fail any ConnectEx, WSASend, WSARecv or DisconnectEx at
once, with a reset or with another error (which `HandleError` only logs), may refuse
a connect (which Dispatch hands on like a success), and may complete with 0 bytes; an
accepted peer may be gone before ProcessAccept looks. RegisterAccept, which calls
itself until AcceptEx is pending, is one step. `met` remembers such outcomes for
the properties. The other sessions that one AcceptEvent goes on to accept are not
followed. Messages are alike, so the model names them in the order of their pushes.

**JobTimer.** The clock is read outside of the lock in Reserve and outside of the flag
in DistributeReservedJobs, so each is a step of its own. The heap is a set, and PushNext
takes a least tick first. Push may run the job inline, on the distributing
thread: at "push" it may reserve again, and other threads come and go. Owners may be
destroyed when nobody holds them; `BoundJobs` are the jobs of member functions, which hold
theirs.

**Memory.** A free list is a Windows SLIST, whose push and pop are atomic; the two
counters and the header are changed in steps of their own. The size table is the
operator `poolTable`, said by its result: the least pool that fits.
StompAllocator replaces the pools only in a build with `_STOMP`, so it has its arithmetic
here and no state. Callers release a block once and by the way they got it.

**DBConnectionPool.** The statement keeps the addresses it was given: a binding is
"own" until its borrower gives the connection back, and "stale" from then on until
somebody unbinds it. The driver may refuse any call, and grants one only where ODBC
allows it (`CanExecute`: no open result set, a value for every marker); `dangled` is set when a
query goes through a stale address.

**RecvBuffer.** A byte is its place in the peer's stream, so that a packet that was
moved, cut or mixed differs from a whole one. `Receive` is a completed WSARecv with
any number of bytes that fits and OnWrite; `HandlePacket` is one turn of OnRecv's
loop; `FinishRecv` is OnRead, Clean and the next RegisterRecv. One receive is
processed at a time, which is RecvTurn of `Session`. The peer writes true sizes, as
FlatBufferWriter does; what OnRecv does with other streams is not modelled. The source
and target of Clean's memcpy may overlap; it is taken to copy such bytes rightly, as
memcpy of this platform does.

**DeadLockProfiler.** PushLock and PopLock run under the profiler's mutex and are one
step each; CheckCycle and Dfs are operators of `CycleSearch`, translated statement by
statement except for the printing (`_parent` serves nothing else). DeadLockProfiler takes
what they find as a constant operator, `CycleFound`, so that what is proved of the recorded order
holds whatever the search finds; both runs give it `CheckCycleCrashes`. WriteLock and WriteUnlock of `Lock`
come after the profiler's call, in a step of their own and in one piece; the 10 s
limit of Lock is not repeated here. `NameOf` gives each lock the name of its class.

**Lobby.** It stands on `JobQueue`: the jobs of a queue run one at a time and in order,
which is what `Mailbox` promises and `ImplementsMailbox` checks. But the statements of a
room run on three kinds of threads: in its own jobs (OnExitGame), in the lobby's
(Room::Enter, inside MakeRoom and JoinRoom) and in an I/O thread's handler
(BackToLobby), and `ClientSession::_room` is written by all of them and read by handlers and by
`ClientSessionManager::Remove`. No lock guards either, so each access to a room's `_clients` or a session's
`_room` is a step of its own: BackToLobby is the erase, OnExitRoom, the size test and
AcceptClient; OnExitGame is three steps, Enter two, Remove up to five (Remove under the
manager's lock, so one Remove at a time). In between, anybody may come. `lock()`
sees the room before or after another thread's change. If two threads are at one
`std::set`, or one is at a `_room` while another is about to write it, they may also do it at once,
which is undefined: `DataRace` then stops the model (`undefined`).

`ClientSession::Room` returns a reference to the temporary that `lock()` made
(ClientSession.h:32), and its callers copy it when it is gone. That is `FindRoom` and
`KeepRoom` (`RemoveFindsRoom` and `RemoveKeepsRoom`): between the two nobody holds the room.
The model assumes that the copy still finds the bytes of the temporary, as builds that do not reuse
its stack slot do; if the room itself has died by then, the copy is undefined and the model stops.

A Room object lives by its shared_ptrs (`Alive`), and a session's weak_ptr finds it
only while it lives; an object is made again (`NewRoom`) only when no pointer of a handler or Remove is left on
it. A chat job, which is not modelled, keeps its room a while longer, as an OnExitGame does. A client is
`polite` if it waits for the server's answer before it asks again: that is an assumption about
clients (`InLobby`, `InRoom`), stands for no code, and DummyClient does not meet it; both
kinds of client are modelled. A packet may be handled after Remove, because
ProcessRecv does not ask whether the session is still connected.

**SendBuffer.** Threads meet only in the pool, under its lock, and in reference
counts, so a step of `SendBufferManager::Open` ends at each Pop and before the Push of
a chunk whose last reference has died (`dying`). A reference count is not kept as a
number: `Referenced` asks for a thread or a SendBuffer that has the chunk. A byte
is the SendBuffer that it was written for. The bytes of a packet that is gone are
garbage, not told apart. The writer's check is that of a debug build, the only one in
the repository. The callers put one writer at a time on a thread's
stack, which is an assumption about them (`Free`); all of them in GameServer and DummyClient do.

**TcpMsgResolver, CUserToken.** TcpMsgResolver is the loop of OnReceiveTcp alone, a
step per ReadUntil; a byte is its place in the stream, which is chosen at the start.
CUserToken extends it by the rest of a connection: SetSession by content code, Pop and
PushBack of packets by content code and by the receiving thread's OnMessage, the
sending queue, and OnRemoved. A step inside `lock_sendingQueue` ends where
SendAsync is called or has returned, `section` is what comes next and `owner` who is inside; a
completion comes at once, inside the same lock, or later on another thread.
The outcome of a send is whole, or not (an error or fewer bytes, which ProcessSend
treats alike). The content of a packet is the number of the message it holds; of a pooled packet
it is 0, since every Pop overwrites it. An exception nobody catches ends the process
(`stopped`). OnRemoved empties the queue without the lock: if somebody is inside, the
`Queue` is in a data race and the model stops there (`raced`). Content code is that of
CSharpSampleServer; it does not close the socket itself, and nothing starts the
keep-alive timer.

The mutants (operators commented "Mutant") are plausible errors in the code, one per
property; with the mutant in place of the definition the property fails.

## 3. The runs

| run | instance | checks | result |
|---|---|---|---|
| `jobqueue` | 2 threads, 2 queues, 3 jobs, 1 ClearJobs | OneHolder, CountExact, ImplementsMailbox, EveryJobRuns | holds, 241,824 states |
| `lock_guards` | 3 threads, 3 guards each, uses "write" and "read" | WriteCountOwned, CountsMatch, ImplementsReadWriteLock | holds, 536,716 states |
| `lock_read` | 2 threads, 1 guard each, use "both" | ReadersExcluded | **violated** |
| `lock_unlaunched` | threads 0 and 1, use "write" | WritersExclusive | **violated** |
| `session_rules` | 3 threads, 3 messages, client and server | SendTurn, RecvTurn, EventsOwned, SentInOrder, ReleaseFindsSession, KernelBuffersKept, ImplementsLife, DisconnectedIsReleased, MessageIsSent | holds, 390,585 states |
| `recvbuffer_packets` | a buffer of 4 bytes, headers of 2, 3 packets of 2 to 4 bytes | TypeOK, RoomForMore, PacketsWhole, EveryPacketHandled | holds, 1,219 states |
| `profiler_orders` | 3 threads, 3 locks, 3 guards each, symmetric | OrderIsRecorded, DeadlockLeavesCycle | holds, 251,277 states |
| `profiler_report` | 2 threads, 3 locks, 2 guards each | CycleIsReported | **violated** |
| `lobby_places` | 2 clients, 3 Room objects, 3 requests, symmetric | EmptyRoomIsGoing, OnePlace, GoneIsNowhere | holds, 2,666,233 states |
| `sendbuffer_chunks` | 2 threads, 3 chunks of 4 bytes, 3 buffers of 2, headers of 1, symmetric | BytesKept, PoolIsIdle, NoChunkLost, AssertionsHold | holds, 78,965 states |
| `usertoken_packets` | 2 threads, 3 messages, a pool that grows by one packet up to 4; a stream of 2 packets of 3 and 4 bytes in either order; symmetric | MessagesWhole, SentInOrder, SendTurn | holds, 5,085,231 states |
| `services` | JobTimer: 2 threads, 3 jobs of 2 owners, delays 0 and 1, 1 Clear; Memory: 2 threads, 3 blocks, requests of 1000, 1024 and 4097 bytes, an ObjectPool; DBConnectionPool: 2 borrowers, 1 connection, binds of 2 and 0 and of 1 and 2 | InOrder, OnceEach, TimerFires; AssertionsHold, RequestFits, CountersSettle; ConnectionInOneHand, OwnBindings | holds, 512,749 states |

What they show:

* Every queue with `_jobCount > 0` has exactly one *holder* (an executor, a Push that
  found it empty, or one entry in the global queue), in every window between counter
  and list, under deadline changes and inline and deferred runs. `ImplementsMailbox`
  is the refinement: seen from outside, a JobQueue is a mailbox that runs its jobs one
  at a time in order of arrival.
* `CountExact` shows what ClearJobs leaves behind: the cleared jobs stay in
  `_jobCount` for good (`lost`), so that the queue is handed round for ever.
* `EveryJobRuns` needs its antecedent `SomeWorkerInTime`: a worker whose dispatch and
  timers always use up the 64 ms pops nothing (ThreadManager.cpp:68), and without the
  antecedent the property fails.
* `lock_guards`: `ImplementsReadWriteLock` is a refinement too. A guard is there from the end of
  WriteLock or ReadLock to the start of the unlock, and whoever looks at guards only sees a lock that is
  taken and given back in one step; that writers exclude each other (`WritersExclusive`) is part of it. It is what the other modules rest on where they
  make a critical section one step.
* `lock_read`: `ReadLock`'s compare-exchange increments whatever word it loaded,
  owner bits included (Lock.cpp:94-95), although the comment above it says readers
  compete "when nobody owns" the lock. No class of the repository takes both kinds of
  guard from outside today, so this is a defect of the lock, not yet of the server.
* `lock_unlaunched`: a thread that ThreadManager did not launch has LThreadId 0, which
  equals the owner of the empty word, so `WriteLock` takes it for the owner
  (Lock.cpp:19-20). DummyClient.cpp:110 starts such a thread, which broadcasts through
  the service's lock.
* `session_rules`: the hand-over between senders through `_sendRegistered` is right, except
  after an error that HandleError ignores: then messages may be stranded and the
  receive loop may end on a session that stays connected. The properties say so by the
  `"ignored" \notin met` in them, and `DisconnectedIsReleased` excepts a failed
  DisconnectEx in the same way. A refused connect is such a case: Dispatch does not tell
  ProcessConnect (IocpCore.cpp:50), the session is connected and listed, and its first
  WSARecv fails with an error that is ignored. `EventsOwned` says that the ADD_REFs
  and RELEASE_REFs fit, on every error return too, and that the listener's event is
  never lost. `ReleaseFindsSession` orders OnConnected before OnDisconnected, with one
  exception: a thread that finds the session in the service between AddSession and
  OnConnected (Session.cpp:245-247), as Service::Broadcast may, can disconnect it first, and
  ClientSessionManager then keeps it for good. `ImplementsLife` is a refinement: whoever
  disconnects and when, a session is opened, listed, closed and released, in that order and
  each once.
* `recvbuffer_packets`: however the stream is cut, also inside a header, the packets
  come out whole, in order and all of them, none waits for a later receive once it is there, and the
  buffer never runs full. The
  largest packet equals the buffer here, which is the tightest case `PacketFits`
  allows; in the code a packet has at most 65,535 bytes and the buffer 655,360.
* `profiler_orders`: recording only neighbouring guards is enough, whatever is taken
  in between and again. It is so for locks that do not share a name; two locks of one
  class would hide each other's orders, which CoreMacro.h:39-43 leaves for later.
* `profiler_report`: Dfs returns where it has *not* been yet (DeadLockProfiler.cpp:87),
  so CheckCycle never searches. (With that one test turned round, TLC finds
  that the model's search reports exactly the cycles. One of them can be a single
  thread's A, B, A, which re-entrance makes harmless.)
* `lobby_places`: in any order of the statements, packets and jobs, a used room that is
  empty always has its RemoveRoom coming: of those that leave it at the same time, one
  finds it empty. The places of a client are right as long as
  it waits for answers and nothing of its own is under way when it is removed: it is in
  one room at most, its session knows that room and no other, and it is not in the lobby
  too, but for the steps between the two statements that change both. Both
  conditions are needed, and they are the code's: a client that asks twice may be in two
  rooms, and a MAKE_ROOM, JOIN_ROOM or BACK_TO_LOBBY that meets Remove puts a client
  that is gone into a room or the lobby, for good, or has BackToLobby take a client out of a room
  that OnExitGame has taken it out of before. The model also reaches, with polite
  clients only: a client in neither, after JOIN_ROOM for a room that has just
  been removed (Lobby.cpp:62); a RemoveRoom that removes a room somebody has entered
  since (Lobby.cpp:72); two threads at one room's `_clients` or one session's `_room` at once
  (Room.cpp:13, 21, 37; ClientSession.h:29, 32); and the copy of a room that died after `lock()`
  (ClientSession.h:32). No document of the repository excludes
  these, so they are told here and in the hazards and not as violated runs.
* `sendbuffer_chunks`: a chunk may be unreset when a thread first takes it
  (SendBuffer.cpp:87), given back on any thread that releases its last packet, and
  taken again at once; no packet ever loses a byte by it. The one check that fires
  is the writer's, for contents that do not fit in 1024 bytes.
* `usertoken_packets`: the C# client has one send at a time under way, its messages
  go out in order with their own content though every packet is pooled and written
  again, and packets come out whole from any cutting. What ends this: a send that
  fails or is cut short stays at the head of the queue for good (`cut`; the comment at
  CUserToken.cs:85 says that it is sent again, the code returns), and OnRemoved's
  Clear without the lock, after which a completion finds no packet or a Send finds
  sendArgs in use. The model also reaches a Pop of an empty pool, by two threads that
  both saw its last packet (CPacketBufferManager.cs:54), and a message before
  SetSession.
* `services`: whoever finds `_distributing` set and returns, every reserved job
  leaves the timer, once, and in the order of the ticks; one that comes later than a job
  of a later tick had reached the heap after that one left it, because executeTick
  is read before the lock. In the pools, blocks fit at every border of the size table, the
  two assertions never fire, and `_useCount` and `_reservedCount`, which lag behind the
  list in both directions (`_reservedCount` may be negative for a moment), settle
  to its length and to what is lent. In the database layer it is the constructor
  of DBBind that keeps a query from the variables of an earlier borrower: BindParam
  and BindCol set their flags whatever the driver said (DBBind.h:53, 81), so Validate
  does not tell that everything is bound, but after Unbind a refused binding leaves
  nothing behind, and the execution then fails.

**Bounds.** `jobqueue` has two threads, which meet in every window of Push and Execute; what
more threads could do to the holder, the count and the executor is excluded by the
theorems of JobQueueProofs. Elsewhere three threads give two that contend and a third that arrives in the
window between them; two queues let a job of one push to the other and back; three
jobs let a queue be non-empty, in the batch and in the window at once. `MaxClears`
bounds ClearJobs (and JobTimer's Clear). Jobs of the job queue, like messages of a session, are alike and are named in
the order of their pushes (`NamedInOrder`, `NextMessage`), which is what symmetry would
do and allows liveness. Each job is pushed at most once and each message sent at most
once, so the number of objects bounds every list. `MaxDepth = 3` covers w-w-w, w-r-w
and w-w-r. Three messages let one be with the kernel, one in the queue and one on its
way there. Symmetry is used in runs without liveness only, on threads, queues, jobs, chunks
and the like, none of which the modules distinguish. Two clients and three Room objects
let one room be joined while another is made or removed, and three requests take a
client into a room, out of it and into the next. Three chunks let each thread have
one while a third is in the pool or lives only by its packets; a chunk of
four bytes takes two whole packets or three short ones, so that it is used up with and
without a rest. (When the chunks of the bound are all in use, Pop waits in the model
where xnew would make another; so it does in `Allocate` of CUserToken at MaxCreated.) Three messages of the C# client let one be with the socket and two wait;
with four packets a pool of one grows three times. Two packets of a stream, three and
four bytes, are cut inside the length bytes, inside a packet, at its end and across two.
Three timed jobs, two of one owner, with delays 0 and 1 and a clock of one tick give due, not yet due and overdue
items together. The requests of 1000, 1024 and 4097 bytes share a pool at the border
of two grades and go beyond all pools; three blocks let one be lent, one be on a
list and one under way. One connection for two borrowers is the case in which a
statement changes hands at every turn, and in which Pop finds nothing. (`side` in
MCServices only picks which of the three components moves: a product of their
states would show nothing more.)

**Deadlock.** It is checked for the job queues, whose worker loop never stops. It is
not for Lock (a CRASH ends the process) and Session (a released session is done), nor
for RecvBuffer, where the peer falls silent after `MaxPackets`, nor for
DeadLockProfiler, whose threads may deadlock: that is its subject, nor for Lobby, whose clients need not
ask for anything, nor for SendBuffer, where a writer's CRASH ends the process, nor for CUserToken,
whose exceptions do. In `services` it is checked, although the clock
stops at `MaxTick`: the workers' loop, the callers of the pools and the borrowers go on.

**Fairness.** `JobQueue`: weak fairness of each thread's own steps, as the operating
system schedules every thread and the loop is endless; jobs are assumed to return.
Strong fairness of `PopGlobal`, as other workers empty the global queue in between;
nothing makes user code push or time run out. `Session`: weak fairness of each
thread's steps inside the session, and of the completions of a send or a disconnect
the kernel has accepted, on some idle worker; the peer need never send anything and
content code need never send or disconnect. `RecvBuffer`: weak fairness of receiving
what was sent, of OnRecv's loop and of its end, all of them one worker's steps.
`JobTimer`: weak fairness of each thread's PutItem and of its turns of
DistributeReservedJobs, which the worker loop calls for ever, and of the clock; nobody
need reserve anything.

## 4. The proofs

TLAPS checks these for all values of the constants. With them every safety property of a
passing run is a theorem, the three refinements among them; each inductive
invariant was first checked by TLC on the run's instance.

`JobQueueProofs` (any finite set of threads, any queues and jobs):
`TypeCorrect`: `Spec => []TypeOK`; `OneExecutor`: `Spec => []SingleExecutor`;
`ExactCount`: `Spec => []CountExact`; `HeldByOne`: `Spec => []OneHolder`. None of the four is inductive. The inductive
invariant is `IInv`, the conjunction of TypeOK and

* `Shape`: a thread has a queue exactly while it is inside Execute, a job runs and
  `size` counts only in its run step, and a call that goes on after Enqueue is a first
  push;
* `Held`: `OneHolder` without cardinalities (a queue is held iff its count is positive,
  and any two holders are the same), which is what makes `prevCount = 0` mean
  "nobody runs it";
* `NoDuplicates`: a queue is in the global queue at most once;
* `Accounts`: `CountExact` with the executor named, which makes `Settle` leave exactly
  when nothing is left, and never lowers the count below 0.

There is one lemma per action. The assumptions are those of the module: a finite set
of threads, and `NoQueue`, `NoJob` outside their sets.

`MailboxImplemented`: `Spec => ImplementsMailbox` is the refinement. The mailbox's
waiting jobs are the executor's batch with `_jobs` behind it (`PendingJobs`), its running job
is the executor's (`BusyJob`). `Enqueue` is Send, `StartJob` Start, `FinishJob` Finish,
`ClearJobs` Discard, and every other step stutters: `PopAll` moves jobs from `_jobs` to
the batch, which is the same sequence because the executor is the only one
(`IInv`) and its batch was empty (`Quiet`, the one clause that the refinement adds).

`LockProofs` (any threads in 1..65535, any nesting depth within uint16):
`MutualExclusion`: `Spec => []WritersExclusive`, and `NoRaceOnWriteCount`:
`Spec => []WriteCountOwned`, for any use. `IInv` adds to TypeOK `Owning` (a thread with a write
guard, or on its way with one, owns the word), `Counting` (`_writeCount` is the number
of the owner's write guards, corrected for the step it is in) and `Depth`. The
assumption `Launched` (0 is no thread's id) is needed: `lock_unlaunched` refutes the
theorem without it. `Countable` (the depth fits in a uint16) is what keeps
`_writeCount` from wrapping. Readers need no assumption: they may enter beside a writer, but never
disturb the writers. What is said of readers needs one, `OneKind`: the class takes guards of one kind from
outside, as every class of the repository does. With it `CountsMatchHolds`:
`Spec => []CountsMatch`, and `ReadersExcludedHolds`: `Spec => []ReadersExcluded`,
which `lock_read` refutes without it. Their invariant is `Settled`: the word's readers
are the read guards there are, corrected for the steps under way; a word with an owner
has one that is busy; and a thread's guards nest as its class lets them.
`ReadWriteLockImplemented`: `Spec => ImplementsReadWriteLock` follows from the exclusion of
writers and readers in the state after a guard was taken: `CountWrite` is TakeWriteGuard, `ReadOwned` and
`AcquireRead` are TakeReadGuard, `WriteUnlock` and `ReadUnlock` are EndGuard unless they crash, and the
rest stutters.

`SessionProofs` (any finite set of messages, any threads, client or server): all seven safety
properties of `session_rules`, one of them an action property
(`KernelBuffersKeptHolds`) and one a refinement (`LifeImplemented`). No call can be twice on a thread's stack, so `IInv` tells
once which stacks there are (`Stacks`) and speaks of who is in which call from then on. Its
core are *hands*: the send event, the receive event, the accept event, the connect event and the end of the session
are each with the kernel or with at most one thread in the calls of that kind
(`SendHand`, `RecvHand`, `AcceptHand`, `ConnectHand`, `EndsOnce`), and `sendRegistered`,
`connected` and `met` say when there is one. `Opened` and `Added` say that nobody can have used a session
that is not connected or not yet in the service, which is why what follows OnConnected
finds it untouched, and nobody can disconnect it before AddSession: with `EndsOnce` that is
SessionLife; `Failed` and `Managing` carry the two exceptions (an
ignored error, a thread that was early); `Lengths` keeps the histories from naming a message
twice.

`RecvBufferProofs` (any sizes of buffer, header and packets with
`HeaderFits` and `PacketFits`, any stream): `TypeCorrect`, `AlwaysRoom`:
`Spec => []RoomForMore`, and `PacketsAreWhole`: `Spec => []PacketsWhole`. `IInv` adds
`StreamOK` and `StartsGrow` (the peer's packets have sizes in range, so no two begin
at one byte), `Window` (the data in the buffer is the last of what was received, in
order) and `AtPacket` (OnRecv stands where the next packet begins), which is what
makes the bytes it takes for a header a header, and with it what it leaves less than a
packet (`NextIsMissing`).

`SendBufferProofs` (any threads, chunks and buffers, any sizes with header <=
allocation <= chunk): all the properties of `sendbuffer_chunks`, and the types, as theorems. `IInv`
adds `Created`, `Phases` (a thread between ChangeChunk and ResetAndOpen has a chunk
without packets), `Writers` (a writer stands at the end of the used part of its own
thread's chunk), `OpenWhile` (an open chunk has its writer, which is why an unreset one
from the pool is closed) and `InUsedPart` (finished packets lie below `_usedSize`, where
no writer writes). `LetGo` is the one argument about the pool that all
actions which drop a reference share.

`LobbyProofs` (any clients, rooms and number of requests): `PlacesTyped`,
`EmptyRoomIsGoingHolds`, `OnePlaceHolds` and `GoneIsNowhereHolds`. `EmptyRoomIsGoing` is
inductive with `TypeOK` and `JobsBegun` (a job that has begun is at the head of its
queue). The places of a client that waits for its answers are not: they
need all that may still be under way for it. `Orderly` says it, for each client and as long as
its condition holds: at most one job would move it (`OneJob`); the rooms it is in, what its
session knows and the lobby agree but for the steps of Enter, of OnExitRoom and of the
lobby's erase (`OneRoom`); where each step of its handler finds it (`HandlerOK`); that nothing is under way
before it entered (`NotEntered`); that a room it left by losing its connection has an
OnExitGame for it, from the moment Remove saw that room (`ExitOK`); and that its removal from the
lobby stands behind whatever would put it there (`RemovalOK`, the order of
ClientSessionManager.cpp:24-35). Most steps are those of others, and one lemma (`Bystander`)
is for them: a client keeps its `Orderly` as long as its own thread's place, its jobs, rooms, exits and
turn in the lobby are kept.

`ServicesProofs` (four components without common state, so four invariants):

* JobTimer (any threads, queues, jobs, owners and delays): `TimerInOrder`:
  `Spec => []InOrder` and `TimerOnceEach`: `Spec => []OnceEach`. `TimerInv` adds `OneInside` (at most one
  thread is between exchange and store, and only with the flag set), `Places` (a pending
  job is in one place), `OwnersLive`, and `HandedFirst` and `DueFirst`: whatever is still to
  come has a later tick than what was handed on or collected, or reached the heap after it
  (`Behind`). That makes Distribute a critical section, which is why an old `now` does no harm.
* Memory (any threads, blocks, types and sizes): `StompAllocatorFits`, the
  arithmetic of the page allocator for every size; `MemoryAssertionsHold`:
  `MemorySpec => []AssertionsHold`; `MemoryRequestFits`: `MemorySpec => []RequestFits`, whose
  first conjunct is about all 4096 entries of the size table. `MemoryInv` adds `InCalls` (a block in a
  call is in no list, lent to nobody, in no other call, and of the size of the call's
  pool), `Lent` (a caller's block is in no list, its header says what was asked and its capacity
  is that of the caller's pool) and `Listed` (a block is in one list, with an empty header).
  `MemoryCountersSettle`: `MemorySpec => []CountersSettle` is inductive with it: each step changes the
  counter, the list and the calls under way by amounts that cancel, and which amounts they are
  is what the lemmas on cardinalities before it say.
* DBConnectionPool (any borrowers and connections, any numbers of parameters and columns):
  `ConnectionInOneHandHolds` and `OwnBindingsHolds`. `DBInv` adds `HandsInUse` (a borrower
  that works has a connection) and `Fresh`: from DBBind's constructor on, whatever is bound
  to the statement is the borrower's own, and so is what a result set it has opened will be
  fetched into. Unbind in the constructor is what makes this true, whatever was left.
* DeadLockProfiler (any threads, locks, names and depth, and whatever `CycleFound` says):
  `ProfilerTyped`; `UnlocksMatchHolds` (neither check of PopLock crashes a thread whose guards
  nest); `OrderIsRecordedHolds`: `ProfilerSpec => []OrderIsRecorded`; and `DeadlockLeavesCycleHolds`:
  `ProfilerSpec => []DeadlockLeavesCycle`. `Before(i, j)` says that j is in every set of ids that holds i and that no
  recorded order leads out of, which is a path without counting its steps. `ProfilerInv` adds
  `NamesDiffer` (a name has one id), `StacksMatch` (a thread's ids are those of its guards),
  `NeighboursRecorded` (of two neighbours on a stack the order is in the history, unless
  they are the same) and `OwnersHold` (who owns a lock has a guard of it that it does not wait for). So a
  stack is a path. In a deadlock the lock a thread waits for is owned by another of them, and
  on that one's stack its id is followed by the id the other waits for (`PathUpStack`): from
  every id waited for a path leads to a different one. Ids are finitely many, so one waited for has the fewest
  ids after it, and the next has no fewer only if a path leads back from it: a cycle (`CycleAmong`).

`CUserTokenProofs` (any threads, packets, messages and sizes, any stream whose packets fit in the buffer):
`PacketsTyped`, `MessagesWholeHolds`, `SentInOrderHolds` and `SendTurnHolds`. `AtPlace`
says where the receive loop stands: behind the packets it has handed on, with so many bytes of the next one
in the right places of `_messageBuffer`, and `_quantityToRead` is that packet's size once its length bytes
are there. That packets begin at different bytes (`Ascending`, from the least counterexample) makes the length
bytes the right ones. `Apart` says that a CPacket is in one place, the pool, the queue or one thread's
hands; `Program` what a thread has in hand at each step; `Waiting` that the queue holds
what was put in and not yet given to the socket, with its content, which no one can change because of
`Apart`; and `Turn` that, as long as OnRemoved has not been called, a send that is under way or being
processed has its packet at the head of the queue.

**Assumptions.** They are the modules' ASSUMEs, which TLC evaluates in every run. Beside
the sizes and the values that stand for "nobody", they say that some sets are finite: the threads of
JobQueue and of Lock, the messages of a session (`MessagesFinite`), the threads and blocks of Memory
(`WorkersFinite`, `BlocksFinite`), the connections of a pool (`ConnsFinite`); all these are
things a process makes one by one. `RequestsAreNat` types the bound of Lobby.

**Model-checked only.** Everything that is liveness: `EveryJobRuns`, `DisconnectedIsReleased`,
`MessageIsSent`, `EveryPacketHandled`, `TimerFires` (fairness and ENABLED are
beyond the prover). What the recursive search of
`CycleSearch` finds: the runs evaluate it, and nothing can be proved of it without induction over
data; the theorems do not need it.

## 5. Not modelled, and why

* ThreadManager::Launch and Join, the statistics main prints, logging.
* The memory orders of the hardware: the code uses the default, sequentially
  consistent, atomics.
* After a CRASH nothing is modelled: it writes to a null pointer and the process ends.
  (`ReadUnlock` lowers the word before it crashes; nobody is left to see it.)
* The end of the process, when CoreGlobal.cpp:44-54 deletes the managers, and the deleter of a
  pooled chunk still calls Push on the one it was in.
* The lists and chat lines that the server sends (Inform..., Test_Chat), the console
  programs: they change no state of the server.
* `RefCounting` is used nowhere in the repository. `TypeCast` is compile-time.
  `SocketUtils` and `NetAddress` are wrappers of Winsock, whose outcomes are choices
  in `Session`. `FlatBufferReader` only moves a position of its own.
* More than one session of a service. Sessions share the service's and the manager's set,
  each under its lock, and the listener's events.

Read while modelling, true of the code, and not the subject of a property because no
document says otherwise: `DBConnectionPool::Pop` returns a nullptr that no caller looks
at (GameServer.cpp:53); `DBConnection::Clear` and `DBConnectionPool::Clear` free the
handles in an order that ODBC refuses (the connection before its statement, the environment
before both); `Fetch` returns true for results it does not know (DBConnection.cpp:73);
`FullBits<32>` is negative, as it is an int (DBBind.h:9); CoreGlobal.cpp deletes GMemory while
objects that free through it may still live; the int32 size of the containers'
allocator can be cut (Allocator.h:59); `_maxSessionCount` of a server is the number of
accepts it keeps outstanding and no limit (Listener.cpp:63); CreateSession's nullptr is
not looked at (Listener.cpp:96).

## 6. The plan

The components that can be modelled faithfully are, and their safety properties are proved. What is left:

1. Safety lemmas behind the liveness properties: where each of them can be stuck, and that it is
   not (that a queue with jobs always has a holder, `HeldByOne`, is the one of JobQueue).
