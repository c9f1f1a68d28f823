------------------------------- MODULE Lobby --------------------------------
(***************************************************************************)
(* Who is in the lobby and who is in which room of the GameServer.  Lobby  *)
(* and every Room are job queues: their jobs run one at a time and in      *)
(* order, as Mailbox says.  But a room is also entered from jobs of the    *)
(* lobby (Room::Enter), and left from the I/O threads (Room::BackToLobby), *)
(* and a client may lose its connection between any two steps.             *)
(*                                                                         *)
(* A step is one access to a room's _clients or a session's _room.  No     *)
(* lock guards these: two threads at one of them may come one after the    *)
(* other, or at once, and then anything may happen and the model stops     *)
(* (DataRace).                                                             *)
(*                                                                         *)
(* A Room lives as long as a shared_ptr to it: in Lobby::_rooms, in a job  *)
(* of its own, or in a packet handler or Remove.  Sessions keep weak_ptrs. *)
(* ClientSession::Room returns a reference to a shared_ptr that is gone:   *)
(* until the caller has copied it nothing keeps the room, and the copy of  *)
(* one that died meanwhile is undefined too.                               *)
(***************************************************************************)
EXTENDS Integers, Sequences, FiniteSets

CONSTANTS Clients,      \* also their player ids, and so the ids of their rooms
          Open,         \* 9999, the id of the room that is there from the start
          Rooms,        \* the Room objects
          First,        \* the one of them that Lobby's constructor makes
          MaxRequests,  \* bound: packets MAKE_ROOM, JOIN_ROOM and BACK_TO_LOBBY, of all clients
          None          \* nullptr

Ids == Clients \cup {Open}

ASSUME FirstIsARoom == First \in Rooms /\ None \notin Rooms
ASSUME RequestsAreNat == MaxRequests \in Nat

VARIABLES
  polite,    \* do the clients wait for the server's answer before they ask again?
  entered,   \* the clients that have sent ENTER_GAME
  requests,  \* how many packets came since
  handler,   \* of each client's receiving thread: where it is in a packet handler
  held,      \* the room that Room() gave to that handler
  link,      \* of each client: in the manager, somewhere in Remove, or gone
  target,    \* the room that Room() gave to the Remove that runs
  lobby,     \* Lobby::_clients
  listed,    \* Lobby::_rooms
  lobbyJobs, \* jobs of the lobby, the running one at the head
  entering,  \* the room in which the lobby's running job is inside Enter, or None
  assigned,  \* that job has called EnterRoom
  idOf,      \* Room::_roomId of each object
  members,   \* Room::_clients
  roomJobs,  \* the clients of each room's jobs, all OnExitGame
  exiting,   \* of each room: where its running job is in OnExitGame
  room,      \* ClientSession::_room
  used,      \* history: the rooms somebody has entered
  late,      \* history: clients with a request under way when they were removed
  undefined  \* threads were at one thing at once, or a dead room was copied

io      == <<entered, requests, handler, held, link, target>>
jobs    == <<lobbyJobs, roomJobs>>
inEnter == <<entering, assigned>>
vars    == <<polite, io, lobby, listed, jobs, inEnter, idOf, members, exiting, room,
             used, late, undefined>>

Init == /\ polite    \in BOOLEAN
        /\ entered   = {}
        /\ requests  = 0
        /\ handler   = [c \in Clients |-> "idle"]
        /\ held      = [c \in Clients |-> None]
        /\ link      = [c \in Clients |-> "connected"]
        /\ target    = None
        /\ lobby     = {}
        /\ listed    = [i \in Ids |-> IF i = Open THEN First ELSE None]
        /\ lobbyJobs = <<>>
        /\ entering  = None
        /\ assigned  = FALSE
        /\ idOf      = [r \in Rooms |-> Open]
        /\ members   = [r \in Rooms |-> {}]
        /\ roomJobs  = [r \in Rooms |-> <<>>]
        /\ exiting   = [r \in Rooms |-> "idle"]
        /\ room      = [c \in Clients |-> None]
        /\ used      = {}
        /\ late      = {}
        /\ undefined = FALSE

\* Somebody has a shared_ptr to the room.
Alive(r) == \/ \E i \in Ids : listed[i] = r
            \/ roomJobs[r] # <<>>
            \/ \E c \in Clients : held[c] = r /\ handler[c] # "found"
            \/ target = r /\ \E c \in Clients : link[c] = "telling"

\* Somebody has a pointer to the room that came from Room().
Pointed(r) == target = r \/ \E c \in Clients : held[c] = r

\* _room.lock(), which sees the room before or after another thread's change
RoomOf(c) == IF room[c] # None /\ Alive(room[c]) THEN room[c] ELSE None

Job(kind, x) == <<kind, x>>

\* GLobby->DoAsync
ToLobby(job) == lobbyJobs' = Append(lobbyJobs, job)

JobsOf(c, kinds) ==
  {i \in DOMAIN lobbyJobs : lobbyJobs[i][1] \in kinds /\ lobbyJobs[i][2] = c}

Client == lobbyJobs[1][2]

-----------------------------------------------------------------------------
(* Undefined behaviour *)

\* Threads that have _clients of this room in their hands.
Users(r) == {c \in Clients : handler[c] \in {"erased", "leaving"} /\ held[c] = r}
              \cup {x \in {"job"} : exiting[r] # "idle"}
              \cup {x \in {"lobby"} : entering = r}

\* Threads that are about to set, and to lock, _room of this client.
Writers(c) == {x \in {"handler"} : handler[c] = "erased"}
                \cup {r \in Rooms : exiting[r] = "erased" /\ Head(roomJobs[r]) = c}
                \cup {x \in {"lobby"} : entering # None /\ ~assigned /\ Client = c}

Readers(c) == {x \in {"handler"} : handler[c] = "asking"}
                \cup {x \in {"manager"} : link[c] = "asking"}

\* Two threads do it at once.
DataRace ==
  /\ ~undefined
  /\ \/ \E r \in Rooms : \E x, y \in Users(r) : x # y
     \/ \E c \in Clients : \E x \in Writers(c), y \in Writers(c) \cup Readers(c) : x # y
  /\ undefined' = TRUE
  /\ UNCHANGED <<polite, io, lobby, listed, jobs, inEnter, idOf, members, exiting, room,
                 used, late>>

-----------------------------------------------------------------------------
(* ClientPacketHandler, on the thread that received the packet *)

\* The receiving thread of the client takes a packet up.  A receive that
\* completed before the connection ended may be handled after it.
Packet(c) ==
  /\ ~undefined /\ handler[c] = "idle"
  /\ late' = IF link[c] = "connected" THEN late ELSE late \cup {c}

Request(c) ==
  /\ Packet(c)
  /\ c \in entered /\ requests < MaxRequests
  /\ requests' = requests + 1

\* An assumption about the clients that are polite: they ask for a room when
\* the lobby has told them that they are there, and to go back when a room has.
InLobby(c) == polite => c \in lobby /\ JobsOf(c, {"join", "make"}) = {}

InRoom(c) == polite => RoomOf(c) # None

\* Handle_ENTER_GAME, which a client sends first, and once
HandleEnterGame(c) ==
  /\ Packet(c)
  /\ c \notin entered
  /\ entered' = entered \cup {c}
  /\ ToLobby(Job("accept", c))
  /\ UNCHANGED <<polite, requests, handler, held, link, target, lobby, listed, roomJobs, inEnter,
                 idOf, members, exiting, room, used, undefined>>

\* Handle_MAKE_ROOM
HandleMakeRoom(c) ==
  /\ Request(c)
  /\ InLobby(c)
  /\ ToLobby(Job("make", c))
  /\ UNCHANGED <<polite, entered, handler, held, link, target, lobby, listed, roomJobs, inEnter,
                 idOf, members, exiting, room, used, undefined>>

\* Handle_JOIN_ROOM
HandleJoinRoom(c, i) ==
  /\ Request(c)
  /\ InLobby(c)
  /\ lobbyJobs' = Append(lobbyJobs, <<"join", c, i>>)
  /\ UNCHANGED <<polite, entered, handler, held, link, target, lobby, listed, roomJobs, inEnter,
                 idOf, members, exiting, room, used, undefined>>

\* Handle_BACK_TO_LOBBY
HandleBackToLobby(c) ==
  /\ Request(c)
  /\ InRoom(c)
  /\ handler' = [handler EXCEPT ![c] = "asking"]
  /\ UNCHANGED <<polite, entered, held, link, target, lobby, listed, jobs, inEnter, idOf, members,
                 exiting, room, used, undefined>>

\* ClientSession::Room, whose own shared_ptr ends with it
FindRoom(c) ==
  /\ ~undefined /\ handler[c] = "asking"
  /\ handler' = [handler EXCEPT ![c] = IF RoomOf(c) = None THEN "idle" ELSE "found"]
  /\ held' = [held EXCEPT ![c] = RoomOf(c)]
  /\ UNCHANGED <<polite, entered, requests, link, target, lobby, listed, jobs, inEnter, idOf,
                 members, exiting, room, used, late, undefined>>

\* the copy that keeps the room, if it is still there
KeepRoom(c) ==
  /\ ~undefined /\ handler[c] = "found"
  /\ undefined' = ~Alive(held[c])
  /\ handler' = [handler EXCEPT ![c] = IF Alive(held[c]) THEN "back" ELSE "found"]
  /\ UNCHANGED <<polite, entered, requests, held, link, target, lobby, listed, jobs, inEnter, idOf,
                 members, exiting, room, used, late>>

-----------------------------------------------------------------------------
(* Room *)

\* _clients.erase(client)
Erase(c, r) == members' = [members EXCEPT ![r] = @ \ {c}]

\* client->OnExitRoom()
OnExitRoom(c) == room' = [room EXCEPT ![c] = None]

\* Mutant: the size is tested as if the client had not been erased yet.
RemoveAlmostEmpty(r) ==
  IF Cardinality(members[r]) = 1 THEN ToLobby(Job("removeRoom", idOf[r]))
                                 ELSE UNCHANGED lobbyJobs

\* a room that is empty asks the lobby to remove it
RemoveIfEmpty(r) ==
  IF members[r] = {} THEN ToLobby(Job("removeRoom", idOf[r])) ELSE UNCHANGED lobbyJobs

BackToLobby(c) ==
  /\ ~undefined /\ handler[c] = "back"
  /\ Erase(c, held[c])
  /\ handler' = [handler EXCEPT ![c] = "erased"]
  /\ UNCHANGED <<polite, entered, requests, held, link, target, lobby, listed, jobs, inEnter, idOf,
                 exiting, room, used, late, undefined>>

BackToLobbyForgets(c) ==
  /\ ~undefined /\ handler[c] = "erased"
  /\ OnExitRoom(c)
  /\ handler' = [handler EXCEPT ![c] = "leaving"]
  /\ UNCHANGED <<polite, entered, requests, held, link, target, lobby, listed, jobs, inEnter, idOf,
                 members, exiting, used, late, undefined>>

BackToLobbyRemoves(c) ==
  /\ ~undefined /\ handler[c] = "leaving"
  /\ RemoveIfEmpty(held[c])
  /\ handler' = [handler EXCEPT ![c] = "left"]
  /\ UNCHANGED <<polite, entered, requests, held, link, target, lobby, listed, roomJobs, inEnter,
                 idOf, members, exiting, room, used, late, undefined>>

\* its last line, and the end of the handler
BackToLobbyAccepts(c) ==
  /\ ~undefined /\ handler[c] = "left"
  /\ ToLobby(Job("accept", c))
  /\ handler' = [handler EXCEPT ![c] = "idle"]
  /\ held' = [held EXCEPT ![c] = None]
  /\ UNCHANGED <<polite, entered, requests, link, target, lobby, listed, roomJobs, inEnter, idOf,
                 members, exiting, room, used, late, undefined>>

\* OnExitGame, a job of the room
OnExitGame(r) ==
  /\ ~undefined /\ roomJobs[r] # <<>> /\ exiting[r] = "idle"
  /\ Erase(Head(roomJobs[r]), r)
  /\ exiting' = [exiting EXCEPT ![r] = "erased"]
  /\ UNCHANGED <<polite, io, lobby, listed, jobs, inEnter, idOf, room, used, late, undefined>>

OnExitGameForgets(r) ==
  /\ ~undefined /\ exiting[r] = "erased"
  /\ OnExitRoom(Head(roomJobs[r]))
  /\ exiting' = [exiting EXCEPT ![r] = "leaving"]
  /\ UNCHANGED <<polite, io, lobby, listed, jobs, inEnter, idOf, members, used, late, undefined>>

OnExitGameRemoves(r) ==
  /\ ~undefined /\ exiting[r] = "leaving"
  /\ RemoveIfEmpty(r)
  /\ exiting' = [exiting EXCEPT ![r] = "idle"]
  /\ roomJobs' = [roomJobs EXCEPT ![r] = Tail(@)]
  /\ UNCHANGED <<polite, io, lobby, listed, inEnter, idOf, members, room, used, late, undefined>>

-----------------------------------------------------------------------------
(* Jobs of the lobby *)

Running(kind) ==
  /\ ~undefined /\ lobbyJobs # <<>> /\ lobbyJobs[1][1] = kind /\ entering = None

JobDone == lobbyJobs' = Tail(lobbyJobs)

AcceptClient ==
  /\ Running("accept")
  /\ lobby' = lobby \cup {Client}
  /\ JobDone
  /\ UNCHANGED <<polite, io, listed, roomJobs, inEnter, idOf, members, exiting, room,
                 used, late, undefined>>

RemoveClient ==
  /\ Running("removeClient")
  /\ lobby' = lobby \ {Client}
  /\ JobDone
  /\ UNCHANGED <<polite, io, listed, roomJobs, inEnter, idOf, members, exiting, room,
                 used, late, undefined>>

RemoveRoom ==
  /\ Running("removeRoom")
  /\ listed' = [listed EXCEPT ![lobbyJobs[1][2]] = None]
  /\ JobDone
  /\ UNCHANGED <<polite, io, lobby, roomJobs, inEnter, idOf, members, exiting, room,
                 used, late, undefined>>

\* Enter up to _clients.insert(client)
Insert(c, r) == /\ members' = [members EXCEPT ![r] = @ \cup {c}]
                /\ entering' = r
                /\ used' = used \cup {r}

\* a new room of the master's id, which no weak_ptr knows yet
NewRoom(c, r) ==
  /\ ~Alive(r) /\ ~Pointed(r)
  /\ listed' = [listed EXCEPT ![c] = r]
  /\ idOf' = [idOf EXCEPT ![r] = c]
  /\ members' = [members EXCEPT ![r] = {c}]
  /\ room' = [d \in Clients |-> IF room[d] = r THEN None ELSE room[d]]
  /\ entering' = r
  /\ used' = used \cup {r}

MakeRoom ==
  /\ Running("make")
  /\ IF listed[Client] = None
       THEN (\E r \in Rooms : NewRoom(Client, r)) /\ UNCHANGED lobbyJobs
       ELSE JobDone /\ UNCHANGED <<listed, idOf, members, room, entering, used>>
  /\ UNCHANGED <<polite, io, lobby, roomJobs, assigned, exiting, late, undefined>>

JoinRoom ==
  /\ Running("join")
  /\ listed[lobbyJobs[1][3]] # None
  /\ Insert(Client, listed[lobbyJobs[1][3]])
  /\ UNCHANGED <<polite, io, lobby, listed, jobs, assigned, exiting, idOf, room, late, undefined>>

\* there is no such room: the client leaves the lobby all the same
JoinNoRoom ==
  /\ Running("join")
  /\ listed[lobbyJobs[1][3]] = None
  /\ lobby' = lobby \ {Client}
  /\ JobDone
  /\ UNCHANGED <<polite, io, listed, roomJobs, inEnter, idOf, members, exiting, room,
                 used, late, undefined>>

\* client->EnterRoom, in Enter
EnterRoom ==
  /\ ~undefined /\ entering # None /\ ~assigned
  /\ room' = [room EXCEPT ![Client] = entering]
  /\ assigned' = TRUE
  /\ UNCHANGED <<polite, io, lobby, listed, jobs, entering, idOf, members, exiting,
                 used, late, undefined>>

\* Mutant: the client stays in the lobby.
EnteredInLobby ==
  /\ ~undefined /\ entering # None /\ assigned
  /\ JobDone
  /\ entering' = None /\ assigned' = FALSE
  /\ UNCHANGED <<polite, io, lobby, listed, roomJobs, idOf, members, exiting, room,
                 used, late, undefined>>

\* Enter has returned to MakeRoom or JoinRoom: _clients.erase(client)
Entered ==
  /\ ~undefined /\ entering # None /\ assigned
  /\ lobby' = lobby \ {Client}
  /\ JobDone
  /\ entering' = None /\ assigned' = FALSE
  /\ UNCHANGED <<polite, io, listed, roomJobs, idOf, members, exiting, room,
                 used, late, undefined>>

-----------------------------------------------------------------------------
(* ClientSessionManager::Remove, under its lock *)

\* the session leaves the manager
Remove(c) ==
  /\ ~undefined /\ link[c] = "connected" /\ \A d \in Clients : link[d] \in {"connected", "gone"}
  /\ late' = IF handler[c] # "idle" \/ JobsOf(c, {"make", "join"}) # {}
               THEN late \cup {c} ELSE late
  /\ link' = [link EXCEPT ![c] = "asking"]
  /\ UNCHANGED <<polite, entered, requests, handler, held, target, lobby, listed, jobs, inEnter,
                 idOf, members, exiting, room, used, undefined>>

\* Mutant: the room is not told.
RemoveForgetsRoom(c) ==
  /\ ~undefined /\ link[c] = "asking"
  /\ link' = [link EXCEPT ![c] = "removing"]
  /\ UNCHANGED <<polite, entered, requests, handler, held, target, lobby, listed, jobs, inEnter,
                 idOf, members, exiting, room, used, late, undefined>>

\* ClientSession::Room again
RemoveFindsRoom(c) ==
  /\ ~undefined /\ link[c] = "asking"
  /\ link' = [link EXCEPT ![c] = IF RoomOf(c) = None THEN "removing" ELSE "found"]
  /\ target' = RoomOf(c)
  /\ UNCHANGED <<polite, entered, requests, handler, held, lobby, listed, jobs, inEnter, idOf,
                 members, exiting, room, used, late, undefined>>

RemoveKeepsRoom(c) ==
  /\ ~undefined /\ link[c] = "found"
  /\ undefined' = ~Alive(target)
  /\ link' = [link EXCEPT ![c] = IF Alive(target) THEN "telling" ELSE "found"]
  /\ UNCHANGED <<polite, entered, requests, handler, held, target, lobby, listed, jobs, inEnter,
                 idOf, members, exiting, room, used, late>>

\* the room gets an OnExitGame
RemoveTellsRoom(c) ==
  /\ ~undefined /\ link[c] = "telling"
  /\ roomJobs' = [roomJobs EXCEPT ![target] = Append(@, c)]
  /\ link' = [link EXCEPT ![c] = "removing"]
  /\ target' = None
  /\ UNCHANGED <<polite, entered, requests, handler, held, lobby, listed, lobbyJobs, inEnter,
                 idOf, members, exiting, room, used, late, undefined>>

RemoveFromLobby(c) ==
  /\ ~undefined /\ link[c] = "removing"
  /\ ToLobby(Job("removeClient", c))
  /\ link' = [link EXCEPT ![c] = "gone"]
  /\ UNCHANGED <<polite, entered, requests, handler, held, target, lobby, listed, roomJobs, inEnter,
                 idOf, members, exiting, room, used, late, undefined>>

-----------------------------------------------------------------------------
Handle(c) == \/ HandleEnterGame(c) \/ HandleMakeRoom(c) \/ HandleBackToLobby(c)
             \/ \E i \in Ids : HandleJoinRoom(c, i)

HandlerStep(c) == \/ FindRoom(c) \/ KeepRoom(c) \/ BackToLobby(c) \/ BackToLobbyForgets(c)
                  \/ BackToLobbyRemoves(c) \/ BackToLobbyAccepts(c)

RemoveStep(c) == \/ Remove(c) \/ RemoveFindsRoom(c) \/ RemoveKeepsRoom(c)
                 \/ RemoveTellsRoom(c) \/ RemoveFromLobby(c)

RoomStep(r) == OnExitGame(r) \/ OnExitGameForgets(r) \/ OnExitGameRemoves(r)

LobbyStep == \/ AcceptClient \/ RemoveClient \/ RemoveRoom \/ MakeRoom
             \/ JoinRoom \/ JoinNoRoom \/ EnterRoom \/ Entered

Next == \/ \E c \in Clients : Handle(c) \/ HandlerStep(c) \/ RemoveStep(c)
        \/ \E r \in Rooms : RoomStep(r)
        \/ LobbyStep
        \/ DataRace

Spec == Init /\ [][Next]_vars

-----------------------------------------------------------------------------
(* Properties *)

\* the jobs of the lobby: what they do and to whom
LobbyJob == ({"accept", "make", "removeClient"} \X Clients)
              \cup ({"join"} \X Clients \X Ids) \cup ({"removeRoom"} \X Ids)

(* The variables have their types; only a living room is used or listed.    *)
TypeOK ==
  /\ polite \in BOOLEAN /\ undefined \in BOOLEAN
  /\ entered \subseteq Clients /\ requests \in 0..MaxRequests
  /\ handler \in [Clients -> {"idle", "asking", "found", "back", "erased", "leaving", "left"}]
  /\ held \in [Clients -> Rooms \cup {None}]
  /\ \A c \in Clients : held[c] = None <=> handler[c] \in {"idle", "asking"}
  /\ link \in [Clients -> {"connected", "asking", "found", "telling", "removing", "gone"}]
  /\ target \in Rooms \cup {None}
  /\ \A c \in Clients : link[c] \in {"found", "telling"} => target # None
  /\ \A c, d \in Clients : link[c] \notin {"connected", "gone"} /\ link[d] \notin {"connected", "gone"}
                             => c = d
  /\ lobby \subseteq Clients /\ late \subseteq Clients
  /\ listed \in [Ids -> Rooms \cup {None}]
  /\ \A i \in Ids : listed[i] # None => idOf[listed[i]] = i
  /\ lobbyJobs \in Seq(LobbyJob)
  /\ entering \in Rooms \cup {None} /\ assigned \in BOOLEAN
  /\ exiting \in [Rooms -> {"idle", "erased", "leaving"}] /\ used \subseteq Rooms
  /\ idOf \in [Rooms -> Ids] /\ members \in [Rooms -> SUBSET Clients]
  /\ roomJobs \in [Rooms -> Seq(Clients)]
  /\ room \in [Clients -> Rooms \cup {None}]

\* Some thread has erased a client of the room and will test the size.
BeingLeft(r) == \/ \E c \in Clients : handler[c] \in {"erased", "leaving"} /\ held[c] = r
                \/ exiting[r] # "idle"

(* A room of the list that was used and is empty is about to be removed:    *)
(* whoever leaves it at the same time, or enters it between the erase and   *)
(* the size test, one of those that leave finds it empty and asks for it    *)
(* (Room.cpp:24-27, 40-43).                                                 *)
EmptyRoomIsGoing ==
  \A i \in Ids : LET r == listed[i] IN
    r # None /\ r \in used /\ members[r] = {} =>
      BeingLeft(r) \/ \E j \in DOMAIN lobbyJobs : lobbyJobs[j] = Job("removeRoom", i)

\* The living rooms a client is in.
RoomsOf(c) == {r \in Rooms : Alive(r) /\ c \in members[r]}

\* The lobby's running job has put the client into a room.
Moving(c) == entering # None /\ Client = c

\* Some thread has erased the client and is about to call OnExitRoom.
Forgetting(c) == \/ handler[c] = "erased"
                 \/ \E r \in Rooms : exiting[r] = "erased" /\ Head(roomJobs[r]) = c

(* The lobby, the rooms and the session agree about where a client is, if   *)
(* it asks only when it was answered and had nothing under way when it was  *)
(* removed: it is in one room, and that is the one its session knows, or    *)
(* BACK_TO_LOBBY and Remove would leave it there for good; the session      *)
(* forgets a room it was erased from; and none is in a room and the lobby.  *)
(* But for the steps between: Enter and EnterRoom (Room.cpp:13-14), erase   *)
(* and OnExitRoom (21-22, 37-38), Enter and the lobby's erase               *)
(* (Lobby.cpp:46-48, 59-62).  Methods of a room on three kinds of thread    *)
(* may come between each other, Remove between any two steps.               *)
OnePlace ==
  \A c \in Clients : polite /\ c \notin late =>
    /\ Cardinality(RoomsOf(c)) <= 1
    /\ \A r \in RoomsOf(c) : room[c] = r \/ (Moving(c) /\ entering = r /\ ~assigned)
    /\ RoomOf(c) # None => c \in members[RoomOf(c)] \/ Forgetting(c)
    /\ c \in lobby /\ RoomsOf(c) # {} => Moving(c)

Nowhere(c) == c \notin lobby /\ RoomsOf(c) = {}

\* A job has yet to act on the client's place.
JobLeft(c) == \/ JobsOf(c, {"accept", "removeClient"}) # {}
              \/ \E r \in Rooms : \E j \in DOMAIN roomJobs[r] : roomJobs[r][j] = c

(* When the jobs that Remove pushed have run, the client is nowhere, if it  *)
(* asked only when it was answered and nothing of its own was under way     *)
(* when it was removed (ClientSessionManager.cpp:24-35).                    *)
GoneIsNowhere ==
  \A c \in Clients :
    polite /\ link[c] = "gone" /\ c \notin late /\ ~JobLeft(c) => Nowhere(c)
=============================================================================
