----------------------------- MODULE LobbyProofs -----------------------------
(***************************************************************************)
(* What Lobby promises for any number of clients, rooms and requests: an   *)
(* empty room is about to be removed, a client is in one place, and one    *)
(* that is gone is nowhere (EmptyRoomIsGoing, OnePlace, GoneIsNowhere).    *)
(*                                                                         *)
(* A client that waits for its answers has one job that moves it at most,  *)
(* and that job says where it is meanwhile: outside before it is accepted, *)
(* in the lobby while it asks for a room.  Only while the lobby is inside  *)
(* Enter for it may it be on its way back already, or waiting to be        *)
(* accepted again.  The room that its session knows is the only living one *)
(* it is in.  Once it is removed nothing new can begin for it, and what is *)
(* left of it is left to a job (Orderly).                                  *)
(***************************************************************************)
EXTENDS Lobby, TLAPS, FiniteSetTheorems, SequenceTheorems

-----------------------------------------------------------------------------
(* The inductive invariant *)

\* The client's jobs that put it into the lobby, take it out of it into a
\* room, and take it out of it for good.
Accepts(c)  == JobsOf(c, {"accept"})
Asks(c)     == JobsOf(c, {"join", "make"})
Removals(c) == JobsOf(c, {"removeClient"})

HasExit(c, r) == \E j \in DOMAIN roomJobs[r] : roomJobs[r][j] = c

JobsBegun ==
  /\ entering # None => lobbyJobs # <<>> /\ lobbyJobs[1][1] \in {"join", "make"}
  /\ assigned => entering # None
  /\ \A r \in Rooms : exiting[r] # "idle" => roomJobs[r] # <<>>

\* The lobby is between Insert and EnterRoom for the client, or behind EnterRoom.
Inserted(c) == Moving(c) /\ ~assigned
Assigned(c) == Moving(c) /\ assigned

OneRoom(c) ==
  /\ \A r \in RoomsOf(c) : /\ room[c] = r \/ (Inserted(c) /\ entering = r)
                           /\ c \in lobby => Moving(c) /\ entering = r
  /\ RoomOf(c) # None => c \in members[RoomOf(c)] \/ Forgetting(c)
  /\ Inserted(c) => RoomOf(c) = None /\ c \in members[entering]

\* One job at most is to move the client, but that it may be waiting for its
\* acceptance while the lobby's job is still inside Enter for it.
OneEach(c) == (\A i, k \in Accepts(c) : i = k) /\ (\A i, k \in Asks(c) : i = k)

OneMove(c) == OneEach(c) /\ (Accepts(c) # {} /\ Asks(c) # {} => Assigned(c))

\* A removal waits behind everything that would put the client into the lobby.
LeavesLast(c) == \E k \in Removals(c) : \A i \in Accepts(c) : i < k

OneJob(c) ==
  /\ OneMove(c)
  /\ Accepts(c) # {} => handler[c] = "idle" /\ RoomsOf(c) = {} /\ (c \in lobby => Assigned(c))
  /\ Asks(c) # {} => c \in lobby /\ link[c] = "connected"

HandlerOK(c) ==
  /\ handler[c] # "idle" => link[c] = "connected" /\ (c \in lobby => Assigned(c))
  /\ handler[c] \in {"found", "back"} => held[c] = room[c]
  /\ handler[c] \in {"erased", "leaving", "left"} => RoomsOf(c) = {}

NotEntered(c) ==
  c \notin entered => /\ Accepts(c) = {} /\ Asks(c) = {} /\ c \notin lobby
                      /\ handler[c] = "idle" /\ RoomsOf(c) = {}

ExitOK(c) ==
  /\ \A r \in Rooms : HasExit(c, r) => link[c] \in {"removing", "gone"} /\ RoomsOf(c) \subseteq {r}
  /\ \A r \in Rooms : exiting[r] # "idle" /\ Head(roomJobs[r]) = c => RoomsOf(c) = {}
  /\ link[c] \in {"found", "telling"} => RoomsOf(c) \subseteq {target}
  /\ link[c] \in {"removing", "gone"} => \A r \in RoomsOf(c) : HasExit(c, r)

RemovalOK(c) ==
  /\ Removals(c) # {} => link[c] = "gone"
  /\ link[c] = "gone" /\ (c \in lobby \/ Accepts(c) # {}) => LeavesLast(c)

Orderly(c) == /\ OneRoom(c) /\ OneJob(c) /\ HandlerOK(c) /\ NotEntered(c)
              /\ ExitOK(c) /\ RemovalOK(c)

IInv == /\ TypeOK /\ JobsBegun /\ EmptyRoomIsGoing
        /\ \A c \in Clients : polite /\ c \notin late => Orderly(c)
-----------------------------------------------------------------------------
(* The queue of the lobby *)

LEMMA JobFacts ==
  ASSUME NEW job \in LobbyJob
  PROVE  /\ job[1] \in {"accept", "make", "removeClient", "join", "removeRoom"}
         /\ job[1] # "removeRoom" => job[2] \in Clients
         /\ job[1] = "removeRoom" => job[2] \in Ids /\ job = Job("removeRoom", job[2])
         /\ job[1] = "join" => job[3] \in Ids
<1>1. CASE job \in {"accept", "make", "removeClient"} \X Clients
  BY <1>1
<1>2. CASE job \in {"join"} \X Clients \X Ids
  BY <1>2
<1>3. CASE job \in {"removeRoom"} \X Ids
  BY <1>3 DEF Job
<1> QED
  BY <1>1, <1>2, <1>3 DEF LobbyJob

LEMMA JobsMade ==
  /\ \A c \in Clients, kind \in {"accept", "make", "removeClient"} :
       /\ Job(kind, c) \in LobbyJob /\ Job(kind, c)[1] = kind /\ Job(kind, c)[2] = c
  /\ \A c \in Clients, i \in Ids :
       /\ <<"join", c, i>> \in LobbyJob /\ <<"join", c, i>>[1] = "join" /\ <<"join", c, i>>[2] = c
  /\ \A i \in Ids : /\ Job("removeRoom", i) \in LobbyJob
                    /\ Job("removeRoom", i)[1] = "removeRoom" /\ Job("removeRoom", i)[2] = i
BY DEF Job, LobbyJob

\* A job that is pushed is behind the others, and is the only new one.
LEMMA Pushed ==
  ASSUME TypeOK, NEW job \in LobbyJob, lobbyJobs' = Append(lobbyJobs, job)
  PROVE  /\ lobbyJobs' \in Seq(LobbyJob) /\ lobbyJobs' # <<>>
         /\ lobbyJobs # <<>> => lobbyJobs'[1] = lobbyJobs[1]
         /\ \A j \in DOMAIN lobbyJobs : j \in DOMAIN lobbyJobs' /\ lobbyJobs'[j] = lobbyJobs[j]
         /\ \E j \in DOMAIN lobbyJobs' : lobbyJobs'[j] = job
<1>1. lobbyJobs \in Seq(LobbyJob)
  BY DEF TypeOK
<1>2. PICK n \in Nat : n = Len(lobbyJobs)
  BY <1>1
<1>3. DOMAIN lobbyJobs = 1..n /\ (lobbyJobs # <<>> => n > 0)
  BY <1>1, <1>2
<1>4. /\ lobbyJobs' \in Seq(LobbyJob) /\ Len(lobbyJobs') = n + 1 /\ lobbyJobs'[n + 1] = job
      /\ \A j \in 1..n : lobbyJobs'[j] = lobbyJobs[j]
  BY <1>1, <1>2
<1>5. DOMAIN lobbyJobs' = 1..n + 1 /\ lobbyJobs' # <<>>
  BY <1>4
<1> QED
  BY <1>3, <1>4, <1>5

LEMMA PushedJobs ==
  ASSUME TypeOK, NEW job \in LobbyJob, lobbyJobs' = Append(lobbyJobs, job), NEW c \in Clients,
         NEW kinds
  PROVE  /\ JobsOf(c, kinds) \subseteq JobsOf(c, kinds)'
         /\ \A i \in JobsOf(c, kinds) : i \in Nat /\ i <= Len(lobbyJobs)
         /\ Len(lobbyJobs) + 1 \in Nat
         /\ job[1] \in kinds /\ job[2] = c =>
              JobsOf(c, kinds)' = JobsOf(c, kinds) \cup {Len(lobbyJobs) + 1}
         /\ ~(job[1] \in kinds /\ job[2] = c) => JobsOf(c, kinds)' = JobsOf(c, kinds)
<1>1. lobbyJobs \in Seq(LobbyJob)
  BY DEF TypeOK
<1>2. PICK n \in Nat : n = Len(lobbyJobs)
  BY <1>1
<1>3. DOMAIN lobbyJobs = 1..n
  BY <1>1, <1>2
<1>4. /\ lobbyJobs' \in Seq(LobbyJob) /\ Len(lobbyJobs') = n + 1 /\ lobbyJobs'[n + 1] = job
      /\ \A j \in 1..n : lobbyJobs'[j] = lobbyJobs[j]
  BY <1>1, <1>2
<1>5. DOMAIN lobbyJobs' = 1..n + 1
  BY <1>4
<1>6. PICK S : S = JobsOf(c, kinds)
  OBVIOUS
<1>7. PICK T : T = JobsOf(c, kinds)'
  OBVIOUS
<1>8. S = {i \in 1..n : lobbyJobs[i][1] \in kinds /\ lobbyJobs[i][2] = c}
  BY <1>3, <1>6 DEF JobsOf
<1>9. T = {i \in 1..n + 1 : lobbyJobs'[i][1] \in kinds /\ lobbyJobs'[i][2] = c}
  BY <1>5, <1>7 DEF JobsOf
<1>10. \A i \in 1..n : i \in T <=> i \in S
  BY <1>4, <1>8, <1>9
<1>11. n + 1 \in T <=> job[1] \in kinds /\ job[2] = c
  BY <1>4, <1>9
<1>12. S \subseteq 1..n /\ T \subseteq 1..n + 1
  BY <1>8, <1>9
<1>13. S \subseteq T
  BY <1>10, <1>12
<1>14. \A i \in 1..n + 1 : i \in 1..n \/ i = n + 1
  OBVIOUS
<1>15. ASSUME n + 1 \in T PROVE T = S \cup {n + 1}
  <2>1. \A i : i \in T <=> i \in S \/ i = n + 1
    BY <1>10, <1>12, <1>13, <1>14, <1>15, Zenon
  <2> QED
    BY <2>1
<1>16. ASSUME n + 1 \notin T PROVE T = S
  <2>1. \A i : i \in T <=> i \in S
    BY <1>10, <1>12, <1>13, <1>14, <1>16, Zenon
  <2> QED
    BY <2>1
<1> QED
  BY <1>2, <1>6, <1>7, <1>11, <1>12, <1>13, <1>15, <1>16

\* When the job at the head is done, the others move up by one.
LEMMA Popped ==
  ASSUME TypeOK, lobbyJobs # <<>>, lobbyJobs' = Tail(lobbyJobs)
  PROVE  /\ lobbyJobs' \in Seq(LobbyJob)
         /\ \A j \in DOMAIN lobbyJobs : j # 1 =>
              \E k \in DOMAIN lobbyJobs' : lobbyJobs'[k] = lobbyJobs[j]
         /\ \A c \in Clients : \A kinds :
              JobsOf(c, kinds)' = {i \in Nat \ {0} : i + 1 \in JobsOf(c, kinds)}
<1>1. lobbyJobs \in Seq(LobbyJob)
  BY DEF TypeOK
<1>2. PICK n \in Nat : n = Len(lobbyJobs) /\ n > 0
  BY <1>1
<1>3. DOMAIN lobbyJobs = 1..n
  BY <1>1, <1>2
<1>4. /\ lobbyJobs' \in Seq(LobbyJob) /\ Len(lobbyJobs') = n - 1
      /\ \A j \in 1..n - 1 : lobbyJobs'[j] = lobbyJobs[j + 1]
  BY <1>1, <1>2
<1>5. DOMAIN lobbyJobs' = 1..n - 1
  BY <1>4
<1>6. ASSUME NEW j \in 1..n, j # 1
      PROVE  \E k \in DOMAIN lobbyJobs' : lobbyJobs'[k] = lobbyJobs[j]
  <2>1. j - 1 \in 1..n - 1 /\ (j - 1) + 1 = j
    BY <1>6
  <2> QED
    BY <1>4, <1>5, <2>1
<1>7. ASSUME NEW c \in Clients, NEW kinds
      PROVE  JobsOf(c, kinds)' = {i \in Nat \ {0} : i + 1 \in JobsOf(c, kinds)}
  <2>1. JobsOf(c, kinds) = {i \in 1..n : lobbyJobs[i][1] \in kinds /\ lobbyJobs[i][2] = c}
    BY <1>3 DEF JobsOf
  <2>2. JobsOf(c, kinds)' = {i \in 1..n - 1 : lobbyJobs'[i][1] \in kinds /\ lobbyJobs'[i][2] = c}
    BY <1>5 DEF JobsOf
  <2>3. JobsOf(c, kinds)' = {i \in 1..n - 1 : lobbyJobs[i + 1][1] \in kinds
                                                /\ lobbyJobs[i + 1][2] = c}
    BY <1>4, <2>2
  <2>4. \A i \in Nat \ {0} : i + 1 \in 1..n <=> i \in 1..n - 1
    OBVIOUS
  <2> QED
    BY <2>1, <2>3, <2>4
<1> QED
  BY <1>3, <1>4, <1>6, <1>7
-----------------------------------------------------------------------------
(* The types *)

\* A job of the lobby's queue is pushed, done or neither.
QueueStep == \/ lobbyJobs' = lobbyJobs
             \/ \E job \in LobbyJob : lobbyJobs' = Append(lobbyJobs, job)
             \/ lobbyJobs # <<>> /\ lobbyJobs' = Tail(lobbyJobs)

LEMMA QueueType ==
  ASSUME TypeOK, QueueStep PROVE lobbyJobs' \in Seq(LobbyJob)
BY Pushed, Popped DEF QueueStep, TypeOK

\* The handler of a client and the room that it holds.
HandlerTyped ==
  /\ handler \in [Clients -> {"idle", "asking", "found", "back", "erased", "leaving", "left"}]
  /\ held \in [Clients -> Rooms \cup {None}]
  /\ \A c \in Clients : held[c] = None <=> handler[c] \in {"idle", "asking"}

LEMMA HandleType ==
  ASSUME TypeOK, NEW c \in Clients, Handle(c)
  PROVE  TypeOK' /\ QueueStep
<1>1. late' \subseteq Clients
  BY DEF Handle, HandleEnterGame, HandleMakeRoom, HandleJoinRoom, HandleBackToLobby, Request, Packet,
         TypeOK
<1>2. requests' \in 0..MaxRequests
  BY RequestsAreNat
  DEF Handle, HandleEnterGame, HandleMakeRoom, HandleJoinRoom, HandleBackToLobby, Request, TypeOK
<1>3. CASE HandleEnterGame(c)
  <2>1. QueueStep
    BY <1>3, JobsMade DEF HandleEnterGame, ToLobby, QueueStep
  <2> QED
    BY <1>1, <1>2, <1>3, <2>1, QueueType DEF HandleEnterGame, inEnter, TypeOK
<1>4. CASE HandleMakeRoom(c)
  <2>1. QueueStep
    BY <1>4, JobsMade DEF HandleMakeRoom, ToLobby, QueueStep
  <2> QED
    BY <1>1, <1>2, <1>4, <2>1, QueueType DEF HandleMakeRoom, inEnter, TypeOK
<1>5. CASE \E i \in Ids : HandleJoinRoom(c, i)
  <2>1. QueueStep
    BY <1>5, JobsMade DEF HandleJoinRoom, QueueStep
  <2> QED
    BY <1>1, <1>2, <1>5, <2>1, QueueType DEF HandleJoinRoom, inEnter, TypeOK
<1>6. CASE HandleBackToLobby(c)
  <2>1. QueueStep
    BY <1>6 DEF HandleBackToLobby, jobs, QueueStep
  <2>2. HandlerTyped'
    BY <1>6 DEF HandleBackToLobby, Request, Packet, HandlerTyped, TypeOK
  <2> QED
    BY <1>1, <1>2, <1>6, <2>1, <2>2, QueueType
    DEF HandleBackToLobby, HandlerTyped, jobs, inEnter, TypeOK
<1> QED
  BY <1>3, <1>4, <1>5, <1>6 DEF Handle

LEMMA HandlerType ==
  ASSUME TypeOK, NEW c \in Clients, HandlerStep(c)
  PROVE  TypeOK' /\ QueueStep
<1>1. CASE FindRoom(c)
  <2>1. QueueStep
    BY <1>1 DEF FindRoom, jobs, QueueStep
  <2>2. HandlerTyped'
    <3>1. CASE RoomOf(c) = None
      BY <1>1, <3>1 DEF FindRoom, HandlerTyped, TypeOK
    <3>2. CASE RoomOf(c) # None
      <4>1. PICK r \in Rooms : r = RoomOf(c)
        BY <3>2 DEF RoomOf, TypeOK
      <4>2. handler' = [handler EXCEPT ![c] = "found"] /\ held' = [held EXCEPT ![c] = r]
        BY <1>1, <3>2, <4>1 DEF FindRoom
      <4> QED
        BY <4>2, FirstIsARoom DEF HandlerTyped, TypeOK
    <3> QED
      BY <3>1, <3>2
  <2> QED
    BY <1>1, <2>1, <2>2, QueueType DEF FindRoom, HandlerTyped, jobs, inEnter, TypeOK
<1>2. CASE KeepRoom(c)
  <2>1. QueueStep
    BY <1>2 DEF KeepRoom, jobs, QueueStep
  <2>2. HandlerTyped'
    BY <1>2 DEF KeepRoom, HandlerTyped, TypeOK
  <2>3. undefined' \in BOOLEAN
    <3>1. undefined' = ~Alive(held[c])
      BY <1>2 DEF KeepRoom
    <3>2. undefined' = TRUE \/ undefined' = FALSE
      BY <3>1, Zenon
    <3> QED
      BY <3>2
  <2> QED
    BY <1>2, <2>1, <2>2, <2>3, QueueType DEF KeepRoom, HandlerTyped, jobs, inEnter, TypeOK
<1>3. CASE BackToLobby(c)
  <2>1. PICK r \in Rooms : r = held[c]
    BY <1>3 DEF BackToLobby, TypeOK
  <2>2. QueueStep
    BY <1>3 DEF BackToLobby, jobs, QueueStep
  <2>3. members' \in [Rooms -> SUBSET Clients] /\ HandlerTyped'
    BY <1>3, <2>1 DEF BackToLobby, Erase, HandlerTyped, TypeOK
  <2> QED
    BY <1>3, <2>2, <2>3, QueueType DEF BackToLobby, HandlerTyped, jobs, inEnter, TypeOK
<1>4. CASE BackToLobbyForgets(c)
  <2>1. QueueStep
    BY <1>4 DEF BackToLobbyForgets, jobs, QueueStep
  <2>2. room' \in [Clients -> Rooms \cup {None}] /\ HandlerTyped'
    BY <1>4 DEF BackToLobbyForgets, OnExitRoom, HandlerTyped, TypeOK
  <2> QED
    BY <1>4, <2>1, <2>2, QueueType DEF BackToLobbyForgets, HandlerTyped, jobs, inEnter, TypeOK
<1>5. CASE BackToLobbyRemoves(c)
  <2>1. PICK r \in Rooms : r = held[c]
    BY <1>5 DEF BackToLobbyRemoves, TypeOK
  <2>2. idOf[r] \in Ids
    BY DEF TypeOK
  <2>3. QueueStep
    BY <1>5, <2>1, <2>2, JobsMade DEF BackToLobbyRemoves, RemoveIfEmpty, ToLobby, QueueStep
  <2>4. HandlerTyped'
    BY <1>5 DEF BackToLobbyRemoves, HandlerTyped, TypeOK
  <2> QED
    BY <1>5, <2>3, <2>4, QueueType DEF BackToLobbyRemoves, HandlerTyped, inEnter, TypeOK
<1>6. CASE BackToLobbyAccepts(c)
  <2>1. QueueStep
    BY <1>6, JobsMade DEF BackToLobbyAccepts, ToLobby, QueueStep
  <2>2. HandlerTyped'
    BY <1>6 DEF BackToLobbyAccepts, HandlerTyped, TypeOK
  <2> QED
    BY <1>6, <2>1, <2>2, QueueType DEF BackToLobbyAccepts, HandlerTyped, inEnter, TypeOK
<1> QED
  BY <1>1, <1>2, <1>3, <1>4, <1>5, <1>6 DEF HandlerStep

LEMMA RoomType ==
  ASSUME TypeOK, JobsBegun, NEW r \in Rooms, RoomStep(r)
  PROVE  TypeOK' /\ QueueStep
<1>0. roomJobs[r] \in Seq(Clients) /\ roomJobs[r] # <<>>
  BY DEF RoomStep, OnExitGame, OnExitGameForgets, OnExitGameRemoves, JobsBegun, TypeOK
<1>1. Head(roomJobs[r]) \in Clients /\ Tail(roomJobs[r]) \in Seq(Clients)
  BY <1>0
<1>2. CASE OnExitGame(r)
  <2>1. QueueStep
    BY <1>2 DEF OnExitGame, jobs, QueueStep
  <2>2. members' \in [Rooms -> SUBSET Clients] /\ exiting' \in [Rooms -> {"idle", "erased", "leaving"}]
    BY <1>2 DEF OnExitGame, Erase, TypeOK
  <2> QED
    BY <1>2, <2>1, <2>2, QueueType DEF OnExitGame, io, jobs, inEnter, TypeOK
<1>3. CASE OnExitGameForgets(r)
  <2>1. QueueStep
    BY <1>3 DEF OnExitGameForgets, jobs, QueueStep
  <2>2. /\ room' \in [Clients -> Rooms \cup {None}]
        /\ exiting' \in [Rooms -> {"idle", "erased", "leaving"}]
    BY <1>3 DEF OnExitGameForgets, OnExitRoom, TypeOK
  <2> QED
    BY <1>3, <2>1, <2>2, QueueType DEF OnExitGameForgets, io, jobs, inEnter, TypeOK
<1>4. CASE OnExitGameRemoves(r)
  <2>1. idOf[r] \in Ids
    BY DEF TypeOK
  <2>2. QueueStep
    BY <1>4, <2>1, JobsMade DEF OnExitGameRemoves, RemoveIfEmpty, ToLobby, QueueStep
  <2>3. roomJobs' \in [Rooms -> Seq(Clients)] /\ exiting' \in [Rooms -> {"idle", "erased", "leaving"}]
    BY <1>1, <1>4 DEF OnExitGameRemoves, TypeOK
  <2> QED
    BY <1>4, <2>2, <2>3, QueueType DEF OnExitGameRemoves, io, inEnter, TypeOK
<1> QED
  BY <1>2, <1>3, <1>4 DEF RoomStep

LEMMA LobbyType ==
  ASSUME TypeOK, JobsBegun, LobbyStep
  PROVE  TypeOK' /\ QueueStep
<1>0. lobbyJobs # <<>>
  BY DEF LobbyStep, AcceptClient, RemoveClient, RemoveRoom, MakeRoom, JoinRoom, JoinNoRoom,
         EnterRoom, Entered, Running, JobsBegun
<1>1. PICK job \in LobbyJob : job = lobbyJobs[1]
  BY <1>0 DEF TypeOK
<1>2. QueueStep
  BY <1>0 DEF LobbyStep, AcceptClient, RemoveClient, RemoveRoom, MakeRoom, JoinRoom, JoinNoRoom,
              EnterRoom, Entered, JobDone, jobs, QueueStep
<1>3. lobbyJobs' \in Seq(LobbyJob)
  BY <1>2, QueueType
<1>4. CASE AcceptClient
  <2>1. job[2] \in Clients
    BY <1>1, <1>4, JobFacts DEF AcceptClient, Running
  <2> QED
    BY <1>1, <1>2, <1>3, <1>4, <2>1 DEF AcceptClient, Client, io, inEnter, TypeOK
<1>5. CASE RemoveClient \/ JoinNoRoom
  BY <1>2, <1>3, <1>5 DEF RemoveClient, JoinNoRoom, io, inEnter, TypeOK
<1>6. CASE RemoveRoom
  BY <1>2, <1>3, <1>6 DEF RemoveRoom, io, inEnter, TypeOK
<1>7. CASE MakeRoom
  <2>1. job[2] \in Clients
    BY <1>1, <1>7, JobFacts DEF MakeRoom, Running
  <2>2. CASE listed[Client] # None
    BY <1>2, <1>3, <1>7, <2>2 DEF MakeRoom, io, TypeOK
  <2>3. CASE listed[Client] = None
    <3>1. PICK c \in Clients : c = job[2] /\ c \in Ids
      BY <2>1 DEF Ids
    <3>2. PICK r \in Rooms : NewRoom(c, r)
      BY <1>1, <1>7, <2>3, <3>1 DEF MakeRoom, Client
    <3>3. /\ members' \in [Rooms -> SUBSET Clients] /\ room' \in [Clients -> Rooms \cup {None}]
          /\ entering' \in Rooms \cup {None} /\ used' \subseteq Rooms
      BY <3>2 DEF NewRoom, TypeOK
    <3>4. /\ listed' \in [Ids -> Rooms \cup {None}] /\ idOf' \in [Rooms -> Ids]
          /\ \A i \in Ids : listed'[i] # None => idOf'[listed'[i]] = i
      BY <3>1, <3>2 DEF NewRoom, Alive, TypeOK
    <3> QED
      BY <1>2, <1>3, <1>7, <3>3, <3>4 DEF MakeRoom, io, TypeOK
  <2> QED
    BY <2>2, <2>3
<1>8. CASE JoinRoom
  <2>1. job[2] \in Clients /\ job[3] \in Ids
    BY <1>1, <1>8, JobFacts DEF JoinRoom, Running
  <2>2. PICK r \in Rooms : r = listed[job[3]]
    BY <1>1, <1>8, <2>1 DEF JoinRoom, TypeOK
  <2>3. /\ members' \in [Rooms -> SUBSET Clients] /\ entering' \in Rooms \cup {None}
        /\ used' \subseteq Rooms
    BY <1>1, <1>8, <2>1, <2>2 DEF JoinRoom, Insert, Client, TypeOK
  <2> QED
    BY <1>2, <1>3, <1>8, <2>3 DEF JoinRoom, jobs, io, TypeOK
<1>9. CASE EnterRoom
  <2>1. room' \in [Clients -> Rooms \cup {None}]
    BY <1>9 DEF EnterRoom, TypeOK
  <2> QED
    BY <1>2, <1>3, <1>9, <2>1 DEF EnterRoom, jobs, io, TypeOK
<1>10. CASE Entered
  BY <1>2, <1>3, <1>10 DEF Entered, io, TypeOK
<1> QED
  BY <1>4, <1>5, <1>6, <1>7, <1>8, <1>9, <1>10 DEF LobbyStep

\* The manager removes one client at a time, and the room it found is a room.
RemoveTyped ==
  /\ link \in [Clients -> {"connected", "asking", "found", "telling", "removing", "gone"}]
  /\ target \in Rooms \cup {None}
  /\ \A c \in Clients : link[c] \in {"found", "telling"} => target # None
  /\ \A c, d \in Clients :
       link[c] \notin {"connected", "gone"} /\ link[d] \notin {"connected", "gone"} => c = d

LEMMA ManagerType ==
  ASSUME TypeOK, NEW c \in Clients, RemoveStep(c)
  PROVE  TypeOK' /\ QueueStep
<1>1. CASE Remove(c)
  <2>1. late' \subseteq Clients /\ RemoveTyped'
    BY <1>1 DEF Remove, RemoveTyped, TypeOK
  <2>2. QueueStep
    BY <1>1 DEF Remove, jobs, QueueStep
  <2> QED
    BY <1>1, <2>1, <2>2, QueueType DEF Remove, RemoveTyped, jobs, inEnter, TypeOK
<1>2. CASE RemoveFindsRoom(c)
  <2>1. RoomOf(c) \in Rooms \cup {None}
    BY DEF RoomOf, TypeOK
  <2>2. RemoveTyped'
    BY <1>2, <2>1 DEF RemoveFindsRoom, RemoveTyped, TypeOK
  <2>3. QueueStep
    BY <1>2 DEF RemoveFindsRoom, jobs, QueueStep
  <2> QED
    BY <1>2, <2>2, <2>3, QueueType DEF RemoveFindsRoom, RemoveTyped, jobs, inEnter, TypeOK
<1>3. CASE RemoveKeepsRoom(c)
  <2>1. RemoveTyped'
    BY <1>3 DEF RemoveKeepsRoom, RemoveTyped, TypeOK
  <2>2. undefined' \in BOOLEAN
    <3>1. undefined' = ~Alive(target)
      BY <1>3 DEF RemoveKeepsRoom
    <3>2. undefined' = TRUE \/ undefined' = FALSE
      BY <3>1, Zenon
    <3> QED
      BY <3>2
  <2>3. QueueStep
    BY <1>3 DEF RemoveKeepsRoom, jobs, QueueStep
  <2> QED
    BY <1>3, <2>1, <2>2, <2>3, QueueType DEF RemoveKeepsRoom, RemoveTyped, jobs, inEnter, TypeOK
<1>4. CASE RemoveTellsRoom(c)
  <2>1. \A r \in Rooms : Append(roomJobs[r], c) \in Seq(Clients)
    BY DEF TypeOK
  <2>2. roomJobs' \in [Rooms -> Seq(Clients)] /\ RemoveTyped'
    BY <1>4, <2>1 DEF RemoveTellsRoom, RemoveTyped, TypeOK
  <2>3. QueueStep
    BY <1>4 DEF RemoveTellsRoom, QueueStep
  <2> QED
    BY <1>4, <2>2, <2>3, QueueType DEF RemoveTellsRoom, RemoveTyped, inEnter, TypeOK
<1>5. CASE RemoveFromLobby(c)
  <2>1. QueueStep
    BY <1>5, JobsMade DEF RemoveFromLobby, ToLobby, QueueStep
  <2>2. RemoveTyped'
    BY <1>5 DEF RemoveFromLobby, RemoveTyped, TypeOK
  <2> QED
    BY <1>5, <2>1, <2>2, QueueType DEF RemoveFromLobby, RemoveTyped, inEnter, TypeOK
<1> QED
  BY <1>1, <1>2, <1>3, <1>4, <1>5 DEF RemoveStep

LEMMA TypeStep ==
  ASSUME TypeOK, JobsBegun, [Next]_vars
  PROVE  TypeOK' /\ QueueStep
<1>1. CASE UNCHANGED vars
  BY <1>1 DEF vars, io, jobs, inEnter, TypeOK, QueueStep
<1>2. CASE DataRace
  BY <1>2 DEF DataRace, io, jobs, inEnter, TypeOK, QueueStep
<1> QED
  BY <1>1, <1>2, HandleType, HandlerType, RoomType, LobbyType, ManagerType DEF Next

\* The job at the head is begun by the lobby alone, a room's by its own job.
LEMMA BegunStep ==
  ASSUME TypeOK, JobsBegun, [Next]_vars
  PROVE  JobsBegun'
<1>1. ASSUME NEW job \in LobbyJob, lobbyJobs' = Append(lobbyJobs, job), lobbyJobs # <<>>
      PROVE  lobbyJobs' # <<>> /\ lobbyJobs'[1] = lobbyJobs[1]
  BY <1>1, Pushed
<1>2. ASSUME UNCHANGED <<entering, assigned, exiting, roomJobs>>,
             \/ lobbyJobs' = lobbyJobs
             \/ \E job \in LobbyJob : lobbyJobs' = Append(lobbyJobs, job)
      PROVE  JobsBegun'
  BY <1>1, <1>2 DEF JobsBegun
<1>3. ASSUME NEW c \in Clients, Handle(c) PROVE JobsBegun'
  BY <1>2, <1>3, JobsMade DEF Handle, HandleEnterGame, HandleMakeRoom, HandleJoinRoom,
     HandleBackToLobby, ToLobby, jobs, inEnter
<1>4. ASSUME NEW c \in Clients, HandlerStep(c) PROVE JobsBegun'
  <2>1. CASE FindRoom(c) \/ KeepRoom(c) \/ BackToLobby(c) \/ BackToLobbyForgets(c)
    BY <1>2, <2>1 DEF FindRoom, KeepRoom, BackToLobby, BackToLobbyForgets, jobs, inEnter
  <2>2. CASE BackToLobbyRemoves(c)
    <3>1. idOf[held[c]] \in Ids
      BY <2>2 DEF BackToLobbyRemoves, TypeOK
    <3> QED
      BY <1>2, <2>2, <3>1, JobsMade DEF BackToLobbyRemoves, RemoveIfEmpty, ToLobby, inEnter
  <2>3. CASE BackToLobbyAccepts(c)
    BY <1>2, <2>3, JobsMade DEF BackToLobbyAccepts, ToLobby, inEnter
  <2> QED
    BY <1>4, <2>1, <2>2, <2>3 DEF HandlerStep
<1>5. ASSUME NEW r \in Rooms, RoomStep(r) PROVE JobsBegun'
  <2>1. CASE OnExitGame(r) \/ OnExitGameForgets(r)
    BY <2>1 DEF OnExitGame, OnExitGameForgets, jobs, inEnter, JobsBegun, TypeOK
  <2>2. CASE OnExitGameRemoves(r)
    <3>1. idOf[r] \in Ids
      BY DEF TypeOK
    <3>2. \/ lobbyJobs' = lobbyJobs
          \/ \E job \in LobbyJob : lobbyJobs' = Append(lobbyJobs, job)
      BY <2>2, <3>1, JobsMade DEF OnExitGameRemoves, RemoveIfEmpty, ToLobby
    <3>3. /\ UNCHANGED <<entering, assigned>> /\ exiting'[r] = "idle"
          /\ \A s \in Rooms : s # r => roomJobs'[s] = roomJobs[s] /\ exiting'[s] = exiting[s]
      BY <2>2 DEF OnExitGameRemoves, inEnter, TypeOK
    <3> QED
      BY <1>1, <3>2, <3>3 DEF JobsBegun
  <2> QED
    BY <1>5, <2>1, <2>2 DEF RoomStep
<1>6. ASSUME NEW c \in Clients, RemoveStep(c) PROVE JobsBegun'
  <2>1. CASE Remove(c) \/ RemoveFindsRoom(c) \/ RemoveKeepsRoom(c)
    BY <1>2, <2>1 DEF Remove, RemoveFindsRoom, RemoveKeepsRoom, jobs, inEnter
  <2>2. CASE RemoveTellsRoom(c)
    <3>1. \A s \in Seq(Clients) : Append(s, c) # <<>>
      OBVIOUS
    <3>2. \A r \in Rooms : roomJobs[r] # <<>> => roomJobs'[r] # <<>>
      BY <2>2, <3>1 DEF RemoveTellsRoom, TypeOK
    <3>3. UNCHANGED <<entering, assigned, exiting, lobbyJobs>>
      BY <2>2 DEF RemoveTellsRoom, inEnter
    <3> QED
      BY <3>2, <3>3 DEF JobsBegun
  <2>3. CASE RemoveFromLobby(c)
    BY <1>2, <2>3, JobsMade DEF RemoveFromLobby, ToLobby, inEnter
  <2> QED
    BY <1>6, <2>1, <2>2, <2>3 DEF RemoveStep
<1>7. CASE LobbyStep
  <2>1. CASE AcceptClient \/ RemoveClient \/ RemoveRoom \/ JoinNoRoom \/ EnterRoom \/ Entered
    BY <2>1 DEF AcceptClient, RemoveClient, RemoveRoom, JoinNoRoom, EnterRoom, Entered, Running,
                jobs, inEnter, JobsBegun
  <2>2. CASE MakeRoom
    <3>1. CASE listed[Client] # None
      BY <2>2, <3>1 DEF MakeRoom, Running, JobsBegun
    <3>2. CASE listed[Client] = None
      <4>1. PICK r \in Rooms : NewRoom(Client, r)
        BY <2>2, <3>2 DEF MakeRoom
      <4>2. entering' = r /\ UNCHANGED <<assigned, lobbyJobs, exiting, roomJobs>>
        BY <2>2, <3>2, <4>1 DEF MakeRoom, NewRoom
      <4>3. lobbyJobs # <<>> /\ lobbyJobs[1][1] = "make" /\ r # None
        BY <2>2, FirstIsARoom DEF MakeRoom, Running
      <4> QED
        BY <4>2, <4>3 DEF JobsBegun
    <3> QED
      BY <3>1, <3>2
  <2>3. CASE JoinRoom
    <3>1. lobbyJobs # <<>> /\ lobbyJobs[1][1] = "join"
      BY <2>3 DEF JoinRoom, Running
    <3>2. entering' # None /\ UNCHANGED <<assigned, lobbyJobs, exiting, roomJobs>>
      BY <2>3 DEF JoinRoom, Insert, jobs
    <3> QED
      BY <3>1, <3>2 DEF JobsBegun
  <2> QED
    BY <1>7, <2>1, <2>2, <2>3 DEF LobbyStep
<1>8. CASE UNCHANGED vars \/ DataRace
  BY <1>8 DEF vars, DataRace, jobs, inEnter, JobsBegun
<1> QED
  BY <1>3, <1>4, <1>5, <1>6, <1>7, <1>8 DEF Next
-----------------------------------------------------------------------------
(* The removal of empty rooms *)

\* The removal of a room that is waiting in the lobby's queue.
AskedGone(i) == \E j \in DOMAIN lobbyJobs : lobbyJobs[j] = Job("removeRoom", i)

LEMMA GoingFrame ==
  ASSUME EmptyRoomIsGoing, NEW r \in Rooms, NEW i \in Ids, listed[i] = r,
         r \in used, members[r] = {},
         BeingLeft(r) => BeingLeft(r)' \/ AskedGone(i)',
         AskedGone(i) => AskedGone(i)'
  PROVE  BeingLeft(r)' \/ AskedGone(i)'
<1>1. r # None
  BY FirstIsARoom
<1>2. BeingLeft(r) \/ AskedGone(i)
  BY <1>1 DEF EmptyRoomIsGoing, AskedGone
<1> QED
  BY <1>2

\* A push keeps the removals that wait, and so does the end of another job.
LEMMA AskedStays ==
  ASSUME TypeOK, NEW i \in Ids, AskedGone(i),
         \/ lobbyJobs' = lobbyJobs
         \/ \E job \in LobbyJob : lobbyJobs' = Append(lobbyJobs, job)
         \/ lobbyJobs # <<>> /\ lobbyJobs' = Tail(lobbyJobs)
              /\ (lobbyJobs[1][1] # "removeRoom" \/ lobbyJobs[1][2] # i)
  PROVE  AskedGone(i)'
<1>1. PICK j \in DOMAIN lobbyJobs : lobbyJobs[j] = Job("removeRoom", i)
  BY DEF AskedGone
<1>2. lobbyJobs[j][1] = "removeRoom" /\ lobbyJobs[j][2] = i
  BY <1>1 DEF Job
<1>3. CASE lobbyJobs' = lobbyJobs
  BY <1>3 DEF AskedGone
<1>4. CASE \E job \in LobbyJob : lobbyJobs' = Append(lobbyJobs, job)
  BY <1>1, <1>4, Pushed DEF AskedGone
<1>5. CASE lobbyJobs # <<>> /\ lobbyJobs' = Tail(lobbyJobs)
              /\ (lobbyJobs[1][1] # "removeRoom" \/ lobbyJobs[1][2] # i)
  <2>1. j # 1
    BY <1>2, <1>5
  <2> QED
    BY <1>1, <1>5, <2>1, Popped DEF AskedGone
<1> QED
  BY <1>3, <1>4, <1>5

\* A room that is tested when it is empty asks for its removal.
LEMMA EmptyAsks ==
  ASSUME TypeOK, NEW r \in Rooms, NEW i \in Ids, listed[i] = r, members[r] = {}, RemoveIfEmpty(r)
  PROVE  AskedGone(i)'
<1>1. idOf[r] = i
  BY FirstIsARoom DEF TypeOK
<1>2. lobbyJobs' = Append(lobbyJobs, Job("removeRoom", i))
  BY <1>1 DEF RemoveIfEmpty, ToLobby
<1> QED
  BY <1>2, JobsMade, Pushed DEF AskedGone

LEMMA EmptyStep ==
  ASSUME TypeOK, JobsBegun, EmptyRoomIsGoing, [Next]_vars, TypeOK'
  PROVE  EmptyRoomIsGoing'
<1> SUFFICES ASSUME NEW i \in Ids, NEW r \in Rooms, listed'[i] = r, r \in used', members'[r] = {}
             PROVE  BeingLeft(r)' \/ AskedGone(i)'
  BY DEF EmptyRoomIsGoing, AskedGone, TypeOK
<1>1. ASSUME NEW c \in Clients, Handle(c) PROVE BeingLeft(r)' \/ AskedGone(i)'
  <2>1. UNCHANGED <<listed, used, members, exiting>>
    BY <1>1 DEF Handle, HandleEnterGame, HandleMakeRoom, HandleJoinRoom, HandleBackToLobby
  <2>2. BeingLeft(r) => BeingLeft(r)'
    <3>1. \A d \in Clients : handler[d] \in {"erased", "leaving"} =>
            handler'[d] = handler[d] /\ held'[d] = held[d]
      BY <1>1 DEF Handle, HandleEnterGame, HandleMakeRoom, HandleJoinRoom, HandleBackToLobby,
                  Request, Packet, TypeOK
    <3> QED
      BY <2>1, <3>1 DEF BeingLeft
  <2>3. \/ lobbyJobs' = lobbyJobs
        \/ \E job \in LobbyJob : lobbyJobs' = Append(lobbyJobs, job)
    BY <1>1, JobsMade DEF Handle, HandleEnterGame, HandleMakeRoom, HandleJoinRoom,
                          HandleBackToLobby, ToLobby, jobs
  <2>4. AskedGone(i) => AskedGone(i)'
    BY <2>3, AskedStays
  <2> QED
    BY <2>1, <2>2, <2>4, GoingFrame
<1>2. ASSUME NEW c \in Clients, FindRoom(c) \/ KeepRoom(c) \/ BackToLobbyForgets(c)
      PROVE  BeingLeft(r)' \/ AskedGone(i)'
  <2>1. /\ UNCHANGED <<listed, used, members, exiting, lobbyJobs>>
        /\ \A d \in Clients : handler[d] \in {"erased", "leaving"} =>
             handler'[d] \in {"erased", "leaving"} /\ held'[d] = held[d]
    BY <1>2 DEF FindRoom, KeepRoom, BackToLobbyForgets, jobs, TypeOK
  <2>2. (BeingLeft(r) => BeingLeft(r)') /\ (AskedGone(i) => AskedGone(i)')
    BY <2>1 DEF BeingLeft, AskedGone
  <2> QED
    BY <2>1, <2>2, GoingFrame
<1>3. ASSUME NEW c \in Clients, BackToLobby(c) PROVE BeingLeft(r)' \/ AskedGone(i)'
  <2>1. PICK s \in Rooms : s = held[c]
    BY <1>3 DEF BackToLobby, TypeOK
  <2>2. /\ UNCHANGED <<listed, used, lobbyJobs, exiting, held>> /\ handler'[c] = "erased"
        /\ handler[c] = "back"
        /\ \A d \in Clients : d # c => handler'[d] = handler[d]
        /\ \A q \in Rooms : q # s => members'[q] = members[q]
    BY <1>3, <2>1 DEF BackToLobby, Erase, jobs, TypeOK
  <2>3. CASE r = s
    BY <2>1, <2>2, <2>3 DEF BeingLeft
  <2>4. CASE r # s
    <3>1. BeingLeft(r) => BeingLeft(r)'
      BY <2>2 DEF BeingLeft
    <3>2. AskedGone(i) => AskedGone(i)'
      BY <2>2 DEF AskedGone
    <3> QED
      BY <2>2, <2>4, <3>1, <3>2, GoingFrame
  <2> QED
    BY <2>3, <2>4
<1>4. ASSUME NEW c \in Clients, BackToLobbyRemoves(c) PROVE BeingLeft(r)' \/ AskedGone(i)'
  <2>1. PICK s \in Rooms : s = held[c]
    BY <1>4 DEF BackToLobbyRemoves, TypeOK
  <2>2. /\ UNCHANGED <<listed, used, members, exiting, held>>
        /\ RemoveIfEmpty(s)
        /\ \A d \in Clients : d # c => handler'[d] = handler[d]
    BY <1>4, <2>1 DEF BackToLobbyRemoves, TypeOK
  <2>3. CASE r = s
    BY <2>2, <2>3, EmptyAsks
  <2>4. CASE r # s
    <3>1. BeingLeft(r) => BeingLeft(r)'
      BY <2>1, <2>2, <2>4 DEF BeingLeft
    <3>2. idOf[s] \in Ids
      BY DEF TypeOK
    <3>3. AskedGone(i) => AskedGone(i)'
      BY <2>2, <3>2, JobsMade, AskedStays DEF RemoveIfEmpty, ToLobby
    <3> QED
      BY <2>2, <3>1, <3>3, GoingFrame
  <2> QED
    BY <2>3, <2>4
<1>5. ASSUME NEW c \in Clients, BackToLobbyAccepts(c) PROVE BeingLeft(r)' \/ AskedGone(i)'
  <2>1. /\ UNCHANGED <<listed, used, members, exiting>> /\ handler[c] = "left"
        /\ \A d \in Clients : d # c => handler'[d] = handler[d] /\ held'[d] = held[d]
    BY <1>5 DEF BackToLobbyAccepts, TypeOK
  <2>2. BeingLeft(r) => BeingLeft(r)'
    BY <2>1 DEF BeingLeft
  <2>3. AskedGone(i) => AskedGone(i)'
    BY <1>5, JobsMade, AskedStays DEF BackToLobbyAccepts, ToLobby
  <2> QED
    BY <2>1, <2>2, <2>3, GoingFrame
<1>6. ASSUME NEW s \in Rooms, OnExitGame(s) \/ OnExitGameForgets(s)
      PROVE  BeingLeft(r)' \/ AskedGone(i)'
  <2>1. /\ UNCHANGED <<listed, used, lobbyJobs, handler, held>> /\ exiting'[s] # "idle"
        /\ \A q \in Rooms : q # s => members'[q] = members[q] /\ exiting'[q] = exiting[q]
    BY <1>6 DEF OnExitGame, OnExitGameForgets, Erase, io, jobs, TypeOK
  <2>2. CASE r = s
    BY <2>1, <2>2 DEF BeingLeft
  <2>3. CASE r # s
    <3>1. BeingLeft(r) => BeingLeft(r)'
      BY <2>1, <2>3 DEF BeingLeft
    <3>2. AskedGone(i) => AskedGone(i)'
      BY <2>1 DEF AskedGone
    <3> QED
      BY <2>1, <2>3, <3>1, <3>2, GoingFrame
  <2> QED
    BY <2>2, <2>3
<1>7. ASSUME NEW s \in Rooms, OnExitGameRemoves(s) PROVE BeingLeft(r)' \/ AskedGone(i)'
  <2>1. /\ UNCHANGED <<listed, used, members, handler, held>>
        /\ RemoveIfEmpty(s) /\ \A q \in Rooms : q # s => exiting'[q] = exiting[q]
    BY <1>7 DEF OnExitGameRemoves, io, TypeOK
  <2>2. CASE r = s
    BY <2>1, <2>2, EmptyAsks
  <2>3. CASE r # s
    <3>1. BeingLeft(r) => BeingLeft(r)'
      BY <2>1, <2>3 DEF BeingLeft
    <3>2. idOf[s] \in Ids
      BY DEF TypeOK
    <3>3. AskedGone(i) => AskedGone(i)'
      BY <2>1, <3>2, JobsMade, AskedStays DEF RemoveIfEmpty, ToLobby
    <3> QED
      BY <2>1, <3>1, <3>3, GoingFrame
  <2> QED
    BY <2>2, <2>3
<1>8. ASSUME NEW c \in Clients, RemoveStep(c) PROVE BeingLeft(r)' \/ AskedGone(i)'
  <2>1. UNCHANGED <<listed, used, members, exiting, handler, held>>
    BY <1>8 DEF RemoveStep, Remove, RemoveFindsRoom, RemoveKeepsRoom, RemoveTellsRoom,
                RemoveFromLobby
  <2>2. BeingLeft(r) => BeingLeft(r)'
    BY <2>1 DEF BeingLeft
  <2>3. AskedGone(i) => AskedGone(i)'
    BY <1>8, JobsMade, AskedStays
    DEF RemoveStep, Remove, RemoveFindsRoom, RemoveKeepsRoom, RemoveTellsRoom, RemoveFromLobby,
        ToLobby, jobs
  <2> QED
    BY <2>1, <2>2, <2>3, GoingFrame
<1>9. ASSUME AcceptClient \/ RemoveClient \/ JoinNoRoom \/ RemoveRoom
      PROVE  BeingLeft(r)' \/ AskedGone(i)'
  <2>1. /\ UNCHANGED <<used, members, exiting, handler, held>>
        /\ lobbyJobs # <<>> /\ lobbyJobs' = Tail(lobbyJobs)
    BY <1>9 DEF AcceptClient, RemoveClient, JoinNoRoom, RemoveRoom, Running, JobDone, io
  <2>2. /\ listed[i] = r
        /\ lobbyJobs[1][1] # "removeRoom" \/ lobbyJobs[1][2] # i
    BY <1>9, FirstIsARoom
    DEF AcceptClient, RemoveClient, JoinNoRoom, RemoveRoom, Running, TypeOK
  <2>3. BeingLeft(r) => BeingLeft(r)'
    BY <2>1 DEF BeingLeft
  <2>4. AskedGone(i) => AskedGone(i)'
    BY <2>1, <2>2, AskedStays
  <2> QED
    BY <2>1, <2>2, <2>3, <2>4, GoingFrame
<1>10. CASE MakeRoom /\ listed[Client] # None
  <2>1. /\ UNCHANGED <<listed, used, members, exiting, handler, held>>
        /\ lobbyJobs # <<>> /\ lobbyJobs' = Tail(lobbyJobs) /\ lobbyJobs[1][1] = "make"
    BY <1>10 DEF MakeRoom, Running, JobDone, io
  <2>2. BeingLeft(r) => BeingLeft(r)'
    BY <2>1 DEF BeingLeft
  <2>3. AskedGone(i) => AskedGone(i)'
    BY <2>1, AskedStays
  <2> QED
    BY <2>1, <2>2, <2>3, GoingFrame
<1>11. CASE (MakeRoom /\ listed[Client] = None) \/ JoinRoom
  <2>1. PICK s \in Rooms :
          /\ UNCHANGED <<exiting, handler, held, lobbyJobs>>
          /\ used' = used \cup {s} /\ members'[s] # {}
          /\ listed'[i] = s \/ listed'[i] = listed[i]
          /\ \A q \in Rooms : q # s => members'[q] = members[q]
    <3>0. lobbyJobs # <<>> /\ lobbyJobs[1] \in LobbyJob
      BY <1>11 DEF MakeRoom, JoinRoom, Running, TypeOK
    <3>1. CASE MakeRoom /\ listed[Client] = None
      <4>1. PICK s \in Rooms : NewRoom(Client, s)
        BY <3>1 DEF MakeRoom
      <4>2. UNCHANGED <<exiting, handler, held, lobbyJobs>>
        BY <3>1 DEF MakeRoom, Running, io
      <4>3. /\ used' = used \cup {s} /\ members'[s] = {Client}
            /\ listed'[i] = s \/ listed'[i] = listed[i]
            /\ \A q \in Rooms : q # s => members'[q] = members[q]
        BY <4>1 DEF NewRoom, TypeOK
      <4> QED
        BY <4>2, <4>3
    <3>2. CASE JoinRoom
      <4>1. lobbyJobs[1][3] \in Ids
        BY <3>0, <3>2, JobFacts DEF JoinRoom, Running
      <4>2. PICK s \in Rooms : s = listed[lobbyJobs[1][3]]
        BY <3>2, <4>1 DEF JoinRoom, TypeOK
      <4>3. UNCHANGED <<exiting, handler, held, lobbyJobs, listed>>
        BY <3>2 DEF JoinRoom, io, jobs
      <4>4. /\ used' = used \cup {s} /\ Client \in members'[s]
            /\ \A q \in Rooms : q # s => members'[q] = members[q]
        BY <3>2, <4>2 DEF JoinRoom, Insert, TypeOK
      <4> QED
        BY <4>3, <4>4
    <3> QED
      BY <1>11, <3>1, <3>2
  <2>2. r # s /\ listed[i] = r /\ r \in used
    BY <2>1
  <2>3. BeingLeft(r) => BeingLeft(r)'
    BY <2>1 DEF BeingLeft
  <2>4. AskedGone(i) => AskedGone(i)'
    BY <2>1 DEF AskedGone
  <2> QED
    BY <2>1, <2>2, <2>3, <2>4, GoingFrame
<1>12. CASE Entered
  <2>1. /\ UNCHANGED <<listed, used, members, exiting, handler, held>>
        /\ entering # None /\ lobbyJobs' = Tail(lobbyJobs)
    BY <1>12 DEF Entered, JobDone, io
  <2>2. lobbyJobs # <<>> /\ lobbyJobs[1][1] \in {"join", "make"}
    BY <2>1 DEF JobsBegun
  <2>3. BeingLeft(r) => BeingLeft(r)'
    BY <2>1 DEF BeingLeft
  <2>4. AskedGone(i) => AskedGone(i)'
    BY <2>1, <2>2, AskedStays
  <2> QED
    BY <2>1, <2>3, <2>4, GoingFrame
<1>13. CASE EnterRoom \/ DataRace \/ UNCHANGED vars
  <2>1. UNCHANGED <<listed, used, members, exiting, handler, held, lobbyJobs>>
    BY <1>13 DEF EnterRoom, DataRace, vars, io, jobs
  <2>2. (BeingLeft(r) => BeingLeft(r)') /\ (AskedGone(i) => AskedGone(i)')
    BY <2>1 DEF BeingLeft, AskedGone
  <2> QED
    BY <2>1, <2>2, GoingFrame
<1> QED
  BY <1>1, <1>2, <1>3, <1>4, <1>5, <1>6, <1>7, <1>8, <1>9, <1>10, <1>11, <1>12, <1>13
  DEF Next, HandlerStep, RoomStep, LobbyStep
-----------------------------------------------------------------------------
(* The place of one client: what a step leaves of its jobs and rooms *)

\* The step is not about the client's jobs.
QueueKept(c) == /\ Accepts(c) = {} => Accepts(c)' = {}
                /\ Asks(c) = {} => Asks(c)' = {}
                /\ Removals(c) = {} => Removals(c)' = {}
                /\ OneEach(c) => OneEach(c)'
                /\ LeavesLast(c) => LeavesLast(c)'

LEMMA SameKeeps ==
  ASSUME NEW c \in Clients, lobbyJobs' = lobbyJobs PROVE QueueKept(c)
BY DEF QueueKept, Accepts, Asks, Removals, OneEach, LeavesLast, JobsOf

LEMMA PushKeeps ==
  ASSUME TypeOK, NEW c \in Clients, NEW job \in LobbyJob, lobbyJobs' = Append(lobbyJobs, job),
         job[1] = "removeRoom" \/ job[2] # c
  PROVE  QueueKept(c)
<1>1. /\ JobsOf(c, {"accept"})' = JobsOf(c, {"accept"})
      /\ JobsOf(c, {"join", "make"})' = JobsOf(c, {"join", "make"})
      /\ JobsOf(c, {"removeClient"})' = JobsOf(c, {"removeClient"})
  BY PushedJobs
<1> QED
  BY <1>1 DEF QueueKept, Accepts, Asks, Removals, OneEach, LeavesLast

LEMMA PopMoves ==
  ASSUME TypeOK, NEW c \in Clients, lobbyJobs # <<>>, lobbyJobs' = Tail(lobbyJobs)
  PROVE  /\ Accepts(c) = {} => Accepts(c)' = {}
         /\ Asks(c) = {} => Asks(c)' = {}
         /\ Removals(c) = {} => Removals(c)' = {}
         /\ OneEach(c) => OneEach(c)'
         /\ OneEach(c) /\ 1 \in Accepts(c) => Accepts(c)' = {}
         /\ OneEach(c) /\ 1 \in Asks(c) => Asks(c)' = {}
         /\ LeavesLast(c) =>
              \/ LeavesLast(c)'
              \/ lobbyJobs[1][1] = "removeClient" /\ Client = c /\ Accepts(c) = {}
<1>1. PICK A : A = Accepts(c)
  OBVIOUS
<1>2. PICK S : S = Asks(c)
  OBVIOUS
<1>3. PICK R : R = Removals(c)
  OBVIOUS
<1>4. /\ Accepts(c)' = {i \in Nat \ {0} : i + 1 \in A}
      /\ Asks(c)' = {i \in Nat \ {0} : i + 1 \in S}
      /\ Removals(c)' = {i \in Nat \ {0} : i + 1 \in R}
  BY <1>1, <1>2, <1>3, Popped DEF Accepts, Asks, Removals
<1>5. A \subseteq Nat \ {0} /\ S \subseteq Nat \ {0} /\ R \subseteq Nat \ {0}
  BY <1>1, <1>2, <1>3 DEF Accepts, Asks, Removals, JobsOf, TypeOK
<1>6. ASSUME OneEach(c)
      PROVE  /\ OneEach(c)'
             /\ 1 \in A => Accepts(c)' = {}
             /\ 1 \in S => Asks(c)' = {}
  <2>1. (\A i, k \in A : i = k) /\ (\A i, k \in S : i = k)
    BY <1>1, <1>2, <1>6 DEF OneEach
  <2>2. \A i, k \in Accepts(c)' : i = k
    BY <1>4, <2>1
  <2>3. \A i, k \in Asks(c)' : i = k
    BY <1>4, <2>1
  <2>4. (1 \in A => Accepts(c)' = {}) /\ (1 \in S => Asks(c)' = {})
    BY <1>4, <2>1
  <2> QED
    BY <2>2, <2>3, <2>4 DEF OneEach
<1>7. ASSUME LeavesLast(c)
      PROVE  \/ LeavesLast(c)'
             \/ lobbyJobs[1][1] = "removeClient" /\ Client = c /\ Accepts(c) = {}
  <2>1. PICK k \in R : \A i \in A : i < k
    BY <1>1, <1>3, <1>7 DEF LeavesLast
  <2>2. CASE k = 1
    <3>1. A = {}
      BY <1>5, <2>1, <2>2
    <3>2. lobbyJobs[1][1] = "removeClient" /\ lobbyJobs[1][2] = c
      BY <1>3, <2>1, <2>2 DEF Removals, JobsOf
    <3> QED
      BY <1>1, <3>1, <3>2 DEF Client
  <2>3. CASE k # 1
    <3>1. k - 1 \in Nat \ {0} /\ (k - 1) + 1 = k
      BY <1>5, <2>1, <2>3
    <3>2. k - 1 \in Removals(c)'
      BY <1>4, <2>1, <3>1
    <3>3. \A i \in Accepts(c)' : i < k - 1
      BY <1>4, <1>5, <2>1, <3>1
    <3> QED
      BY <3>2, <3>3 DEF LeavesLast
  <2> QED
    BY <2>2, <2>3
<1>8. /\ A = {} => Accepts(c)' = {}
      /\ S = {} => Asks(c)' = {}
      /\ R = {} => Removals(c)' = {}
  BY <1>4
<1> QED
  BY <1>1, <1>2, <1>3, <1>6, <1>7, <1>8

LEMMA PopKeeps ==
  ASSUME TypeOK, NEW c \in Clients, lobbyJobs # <<>>, lobbyJobs' = Tail(lobbyJobs),
         lobbyJobs[1][1] # "removeClient" \/ Client # c
  PROVE  QueueKept(c)
BY PopMoves DEF QueueKept

\* Who has a shared_ptr has a living room.
LEMMA Holders ==
  ASSUME TypeOK
  PROVE  /\ \A d \in Clients : held[d] # None /\ handler[d] # "found" => Alive(held[d])
         /\ \A d \in Clients : link[d] = "telling" => target \in Rooms /\ Alive(target)
         /\ \A c \in Clients : /\ None \notin RoomsOf(c) /\ RoomsOf(c) \subseteq Rooms
                               /\ RoomOf(c) # None => RoomOf(c) = room[c] /\ RoomOf(c) \in Rooms
                                                      /\ Alive(RoomOf(c))
<1>1. \A d \in Clients : held[d] # None /\ handler[d] # "found" => Alive(held[d])
  BY DEF Alive
<1>2. \A d \in Clients : link[d] = "telling" => target \in Rooms /\ Alive(target)
  BY DEF Alive, TypeOK
<1>3. \A c \in Clients : RoomOf(c) # None => RoomOf(c) = room[c] /\ room[c] # None /\ Alive(room[c])
  BY DEF RoomOf
<1> QED
  BY <1>1, <1>2, <1>3, FirstIsARoom DEF RoomsOf, TypeOK

\* No room comes to life: no step but the making of a room does that.
NoneRevived ==
  /\ \A i \in Ids : listed'[i] \in {listed[i], None}
  /\ \A r \in Rooms : roomJobs'[r] # <<>> => Alive(r)
  /\ \A d \in Clients : held'[d] = None \/ handler'[d] = "found" \/ Alive(held'[d])
  /\ \A d \in Clients : link'[d] = "telling" => Alive(target')

LEMMA StaysDead ==
  ASSUME NoneRevived PROVE \A r \in Rooms : Alive(r)' => Alive(r)
BY FirstIsARoom DEF NoneRevived, Alive

\* What the step must leave of the client's own state, of its jobs, of its
\* rooms and of the turn of the lobby, for its place to stay in order.
SelfKept(c) == /\ handler'[c] = handler[c] /\ held'[c] = held[c] /\ link'[c] = link[c]
               /\ link[c] \in {"found", "telling"} => target' = target
               /\ c \in entered' <=> c \in entered
               /\ c \in lobby' <=> c \in lobby

RoomsKept(c) ==
  /\ RoomsOf(c)' \subseteq RoomsOf(c)
  /\ RoomsOf(c)' # {} \/ handler[c] \in {"found", "back"} => room'[c] = room[c]
  /\ RoomOf(c)' # None => /\ RoomOf(c)' = RoomOf(c)
                          /\ c \in members'[RoomOf(c)] \/ Forgetting(c)'
  /\ Inserted(c) => c \in members'[entering]

ExitsKept(c) == /\ \A s \in Rooms : HasExit(c, s)' => HasExit(c, s)
                /\ \A s \in RoomsOf(c)' : HasExit(c, s) => HasExit(c, s)'
                /\ \A s \in Rooms : exiting'[s] # "idle" /\ Head(roomJobs'[s]) = c =>
                                      RoomsOf(c)' = {}

TurnKept(c) == /\ Moving(c)' <=> Moving(c)
               /\ Moving(c) => entering' = entering /\ assigned' = assigned

LEMMA RoomsStayOne ==
  ASSUME NEW c \in Clients, OneRoom(c), RoomsKept(c), TurnKept(c), c \in lobby' => c \in lobby
  PROVE  OneRoom(c)'
<1>1. PICK R : R = RoomsOf(c)
  OBVIOUS
<1>2. PICK T : T = RoomsOf(c)' /\ T \subseteq R
  BY <1>1 DEF RoomsKept
<1>3. (Inserted(c)' <=> Inserted(c)) /\ (Inserted(c) => entering' = entering)
  BY DEF Inserted, TurnKept
<1> QED
  BY <1>1, <1>2, <1>3 DEF OneRoom, RoomsKept, TurnKept

LEMMA ExitsStayOK ==
  ASSUME NEW c \in Clients, ExitOK(c), ExitsKept(c), RoomsOf(c)' \subseteq RoomsOf(c),
         link'[c] = link[c], link[c] \in {"found", "telling"} => target' = target
  PROVE  ExitOK(c)'
<1>1. PICK R : R = RoomsOf(c)
  OBVIOUS
<1>2. PICK T : T = RoomsOf(c)' /\ T \subseteq R
  BY <1>1
<1> QED
  BY <1>1, <1>2 DEF ExitOK, ExitsKept

LEMMA Bystander ==
  ASSUME NEW c \in Clients, Orderly(c),
         SelfKept(c), QueueKept(c), RoomsKept(c), ExitsKept(c), TurnKept(c)
  PROVE  Orderly(c)'
<1>1. PICK R : R = RoomsOf(c)
  OBVIOUS
<1>2. PICK T : T = RoomsOf(c)' /\ T \subseteq R
  BY <1>1 DEF RoomsKept
<1>3. OneRoom(c)'
  BY RoomsStayOne DEF Orderly, SelfKept
<1>4. Assigned(c)' <=> Assigned(c)
  BY DEF Assigned, TurnKept
<1>5. OneJob(c)'
  BY <1>1, <1>2, <1>4 DEF Orderly, OneJob, OneMove, SelfKept, QueueKept
<1>6. HandlerOK(c)'
  BY <1>1, <1>2, <1>4 DEF Orderly, HandlerOK, SelfKept, RoomsKept
<1>7. NotEntered(c)'
  BY <1>1, <1>2 DEF Orderly, NotEntered, SelfKept, QueueKept
<1>8. ExitOK(c)'
  BY ExitsStayOK DEF Orderly, SelfKept, RoomsKept
<1>9. RemovalOK(c)'
  BY DEF Orderly, RemovalOK, SelfKept, QueueKept
<1> QED
  BY <1>3, <1>5, <1>6, <1>7, <1>8, <1>9 DEF Orderly

\* A step that does not touch the client's places.
LEMMA RoomsStay ==
  ASSUME TypeOK, NEW c \in Clients, OneRoom(c), NoneRevived, room'[c] = room[c],
         \A r \in Rooms : c \in members'[r] <=> c \in members[r],
         Forgetting(c) => Forgetting(c)'
  PROVE  RoomsKept(c)
<1>1. \A r \in Rooms : Alive(r)' => Alive(r)
  BY StaysDead
<1>2. RoomsOf(c)' \subseteq RoomsOf(c)
  BY <1>1 DEF RoomsOf
<1>3. RoomOf(c)' # None => RoomOf(c)' = room[c] /\ room[c] # None /\ Alive(room[c])'
  BY DEF RoomOf
<1>4. RoomOf(c)' # None => RoomOf(c)' = RoomOf(c) /\ RoomOf(c) \in Rooms
  BY <1>1, <1>3 DEF RoomOf, TypeOK
<1>5. RoomOf(c)' # None => c \in members'[RoomOf(c)] \/ Forgetting(c)'
  BY <1>4 DEF OneRoom
<1>6. Inserted(c) => entering \in Rooms
  BY DEF Inserted, Moving, TypeOK
<1> QED
  BY <1>2, <1>4, <1>5, <1>6 DEF RoomsKept, OneRoom

\* The lobby's running job stays the same when one is pushed.
LEMMA PushTurn ==
  ASSUME TypeOK, JobsBegun, NEW c \in Clients, UNCHANGED inEnter,
         \/ lobbyJobs' = lobbyJobs
         \/ \E job \in LobbyJob : lobbyJobs' = Append(lobbyJobs, job)
  PROVE  TurnKept(c)
<1>1. entering # None => lobbyJobs # <<>>
  BY DEF JobsBegun
<1>2. lobbyJobs # <<>> => lobbyJobs'[1] = lobbyJobs[1]
  BY Pushed
<1> QED
  BY <1>1, <1>2 DEF TurnKept, Moving, Client, inEnter

\* Nobody's OnExitGame is pushed, begun or done.
LEMMA ExitsStay ==
  ASSUME NEW c \in Clients, ExitOK(c), UNCHANGED <<roomJobs, exiting>>,
         RoomsOf(c)' \subseteq RoomsOf(c)
  PROVE  ExitsKept(c)
BY DEF ExitsKept, HasExit, ExitOK

\* Only its own thread or the room's job, which may have begun, forgets a client.
LEMMA ForgettingStays ==
  ASSUME NEW c \in Clients, handler[c] = "erased" => handler'[c] = "erased",
         UNCHANGED <<exiting, roomJobs>>
  PROVE  Forgetting(c) => Forgetting(c)'
BY DEF Forgetting

\* No room's job is about a client that was not removed.
LEMMA NoExits ==
  ASSUME TypeOK, JobsBegun, NEW c \in Clients, Orderly(c), link[c] \notin {"removing", "gone"}
  PROVE  \A s \in Rooms : ~HasExit(c, s) /\ (exiting[s] # "idle" => Head(roomJobs[s]) # c)
<1>1. \A s \in Rooms : ~HasExit(c, s)
  BY DEF Orderly, ExitOK
<1>2. ASSUME NEW s \in Rooms, exiting[s] # "idle", Head(roomJobs[s]) = c PROVE FALSE
  <2>1. roomJobs[s] \in Seq(Clients) /\ roomJobs[s] # <<>>
    BY <1>2 DEF JobsBegun, TypeOK
  <2>2. 1 \in DOMAIN roomJobs[s] /\ roomJobs[s][1] = c
    BY <1>2, <2>1
  <2> QED
    BY <1>1, <2>2 DEF HasExit
<1> QED
  BY <1>1, <1>2

\* The client whose job the lobby has begun asks no longer, and is connected.
LEMMA InEnter ==
  ASSUME TypeOK, JobsBegun, NEW c \in Clients, Orderly(c), Moving(c)
  PROVE  /\ 1 \in Asks(c) /\ c \in lobby /\ link[c] = "connected" /\ c \in entered
         /\ \A s \in Rooms : ~HasExit(c, s)
         /\ \A s \in Rooms : exiting[s] # "idle" => Head(roomJobs[s]) # c
         /\ Inserted(c) => handler[c] = "idle" /\ Accepts(c) = {}
<1>1. entering # None /\ lobbyJobs # <<>> /\ lobbyJobs[1][1] \in {"join", "make"} /\ Client = c
  BY DEF Moving, JobsBegun
<1>2. 1 \in DOMAIN lobbyJobs
  BY <1>1 DEF TypeOK
<1>3. 1 \in Asks(c)
  BY <1>1, <1>2 DEF Client, Asks, JobsOf
<1>4. c \in lobby /\ link[c] = "connected" /\ c \in entered
  BY <1>3 DEF Orderly, OneJob, NotEntered
<1>5. \A s \in Rooms : ~HasExit(c, s) /\ (exiting[s] # "idle" => Head(roomJobs[s]) # c)
  BY <1>4, NoExits
<1>6. Inserted(c) => handler[c] = "idle" /\ Accepts(c) = {}
  BY <1>3, <1>4 DEF Orderly, HandlerOK, OneJob, OneMove, Inserted, Assigned
<1> QED
  BY <1>3, <1>4, <1>5, <1>6

\* A client of the lobby that is not entering a room is in none, and asks
\* for none to be left.
LEMMA AtRest ==
  ASSUME TypeOK, JobsBegun, NEW c \in Clients, Orderly(c), ~Moving(c), c \in lobby
  PROVE  RoomsOf(c) = {} /\ handler[c] = "idle"
<1>1. handler[c] = "idle"
  BY DEF Orderly, HandlerOK, Assigned
<1>2. RoomsOf(c) = {}
  BY DEF Orderly, OneRoom
<1> QED
  BY <1>1, <1>2

-----------------------------------------------------------------------------
(* The place of one client: the packet handlers *)

LEMMA HandlePlace ==
  ASSUME TypeOK, JobsBegun, NEW c \in Clients, Orderly(c), polite, c \notin late',
         NEW d \in Clients, Handle(d)
  PROVE  Orderly(c)'
<1>1. UNCHANGED <<polite, held, link, target, lobby, listed, roomJobs, inEnter, members, exiting, room>>
  BY DEF Handle, HandleEnterGame, HandleMakeRoom, HandleJoinRoom, HandleBackToLobby, jobs
<1>2. \/ lobbyJobs' = lobbyJobs
      \/ \E job \in LobbyJob : lobbyJobs' = Append(lobbyJobs, job) /\ job[2] = d
  <2>1. ASSUME NEW job \in LobbyJob, lobbyJobs' = Append(lobbyJobs, job), job[2] = d
        PROVE  \E own \in LobbyJob : lobbyJobs' = Append(lobbyJobs, own) /\ own[2] = d
    BY <2>1
  <2>2. CASE HandleEnterGame(d)
    BY <2>1, <2>2, JobsMade DEF HandleEnterGame, ToLobby
  <2>3. CASE HandleMakeRoom(d)
    BY <2>1, <2>3, JobsMade DEF HandleMakeRoom, ToLobby
  <2>4. CASE \E i \in Ids : HandleJoinRoom(d, i)
    <3>1. PICK i \in Ids : HandleJoinRoom(d, i)
      BY <2>4
    <3>2. PICK job : job = <<"join", d, i>>
      OBVIOUS
    <3> QED
      BY <2>1, <3>1, <3>2, JobsMade DEF HandleJoinRoom
  <2>5. CASE HandleBackToLobby(d)
    BY <2>5 DEF HandleBackToLobby, jobs
  <2> QED
    BY <2>2, <2>3, <2>4, <2>5 DEF Handle
<1>3. /\ handler[d] = "idle" /\ (d = c => link[c] = "connected")
      /\ handler' = handler \/ handler' = [handler EXCEPT ![d] = "asking"]
  BY DEF Handle, HandleEnterGame, HandleMakeRoom, HandleJoinRoom, HandleBackToLobby, Request,
         Packet
<1>4. NoneRevived
  BY <1>1, <1>3, Holders DEF NoneRevived, Alive, TypeOK
<1>5. Forgetting(c) => Forgetting(c)'
  BY <1>1, <1>3, ForgettingStays DEF TypeOK
<1>6. RoomsKept(c)
  BY <1>1, <1>4, <1>5, RoomsStay DEF Orderly
<1>7. RoomsOf(c)' \subseteq RoomsOf(c)
  BY <1>6 DEF RoomsKept
<1>8. ExitsKept(c) /\ TurnKept(c)
  BY <1>1, <1>2, <1>7, ExitsStay, PushTurn DEF Orderly
<1>9. OneRoom(c)' /\ ExitOK(c)'
  BY <1>1, <1>6, <1>7, <1>8, RoomsStayOne, ExitsStayOK DEF Orderly
<1>10. Assigned(c)' <=> Assigned(c)
  BY <1>8 DEF Assigned, TurnKept
<1>11. CASE d # c
  <2>1. SelfKept(c)
    BY <1>1, <1>3, <1>11
    DEF SelfKept, Handle, HandleEnterGame, HandleMakeRoom, HandleJoinRoom, HandleBackToLobby,
        Request, TypeOK
  <2>2. QueueKept(c)
    BY <1>2, <1>11, PushKeeps, SameKeeps
  <2> QED
    BY <1>6, <1>8, <2>1, <2>2, Bystander
<1>12. CASE HandleEnterGame(c) /\ d = c
  <2>1. /\ UNCHANGED handler /\ lobbyJobs' = Append(lobbyJobs, Job("accept", c))
        /\ c \notin entered /\ c \in entered'
    BY <1>12 DEF HandleEnterGame, ToLobby
  <2>2. PICK m \in Nat : /\ Accepts(c)' = Accepts(c) \cup {m}
                         /\ Asks(c)' = Asks(c) /\ Removals(c)' = Removals(c)
    BY <2>1, JobsMade, PushedJobs DEF Accepts, Asks, Removals
  <2>3. Accepts(c) = {} /\ Asks(c) = {} /\ c \notin lobby /\ RoomsOf(c) = {} /\ handler[c] = "idle"
    BY <2>1 DEF Orderly, NotEntered
  <2>4. OneJob(c)' /\ HandlerOK(c)'
    BY <1>1, <1>7, <2>1, <2>2, <2>3 DEF OneJob, OneMove, OneEach, HandlerOK
  <2>5. NotEntered(c)'
    BY <2>1 DEF NotEntered
  <2>6. RemovalOK(c)'
    BY <1>1, <1>3, <1>12, <2>2 DEF RemovalOK, Orderly
  <2> QED
    BY <1>9, <2>4, <2>5, <2>6 DEF Orderly
<1>13. CASE d = c /\ (HandleMakeRoom(c) \/ \E i \in Ids : HandleJoinRoom(c, i))
  <2>1. /\ UNCHANGED <<handler, entered>> /\ c \in entered /\ c \in lobby /\ Asks(c) = {}
        /\ \E job \in LobbyJob : /\ job[1] \in {"make", "join"} /\ job[2] = c
                                 /\ lobbyJobs' = Append(lobbyJobs, job)
    BY <1>13, JobsMade DEF HandleMakeRoom, HandleJoinRoom, Request, InLobby, ToLobby, Asks
  <2>2. PICK m \in Nat : /\ Asks(c)' = Asks(c) \cup {m}
                         /\ Accepts(c)' = Accepts(c) /\ Removals(c)' = Removals(c)
    BY <2>1, PushedJobs DEF Accepts, Asks, Removals
  <2>3. ~Moving(c)
    BY <2>1, InEnter
  <2>4. Accepts(c) = {} /\ RoomsOf(c) = {}
    BY <2>1, <2>3, AtRest DEF Orderly, OneJob, Assigned
  <2>5. OneJob(c)' /\ HandlerOK(c)'
    BY <1>1, <1>3, <1>7, <1>13, <2>1, <2>2, <2>4 DEF OneJob, OneMove, OneEach, HandlerOK
  <2>6. NotEntered(c)'
    BY <2>1 DEF NotEntered
  <2>7. RemovalOK(c)'
    BY <1>1, <1>3, <1>13, <2>2 DEF RemovalOK, Orderly
  <2> QED
    BY <1>9, <2>5, <2>6, <2>7 DEF Orderly
<1>14. CASE d = c /\ HandleBackToLobby(c)
  <2>1. /\ UNCHANGED <<entered, lobbyJobs>> /\ c \in entered /\ RoomOf(c) # None
        /\ handler'[c] = "asking"
    BY <1>14 DEF HandleBackToLobby, Request, InRoom, jobs, TypeOK
  <2>2. RoomOf(c) \in RoomsOf(c)
    <3>1. ~Forgetting(c)
      BY <1>3, <1>14, NoExits DEF Forgetting
    <3>2. c \in members[RoomOf(c)]
      BY <2>1, <3>1 DEF Orderly, OneRoom
    <3> QED
      BY <2>1, <3>2, Holders DEF RoomsOf
  <2>3. Accepts(c) = {} /\ QueueKept(c)
    BY <2>1, <2>2, SameKeeps DEF Orderly, OneJob
  <2>4. ~Inserted(c) /\ (c \in lobby => Assigned(c))
    BY <2>1, <2>2 DEF Orderly, OneRoom, Inserted, Assigned
  <2>5. HandlerOK(c)'
    BY <1>1, <1>3, <1>10, <1>14, <2>1, <2>4 DEF HandlerOK
  <2>6. OneJob(c)' /\ NotEntered(c)' /\ RemovalOK(c)'
    BY <1>1, <1>10, <2>1, <2>3 DEF Orderly, OneJob, OneMove, NotEntered, RemovalOK, QueueKept
  <2> QED
    BY <1>9, <2>5, <2>6 DEF Orderly
<1> QED
  BY <1>11, <1>12, <1>13, <1>14 DEF Handle

LEMMA FindPlace ==
  ASSUME TypeOK, JobsBegun, NEW c \in Clients, Orderly(c), NEW d \in Clients, FindRoom(d)
  PROVE  Orderly(c)'
<1>1. /\ UNCHANGED <<entered, link, target, lobby, listed, roomJobs, lobbyJobs, inEnter, members,
                     exiting, room>>
      /\ handler[d] = "asking"
      /\ handler' = [handler EXCEPT ![d] = IF RoomOf(d) = None THEN "idle" ELSE "found"]
      /\ held' = [held EXCEPT ![d] = RoomOf(d)]
  BY DEF FindRoom, jobs
<1>2. NoneRevived
  BY <1>1, Holders DEF NoneRevived, Alive, TypeOK
<1>3. Forgetting(c) => Forgetting(c)'
  BY <1>1, ForgettingStays DEF TypeOK
<1>4. RoomsKept(c)
  BY <1>1, <1>2, <1>3, RoomsStay DEF Orderly
<1>5. RoomsOf(c)' \subseteq RoomsOf(c)
  BY <1>4 DEF RoomsKept
<1>6. ExitsKept(c) /\ TurnKept(c) /\ QueueKept(c)
  BY <1>1, <1>5, ExitsStay, PushTurn, SameKeeps DEF Orderly
<1>7. CASE d # c
  <2>1. SelfKept(c)
    BY <1>1, <1>7 DEF SelfKept, TypeOK
  <2> QED
    BY <1>4, <1>6, <2>1, Bystander
<1>8. CASE d = c
  <2>1. OneRoom(c)' /\ ExitOK(c)'
    BY <1>1, <1>4, <1>5, <1>6, RoomsStayOne, ExitsStayOK DEF Orderly
  <2>2. Assigned(c)' <=> Assigned(c)
    BY <1>6 DEF Assigned, TurnKept
  <2>3. Accepts(c) = {} /\ c \in entered
    BY <1>1, <1>8 DEF Orderly, OneJob, NotEntered
  <2>4. handler'[c] = "idle" \/ (handler'[c] = "found" /\ held'[c] = room[c])
    BY <1>1, <1>8 DEF RoomOf, TypeOK
  <2>5. HandlerOK(c)'
    BY <1>1, <1>8, <2>2, <2>4 DEF Orderly, HandlerOK
  <2>6. OneJob(c)' /\ NotEntered(c)' /\ RemovalOK(c)'
    BY <1>1, <1>6, <2>2, <2>3 DEF Orderly, OneJob, OneMove, NotEntered, RemovalOK, QueueKept
  <2> QED
    BY <2>1, <2>5, <2>6 DEF Orderly
<1> QED
  BY <1>7, <1>8

LEMMA KeepPlace ==
  ASSUME TypeOK, JobsBegun, NEW c \in Clients, Orderly(c), NEW d \in Clients, KeepRoom(d)
  PROVE  Orderly(c)'
<1>1. /\ UNCHANGED <<entered, held, link, target, lobby, listed, roomJobs, lobbyJobs, inEnter,
                     members, exiting, room>>
      /\ handler[d] = "found" /\ \A e \in Clients : e # d => handler'[e] = handler[e]
      /\ handler'[d] = "found" \/ (handler'[d] = "back" /\ Alive(held[d]))
  BY DEF KeepRoom, jobs, TypeOK
<1>2. NoneRevived
  <2>1. \A e \in Clients : held'[e] = None \/ handler'[e] = "found" \/ Alive(held'[e])
    BY <1>1, Holders
  <2> QED
    BY <1>1, <2>1, Holders DEF NoneRevived, Alive
<1>3. Forgetting(c) => Forgetting(c)'
  BY <1>1, ForgettingStays
<1>4. RoomsKept(c)
  BY <1>1, <1>2, <1>3, RoomsStay DEF Orderly
<1>5. RoomsOf(c)' \subseteq RoomsOf(c)
  BY <1>4 DEF RoomsKept
<1>6. ExitsKept(c) /\ TurnKept(c) /\ QueueKept(c)
  BY <1>1, <1>5, ExitsStay, PushTurn, SameKeeps DEF Orderly
<1>7. CASE d # c
  <2>1. SelfKept(c)
    BY <1>1, <1>7 DEF SelfKept, TypeOK
  <2> QED
    BY <1>4, <1>6, <2>1, Bystander
<1>8. CASE d = c
  <2>1. OneRoom(c)' /\ ExitOK(c)'
    BY <1>1, <1>4, <1>5, <1>6, RoomsStayOne, ExitsStayOK DEF Orderly
  <2>2. Assigned(c)' <=> Assigned(c)
    BY <1>6 DEF Assigned, TurnKept
  <2>3. Accepts(c) = {} /\ c \in entered
    BY <1>1, <1>8 DEF Orderly, OneJob, NotEntered
  <2>4. HandlerOK(c)'
    BY <1>1, <1>8, <2>2 DEF Orderly, HandlerOK
  <2>5. OneJob(c)' /\ NotEntered(c)' /\ RemovalOK(c)'
    BY <1>1, <1>6, <2>2, <2>3 DEF Orderly, OneJob, OneMove, NotEntered, RemovalOK, QueueKept
  <2> QED
    BY <2>1, <2>4, <2>5 DEF Orderly
<1> QED
  BY <1>7, <1>8

LEMMA BackPlace ==
  ASSUME TypeOK, JobsBegun, NEW c \in Clients, Orderly(c), NEW d \in Clients, BackToLobby(d)
  PROVE  Orderly(c)'
<1>0. PICK s \in Rooms : s = held[d]
  BY DEF BackToLobby, TypeOK
<1>1. /\ UNCHANGED <<entered, held, link, target, lobby, listed, roomJobs, lobbyJobs, inEnter,
                     exiting, room>>
      /\ handler' = [handler EXCEPT ![d] = "erased"] /\ handler[d] = "back"
      /\ members' = [members EXCEPT ![s] = @ \ {d}]
  BY <1>0 DEF BackToLobby, Erase, jobs
<1>2. NoneRevived
  BY <1>1, Holders DEF NoneRevived, Alive, TypeOK
<1>3. CASE d # c
  <2>1. SelfKept(c)
    BY <1>1, <1>3 DEF SelfKept, TypeOK
  <2>2. \A r \in Rooms : c \in members'[r] <=> c \in members[r]
    BY <1>1, <1>3 DEF TypeOK
  <2>3. Forgetting(c) => Forgetting(c)'
    BY <1>1, <1>3, ForgettingStays DEF TypeOK
  <2>4. RoomsKept(c)
    BY <1>1, <1>2, <2>2, <2>3, RoomsStay DEF Orderly
  <2>5. ExitsKept(c) /\ TurnKept(c) /\ QueueKept(c)
    BY <1>1, <2>4, ExitsStay, PushTurn, SameKeeps DEF Orderly, RoomsKept
  <2> QED
    BY <2>1, <2>4, <2>5, Bystander
<1>4. CASE d = c
  <2>1. room[c] = s /\ Accepts(c) = {} /\ link[c] = "connected" /\ c \in entered
        /\ (c \in lobby => Assigned(c))
    BY <1>0, <1>1, <1>4 DEF Orderly, HandlerOK, OneJob, NotEntered
  <2>2. ~Inserted(c)
    BY <1>1, <1>4, InEnter DEF Inserted
  <2>3. \A r \in RoomsOf(c) : r = s
    BY <2>1, <2>2 DEF Orderly, OneRoom
  <2>4. \A r \in Rooms : Alive(r)' => Alive(r)
    BY <1>2, StaysDead
  <2>5. /\ \A r \in Rooms : r # s => members'[r] = members[r]
        /\ c \notin members'[s]
    BY <1>1, <1>4 DEF TypeOK
  <2>6. RoomsOf(c)' = {}
    BY <2>3, <2>4, <2>5 DEF RoomsOf
  <2>7. TurnKept(c) /\ QueueKept(c) /\ handler'[c] = "erased"
    BY <1>1, <1>4, PushTurn, SameKeeps DEF TypeOK
  <2>8. (Assigned(c)' <=> Assigned(c)) /\ (Inserted(c)' <=> Inserted(c))
    BY <2>7 DEF Assigned, Inserted, TurnKept
  <2>9. OneRoom(c)'
    BY <2>2, <2>6, <2>7, <2>8 DEF OneRoom, Forgetting
  <2>10. HandlerOK(c)' /\ ExitOK(c)'
    BY <1>1, <2>1, <2>6, <2>7, <2>8, NoExits DEF HandlerOK, ExitOK, HasExit
  <2>11. OneJob(c)' /\ NotEntered(c)' /\ RemovalOK(c)'
    BY <1>1, <2>1, <2>7, <2>8 DEF Orderly, OneJob, OneMove, NotEntered, RemovalOK, QueueKept
  <2> QED
    BY <2>9, <2>10, <2>11 DEF Orderly
<1> QED
  BY <1>3, <1>4

LEMMA ForgetPlace ==
  ASSUME TypeOK, JobsBegun, NEW c \in Clients, Orderly(c), NEW d \in Clients, BackToLobbyForgets(d)
  PROVE  Orderly(c)'
<1>1. /\ UNCHANGED <<entered, held, link, target, lobby, listed, roomJobs, lobbyJobs, inEnter,
                     exiting, members>>
      /\ handler' = [handler EXCEPT ![d] = "leaving"] /\ handler[d] = "erased"
      /\ room' = [room EXCEPT ![d] = None]
  BY DEF BackToLobbyForgets, OnExitRoom, jobs
<1>2. NoneRevived
  BY <1>1, Holders DEF NoneRevived, Alive, TypeOK
<1>3. CASE d # c
  <2>1. SelfKept(c) /\ room'[c] = room[c]
    BY <1>1, <1>3 DEF SelfKept, TypeOK
  <2>2. Forgetting(c) => Forgetting(c)'
    BY <1>1, <1>3, ForgettingStays DEF TypeOK
  <2>3. RoomsKept(c)
    BY <1>1, <1>2, <2>1, <2>2, RoomsStay DEF Orderly
  <2>4. ExitsKept(c) /\ TurnKept(c) /\ QueueKept(c)
    BY <1>1, <2>3, ExitsStay, PushTurn, SameKeeps DEF Orderly, RoomsKept
  <2> QED
    BY <2>1, <2>3, <2>4, Bystander
<1>4. CASE d = c
  <2>1. RoomsOf(c) = {} /\ Accepts(c) = {} /\ link[c] = "connected" /\ c \in entered
        /\ (c \in lobby => Assigned(c))
    BY <1>1, <1>4 DEF Orderly, HandlerOK, OneJob, NotEntered
  <2>2. ~Inserted(c)
    BY <1>1, <1>4, InEnter DEF Inserted
  <2>3. \A r \in Rooms : Alive(r)' => Alive(r)
    BY <1>2, StaysDead
  <2>4. RoomsOf(c)' = {}
    BY <1>1, <2>1, <2>3 DEF RoomsOf
  <2>5. TurnKept(c) /\ QueueKept(c) /\ handler'[c] = "leaving" /\ room'[c] = None
    BY <1>1, <1>4, PushTurn, SameKeeps DEF TypeOK
  <2>6. (Assigned(c)' <=> Assigned(c)) /\ (Inserted(c)' <=> Inserted(c))
    BY <2>5 DEF Assigned, Inserted, TurnKept
  <2>7. OneRoom(c)'
    <3>1. RoomOf(c)' = None
      BY <2>5 DEF RoomOf
    <3> QED
      BY <2>2, <2>4, <2>6, <3>1 DEF OneRoom
  <2>8. HandlerOK(c)' /\ ExitOK(c)'
    BY <1>1, <2>1, <2>4, <2>5, <2>6, NoExits DEF HandlerOK, ExitOK, HasExit
  <2>9. OneJob(c)' /\ NotEntered(c)' /\ RemovalOK(c)'
    BY <1>1, <2>1, <2>5, <2>6 DEF Orderly, OneJob, OneMove, NotEntered, RemovalOK, QueueKept
  <2> QED
    BY <2>7, <2>8, <2>9 DEF Orderly
<1> QED
  BY <1>3, <1>4

\* The size test of BackToLobby, and the acceptance that it asks for.
LEMMA LeavingPlace ==
  ASSUME TypeOK, JobsBegun, NEW c \in Clients, Orderly(c), NEW d \in Clients,
         BackToLobbyRemoves(d) \/ BackToLobbyAccepts(d)
  PROVE  Orderly(c)'
<1>1. /\ UNCHANGED <<entered, link, target, lobby, listed, roomJobs, inEnter, exiting, members, room>>
      /\ \A e \in Clients : e # d => handler'[e] = handler[e] /\ held'[e] = held[e]
      /\ handler[d] \in {"leaving", "left"} /\ handler'[d] \in {"left", "idle"}
      /\ held'[d] \in {held[d], None}
  BY DEF BackToLobbyRemoves, BackToLobbyAccepts, TypeOK
<1>2. PICK job \in LobbyJob : /\ lobbyJobs' = lobbyJobs \/ lobbyJobs' = Append(lobbyJobs, job)
                              /\ \/ job[1] = "removeRoom" /\ handler'[d] = "left"
                                 \/ job[1] = "accept" /\ job[2] = d /\ handler'[d] = "idle"
  <2>1. CASE BackToLobbyRemoves(d)
    <3>1. idOf[held[d]] \in Ids /\ handler'[d] = "left"
      BY <2>1 DEF BackToLobbyRemoves, TypeOK
    <3> QED
      BY <2>1, <3>1, JobsMade DEF BackToLobbyRemoves, RemoveIfEmpty, ToLobby
  <2>2. CASE BackToLobbyAccepts(d)
    <3>1. handler'[d] = "idle"
      BY <2>2 DEF BackToLobbyAccepts, TypeOK
    <3> QED
      BY <2>2, <3>1, JobsMade DEF BackToLobbyAccepts, ToLobby
  <2> QED
    BY <2>1, <2>2
<1>3. NoneRevived
  <2>1. \A e \in Clients : held'[e] = None \/ Alive(held'[e]) \/ handler'[e] = "found"
    BY <1>1, Holders
  <2> QED
    BY <1>1, <2>1, Holders DEF NoneRevived, Alive
<1>4. Forgetting(c) => Forgetting(c)'
  BY <1>1, ForgettingStays
<1>5. RoomsKept(c)
  BY <1>1, <1>3, <1>4, RoomsStay DEF Orderly
<1>6. RoomsOf(c)' \subseteq RoomsOf(c)
  BY <1>5 DEF RoomsKept
<1>7. ExitsKept(c) /\ TurnKept(c)
  BY <1>1, <1>2, <1>6, ExitsStay, PushTurn DEF Orderly
<1>8. CASE d # c
  <2>1. SelfKept(c)
    BY <1>1, <1>8 DEF SelfKept
  <2>2. QueueKept(c)
    BY <1>2, <1>8, PushKeeps, SameKeeps
  <2> QED
    BY <1>5, <1>7, <2>1, <2>2, Bystander
<1>9. CASE d = c
  <2>1. RoomsOf(c) = {} /\ Accepts(c) = {} /\ link[c] = "connected" /\ c \in entered
        /\ (c \in lobby => Assigned(c))
    BY <1>1, <1>9 DEF Orderly, HandlerOK, OneJob, NotEntered
  <2>2. RoomsOf(c)' = {}
    BY <1>6, <2>1
  <2>3. OneRoom(c)' /\ ExitOK(c)'
    BY <1>1, <1>5, <1>6, <1>7, RoomsStayOne, ExitsStayOK DEF Orderly
  <2>4. Assigned(c)' <=> Assigned(c)
    BY <1>7 DEF Assigned, TurnKept
  <2>5. HandlerOK(c)'
    BY <1>1, <1>9, <2>1, <2>2, <2>4 DEF HandlerOK
  <2>6. Asks(c) # {} => Assigned(c)
    BY <2>1 DEF Orderly, OneJob
  <2>7. CASE job[1] = "removeRoom" \/ lobbyJobs' = lobbyJobs
    <3>1. QueueKept(c)
      BY <1>2, <2>7, PushKeeps, SameKeeps
    <3> QED
      BY <1>1, <2>1, <2>3, <2>4, <2>5, <3>1
      DEF Orderly, OneJob, OneMove, NotEntered, RemovalOK, QueueKept
  <2>8. CASE job[1] = "accept" /\ lobbyJobs' = Append(lobbyJobs, job)
    <3>1. handler'[c] = "idle" /\ job[2] = c
      BY <1>2, <1>9, <2>8
    <3>2. PICK m \in Nat : /\ Accepts(c)' = Accepts(c) \cup {m}
                           /\ Asks(c)' = Asks(c) /\ Removals(c)' = Removals(c)
      BY <2>8, <3>1, PushedJobs DEF Accepts, Asks, Removals
    <3>3. OneJob(c)' /\ NotEntered(c)' /\ RemovalOK(c)'
      BY <1>1, <2>1, <2>2, <2>4, <2>6, <3>1, <3>2
      DEF Orderly, OneJob, OneMove, OneEach, NotEntered, RemovalOK
    <3> QED
      BY <2>3, <2>5, <3>3 DEF Orderly
  <2> QED
    BY <1>2, <2>7, <2>8
<1> QED
  BY <1>8, <1>9

-----------------------------------------------------------------------------
(* The place of one client: the jobs of the rooms *)

LEMMA ExitPlace ==
  ASSUME TypeOK, JobsBegun, NEW c \in Clients, Orderly(c), NEW r \in Rooms, OnExitGame(r)
  PROVE  Orderly(c)'
<1>0. roomJobs[r] \in Seq(Clients) /\ roomJobs[r] # <<>>
  BY DEF OnExitGame, TypeOK
<1>1. PICK d \in Clients : d = Head(roomJobs[r])
  BY <1>0
<1>2. /\ UNCHANGED <<entered, handler, held, link, target, lobby, listed, roomJobs, lobbyJobs,
                     inEnter, room>>
      /\ exiting' = [exiting EXCEPT ![r] = "erased"] /\ exiting[r] = "idle"
      /\ members' = [members EXCEPT ![r] = @ \ {d}]
  BY <1>1 DEF OnExitGame, Erase, io, jobs
<1>3. /\ exiting'[r] = "erased" /\ \A s \in Rooms : s # r => exiting'[s] = exiting[s]
      /\ \A s \in Rooms : s # r => members'[s] = members[s]
      /\ members'[r] = members[r] \ {d}
  BY <1>2 DEF TypeOK
<1>4. NoneRevived
  BY <1>2, Holders DEF NoneRevived, Alive
<1>5. \A s \in Rooms : Alive(s)' => Alive(s)
  BY <1>4, StaysDead
<1>6. RoomsOf(c)' \subseteq RoomsOf(c)
  BY <1>3, <1>5 DEF RoomsOf
<1>7. Forgetting(c) => Forgetting(c)'
  BY <1>2, <1>3 DEF Forgetting
<1>8. SelfKept(c) /\ QueueKept(c) /\ TurnKept(c)
  BY <1>2, SameKeeps, PushTurn DEF SelfKept
<1>9. \A s \in Rooms : HasExit(c, s)' <=> HasExit(c, s)
  BY <1>2 DEF HasExit
<1>10. CASE d # c
  <2>1. \A s \in Rooms : c \in members'[s] <=> c \in members[s]
    BY <1>3, <1>10
  <2>2. RoomsKept(c)
    BY <1>2, <1>4, <1>7, <2>1, RoomsStay DEF Orderly
  <2>3. \A s \in Rooms : exiting'[s] # "idle" /\ Head(roomJobs'[s]) = c => RoomsOf(c)' = {}
    <3>1. \A s \in Rooms : exiting[s] # "idle" /\ Head(roomJobs[s]) = c => RoomsOf(c) = {}
      BY DEF Orderly, ExitOK
    <3> QED
      BY <1>1, <1>2, <1>3, <1>6, <1>10, <3>1
  <2>4. ExitsKept(c)
    BY <1>6, <1>9, <2>3, Holders DEF ExitsKept
  <2> QED
    BY <1>8, <2>2, <2>4, Bystander
<1>11. CASE d = c
  <2>1. 1 \in DOMAIN roomJobs[r] /\ roomJobs[r][1] = c
    BY <1>0, <1>1, <1>11
  <2>2. HasExit(c, r)
    BY <2>1 DEF HasExit
  <2>3. RoomsOf(c) \subseteq {r} /\ link[c] \in {"removing", "gone"}
    BY <2>2 DEF Orderly, ExitOK
  <2>4. r \notin RoomsOf(c)'
    BY <1>3, <1>11 DEF RoomsOf
  <2>5. RoomsOf(c)' = {}
    BY <1>6, <2>3, <2>4
  <2>6. handler[c] = "idle" /\ ~Moving(c)
    BY <2>3, InEnter DEF Orderly, HandlerOK
  <2>7. Forgetting(c)'
    BY <1>1, <1>2, <1>3, <1>11 DEF Forgetting
  <2>8. RoomOf(c)' # None => RoomOf(c)' = RoomOf(c)
    BY <1>2, <1>5 DEF RoomOf, TypeOK
  <2>9. RoomsKept(c)
    BY <1>6, <2>5, <2>6, <2>7, <2>8 DEF RoomsKept, Inserted
  <2>10. ExitsKept(c)
    BY <1>9, <2>5 DEF ExitsKept
  <2> QED
    BY <1>8, <2>9, <2>10, Bystander
<1> QED
  BY <1>10, <1>11

LEMMA ExitForgetsPlace ==
  ASSUME TypeOK, JobsBegun, NEW c \in Clients, Orderly(c), NEW r \in Rooms, OnExitGameForgets(r)
  PROVE  Orderly(c)'
<1>0. roomJobs[r] \in Seq(Clients) /\ roomJobs[r] # <<>>
  BY DEF OnExitGameForgets, JobsBegun, TypeOK
<1>1. PICK d \in Clients : d = Head(roomJobs[r])
  BY <1>0
<1>2. /\ UNCHANGED <<entered, handler, held, link, target, lobby, listed, roomJobs, lobbyJobs,
                     inEnter, members>>
      /\ exiting' = [exiting EXCEPT ![r] = "leaving"] /\ exiting[r] = "erased"
      /\ room' = [room EXCEPT ![d] = None]
  BY <1>1 DEF OnExitGameForgets, OnExitRoom, io, jobs
<1>3. \A s \in Rooms : s # r => exiting'[s] = exiting[s]
  BY <1>2 DEF TypeOK
<1>4. NoneRevived
  BY <1>2, Holders DEF NoneRevived, Alive
<1>5. \A s \in Rooms : Alive(s)' => Alive(s)
  BY <1>4, StaysDead
<1>6. RoomsOf(c)' \subseteq RoomsOf(c)
  BY <1>2, <1>5 DEF RoomsOf
<1>7. SelfKept(c) /\ QueueKept(c) /\ TurnKept(c)
  BY <1>2, SameKeeps, PushTurn DEF SelfKept
<1>8. ExitsKept(c)
  <2>1. \A s \in Rooms : HasExit(c, s)' <=> HasExit(c, s)
    BY <1>2 DEF HasExit
  <2>2. \A s \in Rooms : exiting[s] # "idle" /\ Head(roomJobs[s]) = c => RoomsOf(c) = {}
    BY DEF Orderly, ExitOK
  <2>3. \A s \in Rooms : exiting'[s] # "idle" /\ Head(roomJobs'[s]) = c => RoomsOf(c)' = {}
    BY <1>2, <1>3, <1>6, <2>2
  <2> QED
    BY <1>6, <2>1, <2>3, Holders DEF ExitsKept
<1>9. CASE d # c
  <2>1. room'[c] = room[c]
    BY <1>2, <1>9 DEF TypeOK
  <2>2. Forgetting(c) => Forgetting(c)'
    BY <1>1, <1>2, <1>3, <1>9 DEF Forgetting
  <2>3. RoomsKept(c)
    BY <1>2, <1>4, <2>1, <2>2, RoomsStay DEF Orderly
  <2> QED
    BY <1>7, <1>8, <2>3, Bystander
<1>10. CASE d = c
  <2>1. RoomsOf(c) = {} /\ link[c] \in {"removing", "gone"}
    BY <1>1, <1>2, <1>10, NoExits DEF Orderly, ExitOK
  <2>2. handler[c] = "idle" /\ ~Moving(c)
    BY <2>1, InEnter DEF Orderly, HandlerOK
  <2>3. RoomOf(c)' = None
    BY <1>2, <1>10 DEF RoomOf, TypeOK
  <2>4. RoomsKept(c)
    BY <1>6, <2>1, <2>2, <2>3 DEF RoomsKept, Inserted
  <2> QED
    BY <1>7, <1>8, <2>4, Bystander
<1> QED
  BY <1>9, <1>10

LEMMA ExitedPlace ==
  ASSUME TypeOK, JobsBegun, NEW c \in Clients, Orderly(c), NEW r \in Rooms, OnExitGameRemoves(r)
  PROVE  Orderly(c)'
<1>0. PICK n \in Nat : Len(roomJobs[r]) = n /\ n > 0 /\ roomJobs[r] \in Seq(Clients)
  BY DEF OnExitGameRemoves, JobsBegun, TypeOK
<1>1. /\ UNCHANGED <<entered, handler, held, link, target, lobby, listed, inEnter, members, room>>
      /\ exiting'[r] = "idle" /\ exiting[r] = "leaving"
      /\ \A s \in Rooms : s # r => exiting'[s] = exiting[s]
      /\ roomJobs' = [roomJobs EXCEPT ![r] = Tail(@)]
  BY DEF OnExitGameRemoves, io, TypeOK
<1>2. PICK job \in LobbyJob : /\ lobbyJobs' = lobbyJobs \/ lobbyJobs' = Append(lobbyJobs, job)
                              /\ job[1] = "removeRoom"
  <2>1. idOf[r] \in Ids
    BY DEF TypeOK
  <2> QED
    BY <2>1, JobsMade DEF OnExitGameRemoves, RemoveIfEmpty, ToLobby
<1>3. /\ roomJobs'[r] = Tail(roomJobs[r]) /\ \A s \in Rooms : s # r => roomJobs'[s] = roomJobs[s]
      /\ roomJobs[r] # <<>>
  BY <1>0, <1>1 DEF TypeOK
<1>4. NoneRevived
  BY <1>1, <1>3, Holders DEF NoneRevived, Alive
<1>5. Forgetting(c) => Forgetting(c)'
  BY <1>1, <1>3 DEF Forgetting
<1>6. RoomsKept(c)
  BY <1>1, <1>4, <1>5, RoomsStay DEF Orderly
<1>7. RoomsOf(c)' \subseteq RoomsOf(c)
  BY <1>6 DEF RoomsKept
<1>8. SelfKept(c) /\ QueueKept(c) /\ TurnKept(c)
  BY <1>1, <1>2, SameKeeps, PushKeeps, PushTurn DEF SelfKept
<1>9. /\ DOMAIN roomJobs[r] = 1..n /\ DOMAIN Tail(roomJobs[r]) = 1..n - 1
      /\ Head(roomJobs[r]) = roomJobs[r][1]
      /\ \A j \in 1..n - 1 : Tail(roomJobs[r])[j] = roomJobs[r][j + 1]
  BY <1>0
<1>10. HasExit(c, r)' => HasExit(c, r)
  BY <1>3, <1>9 DEF HasExit
<1>11. ASSUME HasExit(c, r), Head(roomJobs[r]) # c PROVE HasExit(c, r)'
  <2>1. PICK j \in 1..n : roomJobs[r][j] = c /\ j # 1
    BY <1>9, <1>11 DEF HasExit
  <2>2. j - 1 \in 1..n - 1 /\ (j - 1) + 1 = j
    BY <2>1
  <2>3. \E k \in 1..n - 1 : Tail(roomJobs[r])[k] = c
    BY <1>9, <2>1, <2>2
  <2> QED
    BY <1>3, <1>9, <2>3 DEF HasExit
<1>12. \A s \in Rooms : s # r => (HasExit(c, s)' <=> HasExit(c, s))
  BY <1>3 DEF HasExit
<1>13. RoomsOf(c) # {} => Head(roomJobs[r]) # c
  BY <1>1 DEF Orderly, ExitOK
<1>14. ExitsKept(c)
  <2>1. \A s \in Rooms : HasExit(c, s)' => HasExit(c, s)
    BY <1>10, <1>12
  <2>2. \A s \in RoomsOf(c)' : HasExit(c, s) => HasExit(c, s)'
    BY <1>7, <1>11, <1>12, <1>13, Holders
  <2>3. \A s \in Rooms : exiting'[s] # "idle" =>
          exiting[s] # "idle" /\ Head(roomJobs'[s]) = Head(roomJobs[s])
    BY <1>1, <1>3
  <2>4. \A s \in Rooms : exiting'[s] # "idle" /\ Head(roomJobs'[s]) = c => RoomsOf(c)' = {}
    BY <1>7, <2>3 DEF Orderly, ExitOK
  <2> QED
    BY <2>1, <2>2, <2>4 DEF ExitsKept
<1> QED
  BY <1>6, <1>8, <1>14, Bystander

-----------------------------------------------------------------------------
(* The place of one client: the manager *)

\* The steps of Remove before the room is told.
LEMMA RemovePlace ==
  ASSUME TypeOK, JobsBegun, NEW c \in Clients, Orderly(c), c \notin late', NEW d \in Clients,
         Remove(d) \/ RemoveFindsRoom(d) \/ RemoveKeepsRoom(d)
  PROVE  Orderly(c)'
<1>1. /\ UNCHANGED <<entered, handler, held, lobby, listed, roomJobs, lobbyJobs, inEnter, members,
                     room, exiting>>
      /\ \A e \in Clients : e # d => link'[e] = link[e]
  BY DEF Remove, RemoveFindsRoom, RemoveKeepsRoom, jobs, TypeOK
<1>2. \/ link[d] = "connected" /\ link'[d] = "asking" /\ target' = target
      \/ link[d] = "asking" /\ RoomOf(d) = None /\ link'[d] = "removing"
      \/ link[d] = "asking" /\ RoomOf(d) # None /\ link'[d] = "found" /\ target' = RoomOf(d)
      \/ link[d] = "found" /\ link'[d] = "found" /\ target' = target
      \/ link[d] = "found" /\ link'[d] = "telling" /\ target' = target /\ Alive(target)
  BY DEF Remove, RemoveFindsRoom, RemoveKeepsRoom, TypeOK
<1>3. link[d] # "connected" => \A e \in Clients : e # d => link[e] \in {"connected", "gone"}
  BY <1>2 DEF TypeOK
<1>4. NoneRevived
  <2>1. \A e \in Clients : link'[e] = "telling" => Alive(target')
    BY <1>1, <1>2, <1>3, Holders
  <2> QED
    BY <1>1, <2>1, Holders DEF NoneRevived, Alive
<1>5. Forgetting(c) => Forgetting(c)'
  BY <1>1, ForgettingStays
<1>6. RoomsKept(c)
  BY <1>1, <1>4, <1>5, RoomsStay DEF Orderly
<1>7. RoomsOf(c)' \subseteq RoomsOf(c)
  BY <1>6 DEF RoomsKept
<1>8. ExitsKept(c) /\ TurnKept(c) /\ QueueKept(c)
  BY <1>1, <1>7, ExitsStay, PushTurn, SameKeeps DEF Orderly
<1>9. CASE d # c
  <2>1. link[c] \in {"found", "telling"} => target' = target
    BY <1>2, <1>3, <1>9
  <2>2. SelfKept(c)
    BY <1>1, <1>9, <2>1 DEF SelfKept
  <2> QED
    BY <1>6, <1>8, <2>2, Bystander
<1>10. CASE d = c
  <2>1. handler[c] = "idle" /\ Asks(c) = {}
    <3>1. CASE link[c] = "connected"
      <4>1. Remove(c)
        BY <1>2, <1>10, <3>1 DEF Remove, RemoveFindsRoom, RemoveKeepsRoom
      <4> QED
        BY <4>1 DEF Remove, Asks
    <3>2. CASE link[c] # "connected"
      BY <3>2 DEF Orderly, HandlerOK, OneJob
    <3> QED
      BY <3>1, <3>2
  <2>2. ~Moving(c)
    BY <2>1, InEnter
  <2>3. OneRoom(c)'
    BY <1>1, <1>6, <1>8, RoomsStayOne DEF Orderly
  <2>4. \A s \in RoomsOf(c) : room[c] = s /\ RoomOf(c) = s
    BY <2>2, Holders DEF Orderly, OneRoom, Inserted, RoomOf, RoomsOf
  <2>5. link'[c] \in {"asking", "removing", "found", "telling"}
    BY <1>2, <1>10
  <2>6. ExitOK(c)'
    <3>1. \A s \in Rooms : ~HasExit(c, s)'
      BY <1>2, <1>8, <1>10, NoExits DEF ExitsKept
    <3>2. link'[c] = "removing" => RoomsOf(c)' = {}
      BY <1>2, <1>7, <1>10, <2>4, Holders
    <3>3. link'[c] \in {"found", "telling"} => RoomsOf(c)' \subseteq {target'}
      <4>1. CASE link[c] = "asking"
        BY <1>2, <1>7, <1>10, <2>4, <4>1
      <4>2. CASE link[c] = "found"
        BY <1>2, <1>7, <1>10, <4>2 DEF Orderly, ExitOK
      <4> QED
        BY <1>2, <1>10, <4>1, <4>2
    <3> QED
      BY <1>8, <2>5, <3>1, <3>2, <3>3 DEF ExitOK, ExitsKept
  <2>7. HandlerOK(c)' /\ OneJob(c)' /\ NotEntered(c)'
    BY <1>1, <1>7, <1>8, <2>1, <2>2, <2>3
    DEF Orderly, HandlerOK, OneJob, OneMove, NotEntered, QueueKept, Assigned, TurnKept
  <2>8. RemovalOK(c)'
    BY <1>2, <1>8, <1>10, <2>5 DEF Orderly, RemovalOK, QueueKept
  <2> QED
    BY <2>3, <2>6, <2>7, <2>8 DEF Orderly
<1> QED
  BY <1>9, <1>10

LEMMA TellPlace ==
  ASSUME TypeOK, JobsBegun, NEW c \in Clients, Orderly(c), NEW d \in Clients, RemoveTellsRoom(d)
  PROVE  Orderly(c)'
<1>0. PICK r \in Rooms : r = target /\ Alive(r) /\ link[d] = "telling"
  BY Holders DEF RemoveTellsRoom
<1>1. /\ UNCHANGED <<entered, handler, held, lobby, listed, lobbyJobs, inEnter, members, room,
                     exiting>>
      /\ \A e \in Clients : e # d => link'[e] = link[e] /\ link[e] \in {"connected", "gone"}
      /\ link'[d] = "removing"
      /\ roomJobs' = [roomJobs EXCEPT ![r] = Append(@, d)]
  BY <1>0 DEF RemoveTellsRoom, TypeOK
<1>2. /\ roomJobs'[r] = Append(roomJobs[r], d) /\ roomJobs[r] \in Seq(Clients)
      /\ \A s \in Rooms : s # r => roomJobs'[s] = roomJobs[s]
  BY <1>1 DEF TypeOK
<1>3. NoneRevived
  <2>1. \A s \in Rooms : roomJobs'[s] # <<>> => Alive(s)
    BY <1>0, <1>2 DEF Alive
  <2> QED
    BY <1>1, <2>1, Holders DEF NoneRevived
<1>4. \A s \in Rooms : exiting[s] # "idle" => Head(roomJobs'[s]) = Head(roomJobs[s])
  <2> SUFFICES ASSUME NEW s \in Rooms, exiting[s] # "idle"
               PROVE  Head(roomJobs'[s]) = Head(roomJobs[s])
    OBVIOUS
  <2>1. roomJobs[s] # <<>> /\ roomJobs[s] \in Seq(Clients)
    BY DEF JobsBegun, TypeOK
  <2>2. Head(Append(roomJobs[s], d)) = Head(roomJobs[s])
    BY <2>1
  <2> QED
    BY <1>2, <2>2
<1>5. Forgetting(c) => Forgetting(c)'
  BY <1>1, <1>4 DEF Forgetting
<1>6. RoomsKept(c)
  BY <1>1, <1>3, <1>5, RoomsStay DEF Orderly
<1>7. RoomsOf(c)' \subseteq RoomsOf(c)
  BY <1>6 DEF RoomsKept
<1>8. TurnKept(c) /\ QueueKept(c)
  BY <1>1, PushTurn, SameKeeps
<1>9. \A s \in Rooms : /\ HasExit(c, s) => HasExit(c, s)'
                       /\ HasExit(c, s)' => HasExit(c, s) \/ (d = c /\ s = r)
                       /\ d = c /\ s = r => HasExit(c, s)'
  <2> SUFFICES ASSUME NEW s \in Rooms
               PROVE  /\ HasExit(c, s) => HasExit(c, s)'
                      /\ HasExit(c, s)' => HasExit(c, s) \/ (d = c /\ s = r)
                      /\ d = c /\ s = r => HasExit(c, s)'
    OBVIOUS
  <2>1. CASE s # r
    BY <1>2, <2>1 DEF HasExit
  <2>2. CASE s = r
    <3>1. PICK n \in Nat : n = Len(roomJobs[s]) /\ DOMAIN roomJobs[s] = 1..n
      BY <1>2, <2>2
    <3>2. /\ DOMAIN roomJobs'[s] = 1..n + 1 /\ roomJobs'[s][n + 1] = d
          /\ \A j \in 1..n : roomJobs'[s][j] = roomJobs[s][j]
      BY <1>2, <2>2, <3>1
    <3> QED
      BY <2>2, <3>1, <3>2 DEF HasExit
  <2> QED
    BY <2>1, <2>2
<1>10. \A s \in Rooms : exiting'[s] # "idle" /\ Head(roomJobs'[s]) = c => RoomsOf(c)' = {}
  BY <1>1, <1>4, <1>7 DEF Orderly, ExitOK
<1>11. CASE d # c
  <2>1. SelfKept(c)
    BY <1>1, <1>11 DEF SelfKept
  <2>2. ExitsKept(c)
    BY <1>7, <1>9, <1>10, <1>11, Holders DEF ExitsKept
  <2> QED
    BY <1>6, <1>8, <2>1, <2>2, Bystander
<1>12. CASE d = c
  <2>1. handler[c] = "idle" /\ Asks(c) = {} /\ RoomsOf(c) \subseteq {r}
    BY <1>0, <1>12 DEF Orderly, HandlerOK, OneJob, ExitOK
  <2>2. ~Moving(c)
    BY <2>1, InEnter
  <2>3. OneRoom(c)'
    BY <1>1, <1>6, <1>8, RoomsStayOne DEF Orderly
  <2>4. ExitOK(c)'
    <3>1. \A s \in Rooms : HasExit(c, s)' => s = r
      BY <1>0, <1>9, <1>12, NoExits
    <3>2. \A s \in RoomsOf(c)' : s = r /\ HasExit(c, s)'
      BY <1>7, <1>9, <1>12, <2>1
    <3> QED
      BY <1>1, <1>7, <1>10, <1>12, <2>1, <3>1, <3>2 DEF ExitOK
  <2>5. HandlerOK(c)' /\ OneJob(c)' /\ NotEntered(c)'
    BY <1>1, <1>7, <1>8, <2>1, <2>2
    DEF Orderly, HandlerOK, OneJob, OneMove, NotEntered, QueueKept, Assigned, TurnKept
  <2>6. RemovalOK(c)'
    BY <1>0, <1>1, <1>8, <1>12 DEF Orderly, RemovalOK, QueueKept
  <2> QED
    BY <2>3, <2>4, <2>5, <2>6 DEF Orderly
<1> QED
  BY <1>11, <1>12

LEMMA RemovedPlace ==
  ASSUME TypeOK, JobsBegun, NEW c \in Clients, Orderly(c), NEW d \in Clients, RemoveFromLobby(d)
  PROVE  Orderly(c)'
<1>1. /\ UNCHANGED <<entered, handler, held, target, lobby, listed, roomJobs, inEnter, members,
                     room, exiting>>
      /\ link' = [link EXCEPT ![d] = "gone"] /\ link[d] = "removing"
  BY DEF RemoveFromLobby
<1>2. PICK job \in LobbyJob : /\ lobbyJobs' = Append(lobbyJobs, job)
                              /\ job[1] = "removeClient" /\ job[2] = d
  BY JobsMade DEF RemoveFromLobby, ToLobby
<1>3. NoneRevived
  BY <1>1, Holders DEF NoneRevived, Alive, TypeOK
<1>4. Forgetting(c) => Forgetting(c)'
  BY <1>1, ForgettingStays
<1>5. RoomsKept(c)
  BY <1>1, <1>3, <1>4, RoomsStay DEF Orderly
<1>6. RoomsOf(c)' \subseteq RoomsOf(c)
  BY <1>5 DEF RoomsKept
<1>7. ExitsKept(c) /\ TurnKept(c)
  BY <1>1, <1>2, <1>6, ExitsStay, PushTurn DEF Orderly
<1>8. CASE d # c
  <2>1. SelfKept(c)
    BY <1>1, <1>8 DEF SelfKept, TypeOK
  <2>2. QueueKept(c)
    BY <1>2, <1>8, PushKeeps
  <2> QED
    BY <1>5, <1>7, <2>1, <2>2, Bystander
<1>9. CASE d = c
  <2>1. link'[c] = "gone" /\ link[c] = "removing"
    BY <1>1, <1>9 DEF TypeOK
  <2>2. handler[c] = "idle" /\ Asks(c) = {}
    BY <2>1 DEF Orderly, HandlerOK, OneJob
  <2>3. ~Moving(c)
    BY <2>2, InEnter
  <2>4. PICK m \in Nat :
          /\ Accepts(c)' = Accepts(c) /\ Asks(c)' = Asks(c)
          /\ Removals(c)' = Removals(c) \cup {m} /\ \A i \in Accepts(c) : i < m
    <3>1. PICK n \in Nat : n = Len(lobbyJobs)
      BY DEF TypeOK
    <3>2. /\ Accepts(c)' = Accepts(c) /\ Asks(c)' = Asks(c)
          /\ Removals(c)' = Removals(c) \cup {n + 1}
          /\ \A i \in Accepts(c) : i \in Nat /\ i <= n
      BY <1>2, <1>9, <3>1, PushedJobs DEF Accepts, Asks, Removals
    <3> QED
      BY <3>2
  <2>5. RemovalOK(c)' /\ OneJob(c)'
    BY <1>1, <1>6, <2>1, <2>2, <2>3, <2>4
    DEF RemovalOK, LeavesLast, Orderly, OneJob, OneMove, OneEach, Assigned
  <2>6. OneRoom(c)'
    BY <1>1, <1>5, <1>7, RoomsStayOne DEF Orderly
  <2>7. HandlerOK(c)' /\ NotEntered(c)'
    BY <1>1, <1>6, <2>2, <2>4 DEF HandlerOK, Orderly, NotEntered
  <2>8. ExitOK(c)'
    BY <1>6, <1>7, <2>1 DEF Orderly, ExitOK, ExitsKept
  <2> QED
    BY <2>5, <2>6, <2>7, <2>8 DEF Orderly
<1> QED
  BY <1>8, <1>9

-----------------------------------------------------------------------------
(* The place of one client: the jobs of the lobby *)

\* A job is about the clients of the sets that hold its index.
LEMMA HeadJob ==
  ASSUME TypeOK, NEW c \in Clients, lobbyJobs # <<>>
  PROVE  /\ lobbyJobs[1][1] = "accept" /\ Client = c => 1 \in Accepts(c)
         /\ lobbyJobs[1][1] \in {"make", "join"} /\ Client = c => 1 \in Asks(c)
         /\ lobbyJobs[1][1] = "removeClient" /\ Client = c => 1 \in Removals(c)
<1>1. 1 \in DOMAIN lobbyJobs
  BY DEF TypeOK
<1> QED
  BY <1>1 DEF Client, Accepts, Asks, Removals, JobsOf

\* A job of the lobby that is done and moves nobody into a room.
LEMMA DonePlace ==
  ASSUME TypeOK, JobsBegun, NEW c \in Clients, Orderly(c),
         AcceptClient \/ RemoveClient \/ RemoveRoom \/ JoinNoRoom \/ Entered
           \/ (MakeRoom /\ listed[Client] # None)
  PROVE  Orderly(c)'
<1>1. /\ UNCHANGED <<entered, handler, held, link, target, roomJobs, members, room, exiting>>
      /\ lobbyJobs # <<>> /\ lobbyJobs' = Tail(lobbyJobs) /\ entering' = None
      /\ \A i \in Ids : listed'[i] \in {listed[i], None}
  BY DEF AcceptClient, RemoveClient, RemoveRoom, JoinNoRoom, Entered, MakeRoom, Running, JobDone,
         JobsBegun, io, inEnter, TypeOK
<1>2. NoneRevived
  BY <1>1, Holders DEF NoneRevived, Alive
<1>3. Forgetting(c) => Forgetting(c)'
  BY <1>1, ForgettingStays
<1>4. RoomsKept(c)
  BY <1>1, <1>2, <1>3, RoomsStay DEF Orderly
<1>5. RoomsOf(c)' \subseteq RoomsOf(c)
  BY <1>4 DEF RoomsKept
<1>6. ExitsKept(c)
  BY <1>1, <1>5, ExitsStay DEF Orderly
<1>7. ExitOK(c)'
  BY <1>1, <1>5, <1>6, ExitsStayOK DEF Orderly
<1>8. ~Moving(c)' /\ ~Inserted(c)' /\ ~Assigned(c)'
  BY <1>1 DEF Moving, Inserted, Assigned
<1>9. Entered \/ ~Moving(c)
  BY DEF AcceptClient, RemoveClient, RemoveRoom, JoinNoRoom, MakeRoom, Running, Moving
<1>10. lobbyJobs[1][1] = "removeRoom" => RemoveRoom
  BY DEF AcceptClient, RemoveClient, RemoveRoom, JoinNoRoom, MakeRoom, Running, Entered, JobsBegun
<1>11. CASE Client # c \/ RemoveRoom
  <2>1. ~Moving(c)
    BY <1>11 DEF Moving, RemoveRoom, Running
  <2>2. TurnKept(c)
    BY <1>8, <2>1 DEF TurnKept
  <2>3. QueueKept(c)
    BY <1>1, <1>11, PopKeeps DEF RemoveRoom, Running
  <2>4. SelfKept(c)
    BY <1>1, <1>11 DEF SelfKept, AcceptClient, RemoveClient, RemoveRoom, JoinNoRoom, Entered,
                       MakeRoom, TypeOK
  <2> QED
    BY <1>4, <1>6, <2>2, <2>3, <2>4, Bystander
<1>12. CASE Client = c /\ AcceptClient
  <2>1. 1 \in Accepts(c) /\ lobby' = lobby \cup {c} /\ ~Moving(c)
    BY <1>1, <1>12, HeadJob DEF AcceptClient, Running, Moving
  <2>2. /\ handler[c] = "idle" /\ RoomsOf(c) = {} /\ RoomsOf(c)' = {} /\ c \in entered
        /\ Asks(c) = {}
    BY <1>5, <2>1 DEF Orderly, OneJob, OneMove, NotEntered, Assigned
  <2>3. Accepts(c)' = {} /\ Asks(c)' = {} /\ (Removals(c) = {} => Removals(c)' = {})
        /\ (LeavesLast(c) => LeavesLast(c)')
    BY <1>1, <1>12, <2>1, <2>2, PopMoves DEF Orderly, OneJob, OneMove, AcceptClient, Running
  <2>4. OneJob(c)' /\ RemovalOK(c)'
    BY <1>1, <2>1, <2>2, <2>3 DEF Orderly, OneJob, OneMove, OneEach, RemovalOK
  <2>5. OneRoom(c)'
    <3>1. RoomOf(c)' # None => c \in members'[RoomOf(c)'] \/ Forgetting(c)'
      BY <1>4 DEF RoomsKept
    <3> QED
      BY <1>8, <2>2, <3>1 DEF OneRoom
  <2>6. HandlerOK(c)' /\ NotEntered(c)'
    BY <1>1, <2>2 DEF HandlerOK, NotEntered
  <2> QED
    BY <1>7, <2>4, <2>5, <2>6 DEF Orderly
<1>13. CASE Client = c /\ RemoveClient
  <2>1. 1 \in Removals(c) /\ lobby' = lobby \ {c} /\ ~Moving(c)
    BY <1>1, <1>13, HeadJob DEF RemoveClient, Running, Moving
  <2>2. link[c] = "gone" /\ Asks(c) = {} /\ handler[c] = "idle"
    BY <2>1 DEF Orderly, RemovalOK, OneJob, HandlerOK
  <2>3. /\ Accepts(c) = {} => Accepts(c)' = {}
        /\ Asks(c)' = {} /\ OneEach(c)'
        /\ Accepts(c) # {} => LeavesLast(c)'
    BY <1>1, <2>2, PopMoves DEF Orderly, OneJob, OneMove, RemovalOK
  <2>4. OneJob(c)' /\ RemovalOK(c)'
    BY <1>1, <1>5, <2>1, <2>2, <2>3 DEF Orderly, OneJob, OneMove, RemovalOK
  <2>5. OneRoom(c)'
    BY <1>4, <1>8, <2>1, RoomsStayOne DEF Orderly, TurnKept
  <2>6. HandlerOK(c)' /\ NotEntered(c)'
    BY <1>1, <1>5, <2>1, <2>2, <2>3 DEF Orderly, HandlerOK, NotEntered
  <2> QED
    BY <1>7, <2>4, <2>5, <2>6 DEF Orderly
<1>14. CASE Client = c /\ (JoinNoRoom \/ (MakeRoom /\ listed[Client] # None))
  <2>1. 1 \in Asks(c) /\ lobby' \subseteq lobby /\ ~Moving(c)
    BY <1>1, <1>14, HeadJob DEF JoinNoRoom, MakeRoom, Running, Moving
  <2>2. link[c] = "connected" /\ c \in entered /\ c \in lobby /\ Accepts(c) = {}
    BY <2>1 DEF Orderly, OneJob, OneMove, NotEntered, Assigned
  <2>3. RoomsOf(c) = {} /\ handler[c] = "idle"
    BY <2>1, <2>2, AtRest
  <2>4. Accepts(c)' = {} /\ Asks(c)' = {} /\ (Removals(c) = {} => Removals(c)' = {})
    BY <1>1, <2>1, <2>2, PopMoves DEF Orderly, OneJob, OneMove
  <2>5. OneJob(c)' /\ RemovalOK(c)' /\ NotEntered(c)' /\ HandlerOK(c)'
    BY <1>1, <2>2, <2>3, <2>4
    DEF Orderly, OneJob, OneMove, OneEach, RemovalOK, NotEntered, HandlerOK
  <2>6. OneRoom(c)'
    BY <1>4, <1>8, <2>1, RoomsStayOne DEF Orderly, TurnKept
  <2> QED
    BY <1>7, <2>5, <2>6 DEF Orderly
<1>15. CASE Client = c /\ Entered
  <2>1. Moving(c) /\ Assigned(c) /\ ~Inserted(c) /\ lobby' = lobby \ {c}
    BY <1>15 DEF Entered, Moving, Assigned, Inserted
  <2>2. 1 \in Asks(c) /\ link[c] = "connected" /\ c \in entered
    BY <2>1, InEnter
  <2>3. /\ Accepts(c) = {} => Accepts(c)' = {}
        /\ Asks(c)' = {} /\ OneEach(c)' /\ (Removals(c) = {} => Removals(c)' = {})
    BY <1>1, <2>2, PopMoves DEF Orderly, OneJob, OneMove
  <2>4. OneJob(c)' /\ RemovalOK(c)' /\ NotEntered(c)'
    BY <1>1, <1>5, <2>1, <2>2, <2>3 DEF Orderly, OneJob, OneMove, RemovalOK, NotEntered
  <2>5. HandlerOK(c)'
    BY <1>1, <1>5, <2>1 DEF Orderly, HandlerOK
  <2>6. OneRoom(c)'
    <3>1. RoomOf(c)' # None => c \in members'[RoomOf(c)'] \/ Forgetting(c)'
      BY <1>4 DEF RoomsKept
    <3>2. \A r \in RoomsOf(c)' : room'[c] = r
      BY <1>1, <1>5, <2>1 DEF Orderly, OneRoom
    <3> QED
      BY <1>8, <2>1, <3>1, <3>2 DEF OneRoom
  <2> QED
    BY <1>7, <2>4, <2>5, <2>6 DEF Orderly
<1> QED
  BY <1>11, <1>12, <1>13, <1>14, <1>15

\* A client is put into a room, which was not a living one or is entered
\* while it lives: it is in no other.
LEMMA EnterPlace ==
  ASSUME TypeOK, JobsBegun, NEW c \in Clients, Orderly(c),
         (MakeRoom /\ listed[Client] = None) \/ JoinRoom
  PROVE  Orderly(c)'
<1>0. lobbyJobs # <<>> /\ lobbyJobs[1] \in LobbyJob /\ lobbyJobs[1][1] \in {"make", "join"}
      /\ entering = None /\ ~Moving(c)
  BY DEF MakeRoom, JoinRoom, Running, Moving, TypeOK
<1>1. PICK d \in Clients : d = Client
  BY <1>0, JobFacts DEF Client
<1>2. /\ UNCHANGED <<entered, handler, held, link, target, roomJobs, lobbyJobs, lobby, exiting>>
      /\ assigned' = FALSE
  BY <1>0 DEF MakeRoom, JoinRoom, io, jobs, JobsBegun, TypeOK
<1>3. PICK r \in Rooms :
        /\ \A i \in Ids : listed'[i] \in {listed[i], r}
        /\ entering' = r /\ d \in members'[r]
        /\ \A e \in Clients : \/ room'[e] = room[e] /\ (room[e] = r => Alive(r))
                              \/ room[e] = r /\ room'[e] = None /\ ~Alive(r) /\ ~Pointed(r)
        /\ \A e \in Clients : e # d => (e \in members'[r] => e \in members[r] /\ Alive(r))
        /\ \A e \in Clients : Alive(r) /\ e \in members[r] => e \in members'[r]
        /\ \A s \in Rooms : s # r => members'[s] = members[s]
  <2>1. CASE MakeRoom /\ listed[Client] = None
    <3>1. PICK r \in Rooms : NewRoom(d, r)
      BY <1>1, <2>1 DEF MakeRoom
    <3>2. /\ \A i \in Ids : listed'[i] \in {listed[i], r}
          /\ entering' = r /\ ~Alive(r) /\ ~Pointed(r)
      BY <3>1 DEF NewRoom, TypeOK
    <3>3. \A e \in Clients : \/ room'[e] = room[e] /\ room[e] # r
                             \/ room[e] = r /\ room'[e] = None
      BY <3>1 DEF NewRoom
    <3>4. members'[r] = {d} /\ \A s \in Rooms : s # r => members'[s] = members[s]
      BY <3>1 DEF NewRoom, TypeOK
    <3> QED
      BY <3>2, <3>3, <3>4
  <2>2. CASE JoinRoom
    <3>1. lobbyJobs[1][3] \in Ids /\ listed[lobbyJobs[1][3]] # None
      BY <1>0, <2>2, JobFacts DEF JoinRoom, Running
    <3>2. PICK r \in Rooms : r = listed[lobbyJobs[1][3]]
      BY <3>1 DEF TypeOK
    <3>3. Alive(r) /\ listed' = listed /\ room' = room
      BY <2>2, <3>1, <3>2 DEF Alive, JoinRoom
    <3>4. entering' = r /\ members' = [members EXCEPT ![r] = @ \cup {d}]
      BY <1>1, <2>2, <3>2 DEF JoinRoom, Insert
    <3>5. /\ members'[r] = members[r] \cup {d}
          /\ \A s \in Rooms : s # r => members'[s] = members[s]
      BY <3>4 DEF TypeOK
    <3> QED
      BY <3>3, <3>4, <3>5
  <2> QED
    BY <2>1, <2>2
<1>4. \A s \in Rooms : s # r /\ Alive(s)' => Alive(s)
  BY <1>2, <1>3 DEF Alive
<1>5. Forgetting(c)' <=> Forgetting(c)
  BY <1>2 DEF Forgetting
<1>6. \A s \in RoomsOf(c) : s = room[c] /\ Alive(s)
  BY <1>0 DEF Orderly, OneRoom, Inserted, RoomsOf
<1>7. RoomOf(c)' # None => RoomOf(c)' = RoomOf(c)
  <2>1. CASE room'[c] = None
    BY <2>1 DEF RoomOf
  <2>2. CASE room'[c] = room[c] /\ room[c] # None
    <3>1. PICK s \in Rooms : s = room[c]
      BY <2>2 DEF TypeOK
    <3>2. RoomOf(c)' # None => RoomOf(c)' = s /\ Alive(s)'
      BY <2>2, <3>1 DEF RoomOf
    <3>3. Alive(s)' => Alive(s)
      BY <1>3, <1>4, <2>2, <3>1
    <3> QED
      BY <2>2, <3>1, <3>2, <3>3 DEF RoomOf
  <2> QED
    BY <1>3, <2>1, <2>2
<1>8. RoomOf(c) # None => c \in members'[RoomOf(c)] \/ Forgetting(c)'
  BY <1>3, <1>5, Holders DEF Orderly, OneRoom
<1>9. \A s \in Rooms : HasExit(c, s)' <=> HasExit(c, s)
  BY <1>2 DEF HasExit
<1>10. CASE d # c
  <2>1. RoomsOf(c)' \subseteq RoomsOf(c)
    BY <1>3, <1>4, <1>10 DEF RoomsOf
  <2>2. RoomsOf(c)' # {} => room'[c] = room[c]
    BY <1>3, <1>6, <2>1
  <2>3. handler[c] \in {"found", "back"} => room'[c] = room[c]
    BY <1>3 DEF Orderly, HandlerOK, Pointed
  <2>4. RoomsKept(c)
    BY <1>0, <1>7, <1>8, <2>1, <2>2, <2>3 DEF RoomsKept, Inserted
  <2>5. TurnKept(c)
    BY <1>0, <1>1, <1>2, <1>10 DEF TurnKept, Moving, Client
  <2>6. SelfKept(c) /\ QueueKept(c) /\ ExitsKept(c)
    BY <1>2, <2>1, SameKeeps, ExitsStay DEF SelfKept, Orderly
  <2> QED
    BY <2>4, <2>5, <2>6, Bystander
<1>11. CASE d = c
  <2>1. 1 \in Asks(c)
    BY <1>0, <1>1, <1>11, HeadJob
  <2>2. c \in lobby /\ link[c] = "connected" /\ c \in entered /\ Accepts(c) = {}
    BY <1>0, <2>1 DEF Orderly, OneJob, OneMove, NotEntered, Assigned
  <2>3. RoomsOf(c) = {} /\ handler[c] = "idle"
    BY <1>0, <2>2, AtRest
  <2>4. RoomOf(c) = None
    <3>1. ~Forgetting(c)
      BY <2>2, <2>3, NoExits DEF Forgetting
    <3> QED
      BY <2>3, <3>1, Holders DEF Orderly, OneRoom, RoomsOf
  <2>5. \A s \in RoomsOf(c)' : s = r
    BY <1>3, <1>4, <2>3 DEF RoomsOf
  <2>6. Moving(c)' /\ Inserted(c)' /\ QueueKept(c)
    BY <1>1, <1>2, <1>3, <1>11, SameKeeps, FirstIsARoom DEF Moving, Inserted, Client
  <2>7. OneRoom(c)'
    BY <1>3, <1>7, <1>11, <2>4, <2>5, <2>6 DEF OneRoom
  <2>8. ExitOK(c)'
    BY <1>2, <1>9, <2>2, NoExits DEF ExitOK
  <2>9. HandlerOK(c)' /\ NotEntered(c)' /\ OneJob(c)' /\ RemovalOK(c)'
    BY <1>2, <2>2, <2>3, <2>6
    DEF Orderly, HandlerOK, NotEntered, OneJob, OneMove, RemovalOK, QueueKept
  <2> QED
    BY <2>7, <2>8, <2>9 DEF Orderly
<1> QED
  BY <1>10, <1>11

\* The session of the client that was put into a room learns it.
LEMMA AssignPlace ==
  ASSUME TypeOK, JobsBegun, NEW c \in Clients, Orderly(c), EnterRoom
  PROVE  Orderly(c)'
<1>0. lobbyJobs # <<>> /\ lobbyJobs[1] \in LobbyJob /\ lobbyJobs[1][1] \in {"make", "join"}
      /\ entering \in Rooms
  BY DEF EnterRoom, JobsBegun, TypeOK
<1>1. PICK d \in Clients : d = Client
  BY <1>0, JobFacts DEF Client
<1>2. /\ UNCHANGED <<entered, handler, held, link, target, roomJobs, lobbyJobs, lobby, exiting,
                     listed, entering, members>>
      /\ assigned' = TRUE /\ ~assigned /\ room' = [room EXCEPT ![d] = entering]
  BY <1>1 DEF EnterRoom, io, jobs
<1>3. NoneRevived
  BY <1>2, Holders DEF NoneRevived, Alive
<1>4. \A s \in Rooms : Alive(s)' => Alive(s)
  BY <1>3, StaysDead
<1>5. RoomsOf(c)' \subseteq RoomsOf(c)
  BY <1>2, <1>4 DEF RoomsOf
<1>6. QueueKept(c) /\ SelfKept(c) /\ ExitsKept(c)
  BY <1>2, <1>5, SameKeeps, ExitsStay DEF SelfKept, Orderly
<1>7. Moving(c)' <=> Moving(c)
  BY <1>2 DEF Moving, Client
<1>8. CASE d # c
  <2>1. ~Moving(c) /\ room'[c] = room[c]
    BY <1>1, <1>2, <1>8 DEF Moving, TypeOK
  <2>2. Forgetting(c) => Forgetting(c)'
    BY <1>2, ForgettingStays
  <2>3. RoomsKept(c) /\ TurnKept(c)
    BY <1>2, <1>3, <1>7, <2>1, <2>2, RoomsStay DEF Orderly, TurnKept
  <2> QED
    BY <1>6, <2>3, Bystander
<1>9. CASE d = c
  <2>1. Inserted(c) /\ Moving(c) /\ room'[c] = entering
    BY <1>0, <1>1, <1>2, <1>9, FirstIsARoom DEF Inserted, Moving, TypeOK
  <2>2. /\ c \in lobby /\ link[c] = "connected" /\ handler[c] = "idle" /\ Accepts(c) = {}
        /\ c \in members[entering]
    BY <2>1, InEnter DEF Orderly, OneRoom
  <2>3. Assigned(c)' /\ ~Inserted(c)'
    BY <1>2, <1>7, <2>1 DEF Assigned, Inserted
  <2>4. \A s \in RoomsOf(c) : entering = s
    BY <2>2 DEF Orderly, OneRoom
  <2>5. RoomOf(c)' # None => RoomOf(c)' = entering
    BY <2>1 DEF RoomOf
  <2>6. OneRoom(c)'
    BY <1>2, <1>5, <1>7, <2>1, <2>2, <2>3, <2>4, <2>5 DEF OneRoom
  <2>7. ExitOK(c)'
    BY <1>5, <1>6, ExitsStayOK DEF Orderly, SelfKept
  <2>8. HandlerOK(c)' /\ NotEntered(c)' /\ OneJob(c)' /\ RemovalOK(c)'
    BY <1>2, <1>5, <1>6, <2>2, <2>3
    DEF Orderly, HandlerOK, NotEntered, OneJob, OneMove, RemovalOK, QueueKept
  <2> QED
    BY <2>6, <2>7, <2>8 DEF Orderly
<1> QED
  BY <1>8, <1>9

\* A race that the model stops at, or no step.
LEMMA SamePlace ==
  ASSUME TypeOK, JobsBegun, NEW c \in Clients, Orderly(c),
         UNCHANGED <<io, lobby, listed, jobs, inEnter, members, exiting, room>>
  PROVE  Orderly(c)'
<1>1. UNCHANGED <<entered, handler, held, link, target, roomJobs, lobbyJobs>>
  BY DEF io, jobs
<1>2. NoneRevived
  BY <1>1, Holders DEF NoneRevived, Alive
<1>3. RoomsKept(c)
  BY <1>1, <1>2, ForgettingStays, RoomsStay DEF Orderly
<1>4. SelfKept(c) /\ QueueKept(c) /\ ExitsKept(c) /\ TurnKept(c)
  BY <1>1, <1>3, SameKeeps, ExitsStay, PushTurn DEF SelfKept, RoomsKept, Orderly
<1> QED
  BY <1>3, <1>4, Bystander
-----------------------------------------------------------------------------
(* The invariant and what follows from it *)

LEMMA PlaceStep ==
  ASSUME IInv, [Next]_vars, NEW c \in Clients, polite', c \notin late'
  PROVE  Orderly(c)'
<1>1. TypeOK /\ JobsBegun
  BY DEF IInv
<1>2. polite /\ c \notin late
  <2>1. CASE UNCHANGED vars
    BY <2>1 DEF vars
  <2>2. CASE Next
    BY <2>2 DEF Next, DataRace, Handle, HandleEnterGame, HandleMakeRoom, HandleJoinRoom,
       HandleBackToLobby, Request, Packet, HandlerStep, FindRoom, KeepRoom, BackToLobby,
       BackToLobbyForgets, BackToLobbyRemoves, BackToLobbyAccepts, RoomStep, OnExitGame,
       OnExitGameForgets, OnExitGameRemoves, LobbyStep, AcceptClient, RemoveClient, RemoveRoom,
       MakeRoom, JoinRoom, JoinNoRoom, EnterRoom, Entered, RemoveStep, Remove, RemoveFindsRoom,
       RemoveKeepsRoom, RemoveTellsRoom, RemoveFromLobby
  <2> QED
    BY <2>1, <2>2
<1>3. Orderly(c)
  BY <1>2 DEF IInv
<1>4. CASE UNCHANGED vars \/ DataRace
  BY <1>1, <1>3, <1>4, SamePlace DEF vars, DataRace
<1>5. ASSUME NEW d \in Clients, Handle(d) PROVE Orderly(c)'
  BY <1>1, <1>2, <1>3, <1>5, HandlePlace
<1>6. ASSUME NEW d \in Clients, HandlerStep(d) PROVE Orderly(c)'
  BY <1>1, <1>3, <1>6, FindPlace, KeepPlace, BackPlace, ForgetPlace, LeavingPlace DEF HandlerStep
<1>7. ASSUME NEW d \in Clients, RemoveStep(d) PROVE Orderly(c)'
  BY <1>1, <1>3, <1>7, RemovePlace, TellPlace, RemovedPlace DEF RemoveStep
<1>8. ASSUME NEW r \in Rooms, RoomStep(r) PROVE Orderly(c)'
  BY <1>1, <1>3, <1>8, ExitPlace, ExitForgetsPlace, ExitedPlace DEF RoomStep
<1>9. CASE LobbyStep
  BY <1>1, <1>3, <1>9, DonePlace, EnterPlace, AssignPlace DEF LobbyStep
<1> QED
  BY <1>4, <1>5, <1>6, <1>7, <1>8, <1>9 DEF Next

LEMMA IInvStep == IInv /\ [Next]_vars => IInv'
<1> SUFFICES ASSUME IInv, [Next]_vars PROVE IInv'
  OBVIOUS
<1>1. TypeOK /\ JobsBegun /\ EmptyRoomIsGoing
  BY DEF IInv
<1>2. TypeOK' /\ JobsBegun'
  BY <1>1, TypeStep, BegunStep
<1>3. EmptyRoomIsGoing'
  BY <1>1, <1>2, EmptyStep
<1>4. \A c \in Clients : polite' /\ c \notin late' => Orderly(c)'
  BY PlaceStep
<1> QED
  BY <1>2, <1>3, <1>4 DEF IInv

LEMMA InitIInv == Init => IInv
<1> SUFFICES ASSUME Init PROVE IInv
  OBVIOUS
<1>1. TypeOK
  <2>1. HandlerTyped /\ RemoveTyped /\ room \in [Clients -> Rooms \cup {None}]
    BY DEF Init, HandlerTyped, RemoveTyped
  <2>2. /\ listed \in [Ids -> Rooms \cup {None}] /\ idOf \in [Rooms -> Ids]
        /\ \A i \in Ids : listed[i] # None => idOf[listed[i]] = i
        /\ members \in [Rooms -> SUBSET Clients]
    BY FirstIsARoom DEF Init, Ids
  <2>3. lobbyJobs \in Seq(LobbyJob)
    BY DEF Init
  <2>4. roomJobs \in [Rooms -> Seq(Clients)]
    <3>1. <<>> \in Seq(Clients)
      OBVIOUS
    <3> QED
      BY <3>1 DEF Init
  <2>5. polite \in BOOLEAN /\ undefined \in BOOLEAN /\ assigned \in BOOLEAN
    BY Zenon DEF Init
  <2>6. requests \in 0..MaxRequests
    BY RequestsAreNat DEF Init
  <2>7. /\ entered \subseteq Clients /\ lobby \subseteq Clients /\ late \subseteq Clients
        /\ entering \in Rooms \cup {None} /\ used \subseteq Rooms
        /\ exiting \in [Rooms -> {"idle", "erased", "leaving"}]
    BY DEF Init
  <2> QED
    BY <2>1, <2>2, <2>3, <2>4, <2>5, <2>6, <2>7 DEF TypeOK, HandlerTyped, RemoveTyped
<1>2. JobsBegun /\ EmptyRoomIsGoing
  BY FirstIsARoom DEF Init, JobsBegun, EmptyRoomIsGoing
<1>3. ASSUME NEW c \in Clients PROVE Orderly(c)
  <2>1. RoomsOf(c) = {} /\ RoomOf(c) = None /\ ~Moving(c)
    BY DEF Init, RoomsOf, RoomOf, Moving
  <2>2. Accepts(c) = {} /\ Asks(c) = {} /\ Removals(c) = {}
    BY DEF Init, Accepts, Asks, Removals, JobsOf
  <2>3. \A s \in Rooms : ~HasExit(c, s)
    BY DEF Init, HasExit
  <2> QED
    BY <2>1, <2>2, <2>3 DEF Init, Orderly, OneRoom, OneJob, OneMove, OneEach, HandlerOK,
       NotEntered, ExitOK, RemovalOK, Inserted
<1> QED
  BY <1>1, <1>2, <1>3 DEF IInv

LEMMA IInvAlways == Spec => []IInv
BY InitIInv, IInvStep, PTL DEF Spec

(* The variables have their types, however many clients and rooms there     *)
(* are; the others hold because of it.                                      *)
THEOREM PlacesTyped == Spec => []TypeOK
<1>1. IInv => TypeOK
  BY DEF IInv
<1> QED
  BY IInvAlways, <1>1, PTL

(* No empty room stays in Lobby::_rooms: one of those that left it, on an   *)
(* I/O thread or in the room's own job, has asked for its removal, or is    *)
(* about to test the size (Room.cpp:24-27, 40-43), in whatever order their  *)
(* steps come and whoever enters meanwhile.                                 *)
THEOREM EmptyRoomIsGoingHolds == Spec => []EmptyRoomIsGoing
<1>1. IInv => EmptyRoomIsGoing
  BY DEF IInv
<1> QED
  BY IInvAlways, <1>1, PTL

(* A client that waits for its answers is never in two rooms, its session   *)
(* knows the one it is in and forgets one it was erased from, and it is not *)
(* in a room and in the lobby but while the job that moves it runs, though  *)
(* insert and EnterRoom, erase and OnExitRoom are steps of their own, and   *)
(* Remove may read _room between any two (Room.cpp:11-50, Lobby.cpp:40-63,  *)
(* ClientSessionManager.cpp:24-35).                                         *)
THEOREM OnePlaceHolds == Spec => []OnePlace
<1>1. ASSUME IInv PROVE OnePlace
  <2> SUFFICES ASSUME NEW c \in Clients, polite, c \notin late
               PROVE  /\ Cardinality(RoomsOf(c)) <= 1
                      /\ \A r \in RoomsOf(c) : room[c] = r \/ (Moving(c) /\ entering = r /\ ~assigned)
                      /\ RoomOf(c) # None => c \in members[RoomOf(c)] \/ Forgetting(c)
                      /\ c \in lobby /\ RoomsOf(c) # {} => Moving(c)
    BY DEF OnePlace
  <2>1. OneRoom(c) /\ TypeOK /\ JobsBegun /\ Orderly(c)
    BY <1>1 DEF IInv, Orderly
  <2>2. PICK s : RoomsOf(c) \subseteq {s}
    <3>1. CASE Inserted(c)
      <4>1. c \in lobby
        BY <2>1, <3>1, InEnter DEF Inserted
      <4> QED
        BY <2>1, <4>1 DEF OneRoom
    <3>2. CASE ~Inserted(c)
      BY <2>1, <3>2 DEF OneRoom
    <3> QED
      BY <3>1, <3>2
  <2>3. IsFiniteSet({s}) /\ Cardinality({s}) = 1
    BY FS_Singleton
  <2>4. IsFiniteSet(RoomsOf(c)) /\ Cardinality(RoomsOf(c)) <= Cardinality({s})
    BY <2>2, <2>3, FS_Subset
  <2>5. Cardinality(RoomsOf(c)) <= 1
    BY <2>3, <2>4
  <2>6. c \in lobby /\ RoomsOf(c) # {} => Moving(c)
    BY <2>1 DEF OneRoom
  <2>7. \A r \in RoomsOf(c) : room[c] = r \/ (Moving(c) /\ entering = r /\ ~assigned)
    BY <2>1 DEF OneRoom, Inserted
  <2> QED
    BY <2>1, <2>5, <2>6, <2>7 DEF OneRoom
<1> QED
  BY IInvAlways, <1>1, PTL

(* When the jobs that Remove pushed have run, a client that waited for its  *)
(* answers and had nothing under way is in no room and not in the lobby     *)
(* (ClientSessionManager.cpp:24-35).                                        *)
THEOREM GoneIsNowhereHolds == Spec => []GoneIsNowhere
<1>1. ASSUME IInv PROVE GoneIsNowhere
  <2> SUFFICES ASSUME NEW c \in Clients, polite, link[c] = "gone", c \notin late, ~JobLeft(c)
               PROVE  Nowhere(c)
    BY DEF GoneIsNowhere
  <2>1. ExitOK(c) /\ RemovalOK(c) /\ TypeOK
    BY <1>1 DEF IInv, Orderly
  <2>2. Removals(c) \subseteq JobsOf(c, {"accept", "removeClient"})
    BY DEF Removals, JobsOf
  <2>3. Removals(c) = {} /\ \A r \in Rooms : ~HasExit(c, r)
    BY <2>2 DEF JobLeft, HasExit
  <2>4. c \notin lobby
    BY <2>1, <2>3 DEF RemovalOK, LeavesLast
  <2>5. RoomsOf(c) = {}
    BY <2>1, <2>3 DEF ExitOK, RoomsOf
  <2> QED
    BY <2>4, <2>5 DEF Nowhere
<1> QED
  BY IInvAlways, <1>1, PTL
=============================================================================
