--------------------------- MODULE ServicesProofs ---------------------------
(***************************************************************************)
(* What four of ServerCore's services promise, for any number of threads:  *)
(* JobTimer, Memory, the database layer and the DeadLockProfiler.  They    *)
(* share no state, and nothing here reads the specification of another.    *)
(***************************************************************************)
EXTENDS JobTimer, Memory, DBConnectionPool, DeadLockProfiler, TLAPS,
        WellFoundedInduction, FiniteSetTheorems

-----------------------------------------------------------------------------
(***************************************************************************)
(* JobTimer: a job leaves once, and in the order of the ticks (OnceEach,   *)
(* InOrder).                                                               *)
(*                                                                         *)
(* _distributing makes Distribute a critical section.  So a collected job  *)
(* is pushed before anything collected after it, and what could still be   *)
(* overtaken by a handed or collected job reached _items after it (Behind).*)
(***************************************************************************)

\* The threads between exchange and store.
Inside(t) == at[t] \in {"collect", "next", "push"}

\* One thread at most is inside, and only one that has collected holds jobs.
OneInside ==
  /\ \A t \in Threads : Inside(t) => distributing
  /\ \A t, u \in Threads : Inside(t) /\ Inside(u) => t = u
  /\ \A t \in Threads : due[t] # {} => at[t] \in {"next", "push"}

\* Whatever may leave the timer after i may have a smaller tick only if it
\* reached _items after i had left it.
Behind(i, k) == tick[i] > tick[k] => i \in missed[k]

HandedFirst ==
  \A m \in 1..Len(handed) :
    /\ \A t \in Threads : \A k \in due[t] : Behind(handed[m], k)
    /\ \A k \in items : Behind(handed[m], k)

DueFirst == \A t \in Threads : \A i \in due[t], k \in items : Behind(i, k)

\* A pending job is in one place.
Places ==
  /\ \A t, u \in Threads :
       reserving[t] = reserving[u] /\ reserving[t] # NoJob => t = u
  /\ \A t \in Threads : reserving[t] \notin items
  /\ \A t, u \in Threads : reserving[t] \notin due[u]
  /\ \A t \in Threads : due[t] \cap items = {}

\* A pending job that holds its owner has one.
OwnersLive == \A j \in Pending \cap BoundJobs : OwnerOf[j] \notin destroyed

TimerInv == /\ TypeOK /\ OneInside /\ Places /\ OwnersLive /\ OnceEach
        /\ HandedFirst /\ DueFirst /\ InOrder

-----------------------------------------------------------------------------
(* Types and the critical section *)

LEMMA TimerTypeStep == TypeOK /\ [Next]_vars => TypeOK'
<1> SUFFICES ASSUME TypeOK, [Next]_vars PROVE TypeOK'
  OBVIOUS
<1> USE TicksAreNat
<1>1. CASE \E t \in Threads, j \in Jobs, after \in Delays : BeginReserve(t, j, after)
  <2>1. PICK t \in Threads, j \in Jobs, after \in Delays : BeginReserve(t, j, after)
    BY <1>1
  <2>2. tick' \in [Jobs -> 0..MaxTick] /\ reserving' \in [Threads -> Jobs \cup {NoJob}]
    BY <2>1 DEF BeginReserve, TypeOK
  <2>3. reserved' \subseteq Jobs
    BY <2>1 DEF BeginReserve, TypeOK
  <2> QED
    BY <2>1, <2>2, <2>3 DEF BeginReserve, TypeOK, threadVars
<1>2. CASE \E t \in Threads : PutItem(t)
  <2>1. PICK t \in Threads : PutItem(t)
    BY <1>2
  <2>2. items' \subseteq Jobs /\ reserving' \in [Threads -> Jobs \cup {NoJob}]
    BY <2>1 DEF PutItem, TypeOK
  <2>3. Range(handed) \cup UNION {due[u] : u \in Threads} \subseteq Jobs
    BY DEF Range, TypeOK
  <2>4. missed' \in [Jobs -> SUBSET Jobs]
    BY <2>1, <2>3 DEF PutItem, TypeOK
  <2> QED
    BY <2>1, <2>2, <2>4 DEF PutItem, TypeOK, threadVars
<1>3. CASE \E t \in Threads : ReadClock(t) \/ Enter(t) \/ PushReturns(t) \/ Leave(t)
  <2>1. PICK t \in Threads : ReadClock(t) \/ Enter(t) \/ PushReturns(t) \/ Leave(t)
    BY <1>3
  <2>2. CASE ReadClock(t)
    BY <2>2 DEF ReadClock, TypeOK, history
  <2>3. CASE Enter(t)
    BY <2>3 DEF Enter, TypeOK, history
  <2>4. CASE PushReturns(t)
    BY <2>4 DEF PushReturns, TypeOK, history
  <2>5. CASE Leave(t)
    BY <2>5 DEF Leave, TypeOK, history
  <2> QED
    BY <2>1, <2>2, <2>3, <2>4, <2>5
<1>4. CASE \E t \in Threads : Collect(t)
  <2>1. PICK t \in Threads : Collect(t)
    BY <1>4
  <2>2. due' \in [Threads -> SUBSET Jobs] /\ items' \subseteq Jobs
    BY <2>1 DEF Collect, TypeOK
  <2> QED
    BY <2>1, <2>2 DEF Collect, TypeOK, history
<1>5. CASE \E t \in Threads, j \in Jobs : PushNext(t, j)
  <2>1. PICK t \in Threads, j \in Jobs : PushNext(t, j)
    BY <1>5
  <2>2. due' \in [Threads -> SUBSET Jobs] /\ handed' \in Seq(Jobs)
    BY <2>1 DEF PushNext, TypeOK
  <2>3. dropped' \subseteq Jobs
    BY <2>1 DEF PushNext, TypeOK
  <2>4. /\ at' \in [Threads -> {"idle", "read", "collect", "next", "push"}]
        /\ pushing' \in [Threads -> Jobs \cup {NoJob}]
    BY <2>1 DEF PushNext, TypeOK
  <2> QED
    BY <2>1, <2>2, <2>3, <2>4 DEF PushNext, TypeOK
<1>6. CASE Clear
  BY <1>6 DEF Clear, TypeOK, threadVars
<1>7. CASE \E q \in Queues : Destroy(q)
  BY <1>7 DEF Destroy, TypeOK, threadVars, history
<1>8. CASE Tick
  BY <1>8 DEF Tick, TypeOK, threadVars, history
<1>9. CASE UNCHANGED vars
  BY <1>9 DEF TypeOK, vars, threadVars, history
<1> QED
  BY <1>1, <1>2, <1>3, <1>4, <1>5, <1>6, <1>7, <1>8, <1>9 DEF Next, Distribute

\* The steps that leave at, due and distributing alone.
Quiet == UNCHANGED <<at, due, distributing>>

LEMMA InsideStep == TypeOK /\ OneInside /\ [Next]_vars => OneInside'
<1> SUFFICES ASSUME TypeOK, OneInside, [Next]_vars PROVE OneInside'
  OBVIOUS
<1>1. CASE Quiet
  BY <1>1 DEF Quiet, OneInside, Inside
<1>2. CASE \E t \in Threads : ReadClock(t) \/ PushReturns(t)
  <2>1. PICK t \in Threads : ReadClock(t) \/ PushReturns(t)
    BY <1>2
  <2>2. CASE ReadClock(t)
    BY <2>2 DEF ReadClock, OneInside, Inside, TypeOK
  <2>3. CASE PushReturns(t)
    BY <2>3 DEF PushReturns, OneInside, Inside, TypeOK
  <2> QED
    BY <2>1, <2>2, <2>3
<1>3. CASE \E t \in Threads : Enter(t)
  <2>1. PICK t \in Threads : Enter(t)
    BY <1>3
  <2>2. /\ UNCHANGED due /\ distributing' = TRUE
        /\ at' = [at EXCEPT ![t] = IF distributing THEN "idle" ELSE "collect"]
        /\ due[t] = {}
    BY <2>1 DEF Enter, OneInside
  <2>3. CASE distributing
    BY <2>2, <2>3 DEF OneInside, Inside, TypeOK
  <2>4. CASE ~distributing
    <3>1. \A u \in Threads : ~Inside(u)
      BY <2>4 DEF OneInside
    <3> QED
      BY <2>2, <2>4, <3>1 DEF OneInside, Inside, TypeOK
  <2> QED
    BY <2>3, <2>4
<1>4. CASE \E t \in Threads : Collect(t)
  BY <1>4 DEF Collect, OneInside, Inside, TypeOK
<1>5. CASE \E t \in Threads, j \in Jobs : PushNext(t, j)
  <2>1. PICK t \in Threads, j \in Jobs : PushNext(t, j)
    BY <1>5
  <2>2. /\ UNCHANGED distributing
        /\ at' = [at EXCEPT ![t] = at'[t]] /\ at'[t] \in {"next", "push"}
        /\ at[t] = "next"
        /\ due' = [due EXCEPT ![t] = @ \ {j}]
    BY <2>1 DEF PushNext, TypeOK
  <2> QED
    BY <2>2 DEF OneInside, Inside, TypeOK
<1>6. CASE \E t \in Threads : Leave(t)
  BY <1>6 DEF Leave, OneInside, Inside, TypeOK
<1> QED
  BY <1>1, <1>2, <1>3, <1>4, <1>5, <1>6
     DEF Next, Distribute, BeginReserve, PutItem, Clear, Destroy, Tick, vars,
         threadVars, history, Quiet

\* Inside Distribute, no other thread holds collected jobs.
LEMMA OthersEmpty ==
  ASSUME OneInside, NEW t \in Threads, Inside(t)
  PROVE  \A u \in Threads : u # t => due[u] = {}
BY DEF OneInside, Inside

-----------------------------------------------------------------------------
(* Every job is in one place *)

\* Where a pending job may be.
Held(j) == \/ j \in items
           \/ \E t \in Threads : j \in due[t] \/ (j = reserving[t] /\ j # NoJob)

LEMMA PendingIsHeld == TypeOK => \A j : j \in Pending <=> Held(j)
BY NoJobIsNone DEF Pending, Held, TypeOK

LEMMA PendingIsHeldNext == TypeOK' => \A j : j \in Pending' <=> Held(j)'
BY NoJobIsNone DEF Pending, Held, TypeOK

LEMMA RangeAppend ==
  ASSUME NEW S, NEW s \in Seq(S), NEW e \in S
  PROVE  Range(Append(s, e)) = Range(s) \cup {e}
<1>1. /\ Len(Append(s, e)) = Len(s) + 1 /\ Append(s, e)[Len(s) + 1] = e
      /\ \A n \in 1..Len(s) : Append(s, e)[n] = s[n]
      /\ Len(s) \in Nat
  OBVIOUS
<1>2. DOMAIN Append(s, e) = 1..(Len(s) + 1) /\ DOMAIN s = 1..Len(s)
  BY <1>1
<1>3. ASSUME NEW x \in Range(Append(s, e)) PROVE x \in Range(s) \cup {e}
  BY <1>1, <1>2 DEF Range
<1>4. ASSUME NEW x \in Range(s) PROVE x \in Range(Append(s, e))
  <2>1. PICK n \in 1..Len(s) : x = s[n]
    BY <1>2 DEF Range
  <2>2. n \in DOMAIN Append(s, e) /\ Append(s, e)[n] = x
    BY <1>1, <1>2, <2>1
  <2> QED
    BY <2>2 DEF Range
<1>5. e \in Range(Append(s, e))
  <2>1. Len(s) + 1 \in DOMAIN Append(s, e)
    BY <1>1, <1>2
  <2> QED
    BY <1>1, <2>1 DEF Range
<1> QED
  BY <1>3, <1>4, <1>5

\* What the three steps that move a job do to Pending.
LEMMA PendingMoves ==
  ASSUME TypeOK, TypeOK', OneInside, Places
  PROVE  /\ \A t \in Threads, j \in Jobs, after \in Delays :
              BeginReserve(t, j, after) => Pending' = Pending \cup {j}
         /\ \A t \in Threads : PutItem(t) \/ Collect(t) => Pending' = Pending
         /\ \A t \in Threads, j \in Jobs :
              PushNext(t, j) => Pending' = Pending \ {j} /\ j \in Pending
         /\ Clear => Pending' = Pending \ items
<1> USE PendingIsHeld, PendingIsHeldNext
<1>1. ASSUME NEW t \in Threads, NEW j \in Jobs, NEW after \in Delays,
             BeginReserve(t, j, after)
      PROVE  Pending' = Pending \cup {j}
  <2>1. /\ reserving[t] = NoJob /\ reserving' = [reserving EXCEPT ![t] = j]
        /\ UNCHANGED <<items, due>> /\ j # NoJob
    BY <1>1, NoJobIsNone DEF BeginReserve, InUserCode, threadVars
  <2>2. \A k : Held(k)' <=> Held(k) \/ k = j
    BY <2>1 DEF Held, TypeOK
  <2> QED
    BY <2>2
<1>2. ASSUME NEW t \in Threads, PutItem(t) PROVE Pending' = Pending
  <2>1. /\ reserving[t] # NoJob /\ reserving' = [reserving EXCEPT ![t] = NoJob]
        /\ items' = items \cup {reserving[t]} /\ UNCHANGED due
    BY <1>2 DEF PutItem, threadVars
  <2>2. reserving'[t] = NoJob /\ \A u \in Threads : u # t => reserving'[u] = reserving[u]
    BY <2>1 DEF TypeOK
  <2>3. ASSUME NEW k PROVE Held(k)' <=> Held(k)
    <3>1. CASE k = reserving[t]
      BY <2>1, <3>1 DEF Held
    <3>2. CASE k # reserving[t]
      BY <2>1, <2>2, <3>2 DEF Held
    <3> QED
      BY <3>1, <3>2
  <2> QED
    BY <2>3
<1>3. ASSUME NEW t \in Threads, Collect(t) PROVE Pending' = Pending
  <2>1. /\ due[t] = {} /\ UNCHANGED reserving
        /\ due' = [due EXCEPT ![t] = {j \in items : tick[j] <= now[t]}]
        /\ items' = {j \in items : tick[j] > now[t]}
    BY <1>3 DEF Collect, OneInside
  <2>2. \A k \in items : k \in items' <=> k \notin due'[t]
    BY <2>1 DEF TypeOK
  <2>3. items' \subseteq items /\ due'[t] \subseteq items
    BY <2>1 DEF TypeOK
  <2>4. \A u \in Threads : u # t => due'[u] = due[u]
    BY <2>1 DEF TypeOK
  <2>5. \A k : Held(k)' <=> Held(k)
    BY <2>1, <2>2, <2>3, <2>4 DEF Held
  <2> QED
    BY <2>5
<1>4. ASSUME NEW t \in Threads, NEW j \in Jobs, PushNext(t, j)
      PROVE  Pending' = Pending \ {j} /\ j \in Pending
  <2>1. /\ j \in due[t] /\ due' = [due EXCEPT ![t] = @ \ {j}]
        /\ Inside(t) /\ UNCHANGED <<items, reserving>>
    BY <1>4 DEF PushNext, Inside
  <2>2. \A u \in Threads : u # t => due[u] = {}
    BY <2>1, OthersEmpty
  <2>3. j \notin items /\ \A u \in Threads : reserving[u] # j
    BY <2>1 DEF Places
  <2>4. \A k : Held(k)' <=> Held(k) /\ k # j
    BY <2>1, <2>2, <2>3 DEF Held, TypeOK
  <2> QED
    BY <2>1, <2>4 DEF Held
<1>5. ASSUME Clear PROVE Pending' = Pending \ items
  <2>1. items' = {} /\ UNCHANGED <<due, reserving>>
    BY <1>5 DEF Clear, threadVars
  <2>2. \A k : Held(k)' <=> Held(k) /\ k \notin items
    BY <2>1 DEF Held, Places
  <2> QED
    BY <2>2
<1> QED
  BY <1>1, <1>2, <1>3, <1>4, <1>5

LEMMA PlacesStep ==
  ASSUME TypeOK, OneInside, Places, OnceEach, TypeOK', [Next]_vars
  PROVE  Places'
<1> USE NoJobIsNone
<1>1. CASE UNCHANGED <<items, due, reserving>>
  BY <1>1 DEF Places
<1>2. CASE \E t \in Threads, j \in Jobs, after \in Delays : BeginReserve(t, j, after)
  <2>1. PICK t \in Threads, j \in Jobs, after \in Delays : BeginReserve(t, j, after)
    BY <1>2
  <2>2. j \notin Pending /\ j # NoJob
    BY <2>1 DEF BeginReserve, OnceEach
  <2>3. /\ j \notin items /\ \A u \in Threads : j \notin due[u] /\ reserving[u] # j
    BY <2>2, PendingIsHeld DEF Held
  <2>4. reserving' = [reserving EXCEPT ![t] = j] /\ UNCHANGED <<items, due>>
    BY <2>1 DEF BeginReserve, threadVars
  <2> QED
    BY <2>3, <2>4 DEF Places, TypeOK
<1>3. CASE \E t \in Threads : PutItem(t)
  <2>1. PICK t \in Threads : PutItem(t)
    BY <1>3
  <2>2. /\ reserving[t] # NoJob /\ reserving' = [reserving EXCEPT ![t] = NoJob]
        /\ items' = items \cup {reserving[t]} /\ UNCHANGED due
    BY <2>1 DEF PutItem, threadVars
  <2>3. NoJob \notin items' /\ \A u \in Threads : NoJob \notin due[u]
    BY <2>2 DEF TypeOK
  <2>4. \A u \in Threads : u # t => reserving[u] # reserving[t]
    BY <2>2 DEF Places
  <2>5. \A u \in Threads : reserving'[u] \notin items'
    BY <2>2, <2>3, <2>4 DEF Places, TypeOK
  <2>6. \A u, v \in Threads : reserving'[u] \notin due'[v]
    BY <2>2, <2>3 DEF Places, TypeOK
  <2>7. \A u, v \in Threads :
          reserving'[u] = reserving'[v] /\ reserving'[u] # NoJob => u = v
    BY <2>2 DEF Places, TypeOK
  <2>8. \A u \in Threads : due'[u] \cap items' = {}
    BY <2>2 DEF Places
  <2> QED
    BY <2>5, <2>6, <2>7, <2>8 DEF Places
<1>4. CASE \E t \in Threads : Collect(t)
  <2>1. PICK t \in Threads : Collect(t)
    BY <1>4
  <2>2. /\ UNCHANGED reserving
        /\ due' = [due EXCEPT ![t] = {j \in items : tick[j] <= now[t]}]
        /\ items' = {j \in items : tick[j] > now[t]}
    BY <2>1 DEF Collect
  <2>3. due'[t] \cap items' = {} /\ items' \subseteq items /\ due'[t] \subseteq items
    BY <2>2 DEF TypeOK
  <2>4. \A u \in Threads : u # t => due'[u] = due[u]
    BY <2>2 DEF TypeOK
  <2> QED
    BY <2>2, <2>3, <2>4 DEF Places
<1>5. CASE \E t \in Threads, j \in Jobs : PushNext(t, j)
  <2>1. PICK t \in Threads, j \in Jobs : PushNext(t, j)
    BY <1>5
  <2>2. UNCHANGED <<items, reserving>> /\ \A u \in Threads : due'[u] \subseteq due[u]
    BY <2>1 DEF PushNext, TypeOK
  <2> QED
    BY <2>2 DEF Places
<1>6. CASE Clear
  BY <1>6 DEF Clear, Places, threadVars
<1> QED
  BY <1>1, <1>2, <1>3, <1>4, <1>5, <1>6
     DEF Next, Distribute, ReadClock, Enter, PushReturns, Leave, Destroy, Tick,
         vars, threadVars, history

LEMMA OwnersStep ==
  ASSUME TypeOK, OneInside, Places, OwnersLive, TypeOK', [Next]_vars
  PROVE  OwnersLive'
<1>1. CASE \E t \in Threads, j \in Jobs, after \in Delays : BeginReserve(t, j, after)
  <2>1. PICK t \in Threads, j \in Jobs, after \in Delays : BeginReserve(t, j, after)
    BY <1>1
  <2>2. OwnerOf[j] \notin destroyed /\ UNCHANGED destroyed
    BY <2>1 DEF BeginReserve
  <2>3. Pending' = Pending \cup {j}
    BY <2>1, PendingMoves
  <2> QED
    BY <2>2, <2>3 DEF OwnersLive
<1>2. CASE \E q \in Queues : Destroy(q)
  <2>1. PICK q \in Queues : Destroy(q)
    BY <1>2
  <2>2. Pending' = Pending
    BY <2>1 DEF Destroy, Pending, threadVars
  <2>3. destroyed' = destroyed \cup {q} /\ \A j \in Pending \cap BoundJobs : OwnerOf[j] # q
    BY <2>1 DEF Destroy
  <2> QED
    BY <2>2, <2>3 DEF OwnersLive
<1>3. CASE Pending' \subseteq Pending /\ UNCHANGED destroyed
  BY <1>3 DEF OwnersLive
<1>4. CASE \/ \E t \in Threads : PutItem(t) \/ Collect(t)
           \/ \E t \in Threads, j \in Jobs : PushNext(t, j)
           \/ Clear
  <2>1. Pending' \subseteq Pending
    BY <1>4, PendingMoves
  <2>2. UNCHANGED destroyed
    BY <1>4 DEF PutItem, Collect, PushNext, Clear
  <2> QED
    BY <1>3, <2>1, <2>2
<1>5. CASE UNCHANGED <<items, due, reserving, destroyed>>
  <2>1. Pending' = Pending
    BY <1>5 DEF Pending
  <2> QED
    BY <1>3, <1>5, <2>1
<1> QED
  BY <1>1, <1>2, <1>4, <1>5
     DEF Next, Distribute, ReadClock, Enter, PushReturns, Leave, Tick,
         vars, threadVars, history

LEMMA OnceStep ==
  ASSUME TypeOK, OneInside, Places, OwnersLive, OnceEach, TypeOK', [Next]_vars
  PROVE  OnceEach'
<1>1. CASE Pending' = Pending /\ UNCHANGED <<handed, cleared, reserved, dropped>>
  BY <1>1 DEF OnceEach, Range
<1>2. CASE \E t \in Threads, j \in Jobs, after \in Delays : BeginReserve(t, j, after)
  <2>1. PICK t \in Threads, j \in Jobs, after \in Delays : BeginReserve(t, j, after)
    BY <1>2
  <2>2. /\ Pending' = Pending \cup {j} /\ j \notin reserved
        /\ reserved' = reserved \cup {j} /\ UNCHANGED <<handed, cleared, dropped>>
    BY <2>1, PendingMoves DEF BeginReserve
  <2>3. Range(handed)' = Range(handed)
    BY <2>2 DEF Range
  <2> QED
    BY <2>2, <2>3 DEF OnceEach
<1>3. CASE \E t \in Threads, j \in Jobs : PushNext(t, j)
  <2>1. PICK t \in Threads, j \in Jobs : PushNext(t, j)
    BY <1>3
  <2>2. /\ Pending' = Pending \ {j} /\ j \in Pending
        /\ UNCHANGED <<reserved, cleared>> /\ handed' = Append(handed, j)
    BY <2>1, PendingMoves DEF PushNext
  <2>3. handed \in Seq(Jobs)
    BY DEF TypeOK
  <2>4. Range(handed)' = Range(handed) \cup {j} /\ j \notin Range(handed) \cup cleared
    BY <2>2, <2>3, RangeAppend DEF OnceEach, Range
  <2>5. \A n \in 1..Len(handed) : handed[n] # j
    BY <2>3, <2>4 DEF Range
  <2>6. \A m, n \in 1..Len(handed') : handed'[m] = handed'[n] => m = n
    BY <2>2, <2>3, <2>5 DEF OnceEach
  <2>7. dropped' \cap BoundJobs = {}
    <3>1. j \in BoundJobs => dropped' = dropped
      BY <2>1, <2>2 DEF PushNext, OwnersLive
    <3>2. dropped' \subseteq dropped \cup {j}
      BY <2>1 DEF PushNext
    <3> QED
      BY <3>1, <3>2 DEF OnceEach
  <2> QED
    BY <2>2, <2>4, <2>6, <2>7 DEF OnceEach
<1>4. CASE Clear
  <2>1. /\ Pending' = Pending \ items /\ items \subseteq Pending
        /\ cleared' = cleared \cup items /\ UNCHANGED <<reserved, handed, dropped>>
    BY <1>4, PendingMoves, PendingIsHeld DEF Clear, Held
  <2>2. Range(handed)' = Range(handed)
    BY <2>1 DEF Range
  <2> QED
    BY <2>1, <2>2 DEF OnceEach
<1>5. CASE \E t \in Threads : PutItem(t) \/ Collect(t)
  <2>1. Pending' = Pending /\ UNCHANGED <<handed, cleared, reserved, dropped>>
    BY <1>5, PendingMoves DEF PutItem, Collect, history
  <2> QED
    BY <1>1, <2>1
<1>6. CASE UNCHANGED <<items, due, reserving, handed, cleared, reserved, dropped>>
  <2>1. Pending' = Pending
    BY <1>6 DEF Pending
  <2> QED
    BY <1>1, <1>6, <2>1
<1> QED
  BY <1>2, <1>3, <1>4, <1>5, <1>6
     DEF Next, Distribute, ReadClock, Enter, PushReturns, Leave, Destroy, Tick,
         vars, threadVars, history

-----------------------------------------------------------------------------
(* The order *)

\* What is pending or handed was reserved, so a fresh job is none of it.
LEMMA FreshIsNowhere ==
  ASSUME TypeOK, OnceEach, NEW j, j \notin reserved, j # NoJob
  PROVE  /\ j \notin items
         /\ \A t \in Threads : j \notin due[t] /\ reserving[t] # j
         /\ \A n \in 1..Len(handed) : handed[n] # j
<1>1. j \notin Pending /\ j \notin Range(handed)
  BY DEF OnceEach
<1>2. \A n \in 1..Len(handed) : handed[n] \in Range(handed)
  BY DEF Range, TypeOK
<1> QED
  BY <1>1, <1>2, PendingIsHeld DEF Held

LEMMA OrderStep ==
  ASSUME TimerInv, [Next]_vars
  PROVE  HandedFirst' /\ DueFirst' /\ InOrder'
<1> USE DEF Behind
<1>0. TypeOK /\ OneInside /\ Places /\ OnceEach /\ HandedFirst /\ DueFirst /\ InOrder
  BY DEF TimerInv
<1>1. CASE \E t \in Threads, j \in Jobs, after \in Delays : BeginReserve(t, j, after)
  <2>1. PICK t \in Threads, j \in Jobs, after \in Delays : BeginReserve(t, j, after)
    BY <1>1
  <2>2. /\ UNCHANGED <<items, due, handed, missed>>
        /\ \A k \in Jobs : k # j => tick'[k] = tick[k]
        /\ j \notin reserved /\ j # NoJob
    BY <1>0, <2>1, NoJobIsNone DEF BeginReserve, threadVars, TypeOK
  <2>3. /\ \A k \in items : tick'[k] = tick[k]
        /\ \A u \in Threads : \A k \in due[u] : tick'[k] = tick[k]
        /\ \A n \in 1..Len(handed) : tick'[handed[n]] = tick[handed[n]]
    BY <1>0, <2>2, FreshIsNowhere DEF TypeOK
  <2>4. HandedFirst'
    BY <1>0, <2>2, <2>3 DEF HandedFirst
  <2>5. DueFirst'
    BY <1>0, <2>2, <2>3 DEF DueFirst
  <2>6. InOrder'
    BY <1>0, <2>2, <2>3 DEF InOrder
  <2> QED
    BY <2>4, <2>5, <2>6
<1>2. CASE \E t \in Threads : PutItem(t)
  <2>1. PICK t \in Threads : PutItem(t)
    BY <1>2
  <2>2. PICK j \in Jobs : j = reserving[t]
    BY <1>0, <2>1 DEF PutItem, TypeOK
  <2>3. PICK gone \in SUBSET Jobs :
          /\ gone = Range(handed) \cup UNION {due[u] : u \in Threads}
          /\ missed' = [missed EXCEPT ![j] = gone]
    <3>1. Range(handed) \cup UNION {due[u] : u \in Threads} \in SUBSET Jobs
      BY <1>0 DEF TypeOK, Range
    <3> QED
      BY <2>1, <2>2, <3>1 DEF PutItem
  <2>4. /\ \A n \in 1..Len(handed) : handed[n] \in gone
        /\ \A u \in Threads : \A i \in due[u] : i \in gone
    BY <1>0, <2>3 DEF Range, TypeOK
  <2>5. items' = items \cup {j} /\ UNCHANGED <<tick, due, handed>>
    BY <2>1, <2>2 DEF PutItem, threadVars
  <2>6. j \notin items /\ (\A u \in Threads : j \notin due[u])
    BY <1>0, <2>2 DEF Places
  <2>7. \A n \in 1..Len(handed) : handed[n] # j
    <3>1. j \in Pending
      BY <1>0, <2>2, PendingIsHeld, NoJobIsNone DEF Held
    <3> QED
      BY <1>0, <3>1 DEF OnceEach, Range, TypeOK
  <2>8. missed'[j] = gone /\ \A k \in Jobs : k # j => missed'[k] = missed[k]
    BY <1>0, <2>3 DEF TypeOK
  <2>9. HandedFirst'
    <3>1. ASSUME NEW m \in 1..Len(handed), NEW u \in Threads, NEW k \in due[u]
          PROVE  Behind(handed[m], k)'
      <4>1. k # j /\ k \in Jobs
        BY <1>0, <2>6 DEF TypeOK
      <4> QED
        BY <1>0, <4>1, <2>5, <2>8 DEF HandedFirst
    <3>2. ASSUME NEW m \in 1..Len(handed), NEW k \in items
          PROVE  Behind(handed[m], k)'
      <4>1. k # j /\ k \in Jobs
        BY <1>0, <2>6 DEF TypeOK
      <4> QED
        BY <1>0, <4>1, <2>5, <2>8 DEF HandedFirst
    <3>3. ASSUME NEW m \in 1..Len(handed) PROVE Behind(handed[m], j)'
      BY <2>4, <2>5, <2>8
    <3> QED
      BY <2>5, <3>1, <3>2, <3>3 DEF HandedFirst
  <2>10. DueFirst'
    <3>1. ASSUME NEW u \in Threads, NEW i \in due[u], NEW k \in items
          PROVE  Behind(i, k)'
      <4>1. k # j /\ k \in Jobs
        BY <1>0, <2>6 DEF TypeOK
      <4> QED
        BY <1>0, <4>1, <2>5, <2>8 DEF DueFirst
    <3>2. ASSUME NEW u \in Threads, NEW i \in due[u] PROVE Behind(i, j)'
      BY <2>4, <2>5, <2>8
    <3> QED
      BY <2>5, <3>1, <3>2 DEF DueFirst
  <2>11. InOrder'
    <3>1. \A n \in 1..Len(handed) : missed'[handed[n]] = missed[handed[n]]
      BY <1>0, <2>7, <2>8 DEF TypeOK
    <3> QED
      BY <1>0, <2>5, <3>1 DEF InOrder
  <2> QED
    BY <2>9, <2>10, <2>11
<1>3. CASE \E t \in Threads : Collect(t)
  <2>1. PICK t \in Threads : Collect(t)
    BY <1>3
  <2>2. /\ due' = [due EXCEPT ![t] = {j \in items : tick[j] <= now[t]}]
        /\ items' = {j \in items : tick[j] > now[t]}
        /\ UNCHANGED <<tick, handed, missed>> /\ Inside(t)
    BY <2>1 DEF Collect, history, Inside
  <2>3. \A u \in Threads : u # t => due[u] = {}
    BY <1>0, <2>2, OthersEmpty
  <2>4. /\ \A u \in Threads : u # t => due'[u] = {}
        /\ \A i \in due'[t] : i \in items /\ tick[i] <= now[t]
        /\ \A k \in items' : k \in items /\ tick[k] > now[t]
    BY <1>0, <2>2, <2>3 DEF TypeOK
  <2>5. HandedFirst'
    BY <1>0, <2>2, <2>4 DEF HandedFirst
  <2>6. \A i \in due'[t], k \in items' : tick[i] <= tick[k]
    <3> SUFFICES ASSUME NEW i \in due'[t], NEW k \in items' PROVE tick[i] <= tick[k]
      OBVIOUS
    <3>1. tick[i] \in Int /\ tick[k] \in Int /\ now[t] \in Int
      BY <1>0, <2>4, TicksAreNat DEF TypeOK
    <3> QED
      BY <2>4, <3>1
  <2>7. \A i \in due'[t], k \in items' : ~(tick[i] > tick[k])
    BY <1>0, <2>4, <2>6, TicksAreNat DEF TypeOK
  <2>8. DueFirst'
    BY <2>2, <2>4, <2>7 DEF DueFirst
  <2> QED
    BY <1>0, <2>2, <2>5, <2>8 DEF InOrder
<1>4. CASE \E t \in Threads, j \in Jobs : PushNext(t, j)
  <2>1. PICK t \in Threads, j \in Jobs : PushNext(t, j)
    BY <1>4
  <2>2. /\ j \in due[t] /\ (\A k \in due[t] : tick[j] <= tick[k])
        /\ due' = [due EXCEPT ![t] = @ \ {j}]
        /\ handed' = Append(handed, j)
        /\ UNCHANGED <<tick, items, missed>> /\ Inside(t)
    BY <2>1 DEF PushNext, Inside
  <2>3. \A u \in Threads : u # t => due[u] = {}
    BY <1>0, <2>2, OthersEmpty
  <2>4. /\ Len(handed') = Len(handed) + 1 /\ Len(handed) \in Nat
        /\ handed'[Len(handed) + 1] = j
        /\ \A n \in 1..Len(handed) : handed'[n] = handed[n]
    BY <1>0, <2>2 DEF TypeOK
  <2>5. \A u \in Threads : \A k \in due'[u] : u = t /\ k \in due[t]
    BY <1>0, <2>2, <2>3 DEF TypeOK
  <2>6. \A k \in due[t] : ~(tick[j] > tick[k])
    BY <1>0, <2>2, TicksAreNat DEF TypeOK
  <2>7. HandedFirst'
    <3>1. ASSUME NEW m \in 1..Len(handed'), NEW u \in Threads, NEW k \in due'[u]
          PROVE  tick[handed'[m]] > tick[k] => handed'[m] \in missed[k]
      <4>1. CASE m = Len(handed) + 1
        BY <2>4, <2>5, <2>6, <4>1
      <4>2. CASE m \in 1..Len(handed)
        BY <1>0, <2>4, <2>5, <4>2 DEF HandedFirst
      <4> QED
        BY <2>4, <4>1, <4>2
    <3>2. ASSUME NEW m \in 1..Len(handed'), NEW k \in items
          PROVE  tick[handed'[m]] > tick[k] => handed'[m] \in missed[k]
      <4>1. CASE m = Len(handed) + 1
        BY <1>0, <2>2, <2>4, <4>1 DEF DueFirst
      <4>2. CASE m \in 1..Len(handed)
        BY <1>0, <2>4, <4>2 DEF HandedFirst
      <4> QED
        BY <2>4, <4>1, <4>2
    <3>4. \A m \in 1..Len(handed') : \A k \in items' : Behind(handed[m], k)'
      BY <2>2, <3>2
    <3>3. \A m \in 1..Len(handed') : \A u \in Threads :
            \A k \in due'[u] : Behind(handed[m], k)'
      BY <2>2, <3>1
    <3> QED
      BY Zenon, <3>3, <3>4 DEF HandedFirst
  <2>8. DueFirst'
    BY <1>0, <2>2, <2>5 DEF DueFirst
  <2>9. InOrder'
    <3> SUFFICES ASSUME NEW m \in 1..Len(handed'), NEW n \in 1..Len(handed'), m < n,
                        tick'[handed'[m]] > tick'[handed'[n]]
                 PROVE  handed'[m] \in missed'[handed'[n]]
      BY DEF InOrder
    <3>1. m \in 1..Len(handed)
      BY <2>4
    <3>2. CASE n = Len(handed) + 1
      BY <1>0, <2>2, <2>4, <3>1, <3>2 DEF HandedFirst
    <3>3. CASE n \in 1..Len(handed)
      BY <1>0, <2>2, <2>4, <3>1, <3>3 DEF InOrder
    <3> QED
      BY <2>4, <3>2, <3>3
  <2> QED
    BY <2>7, <2>8, <2>9
<1>5. CASE Clear
  <2>1. items' = {} /\ UNCHANGED <<tick, due, handed, missed>>
    BY <1>5 DEF Clear, threadVars
  <2> QED
    BY <1>0, <2>1 DEF HandedFirst, DueFirst, InOrder
<1>6. CASE UNCHANGED <<tick, items, due, handed, missed>>
  BY <1>0, <1>6 DEF HandedFirst, DueFirst, InOrder
<1> QED
  BY <1>1, <1>2, <1>3, <1>4, <1>5, <1>6
     DEF Next, Distribute, ReadClock, Enter, PushReturns, Leave, Destroy, Tick,
         vars, threadVars, history

-----------------------------------------------------------------------------
(* The theorems *)

LEMMA InitTimerInv == Init => TimerInv
<1> SUFFICES ASSUME Init PROVE TimerInv
  OBVIOUS
<1>1. TypeOK
  <2>1. /\ clock \in 0..MaxTick /\ clears \in 0..MaxClears
        /\ tick \in [Jobs -> 0..MaxTick] /\ now \in [Threads -> 0..MaxTick]
    BY TicksAreNat DEF Init
  <2>2. /\ due \in [Threads -> SUBSET Jobs] /\ missed \in [Jobs -> SUBSET Jobs]
        /\ handed \in Seq(Jobs)
    BY DEF Init
  <2> QED
    BY <2>1, <2>2 DEF Init, TypeOK
<1>2. OneInside /\ Places /\ HandedFirst /\ DueFirst /\ InOrder
  BY DEF Init, OneInside, Inside, Places, HandedFirst, DueFirst, InOrder
<1>3. Pending = {} /\ Range(handed) = {}
  <2>1. \A j : j \notin Pending
    BY <1>1, PendingIsHeld DEF Init, Held
  <2> QED
    BY <2>1 DEF Init, Range
<1>4. OnceEach /\ OwnersLive
  BY <1>3 DEF Init, OnceEach, OwnersLive
<1> QED
  BY <1>1, <1>2, <1>4 DEF TimerInv

LEMMA TimerInvStep == TimerInv /\ [Next]_vars => TimerInv'
<1> SUFFICES ASSUME TimerInv, [Next]_vars PROVE TimerInv'
  OBVIOUS
<1>1. TypeOK'
  BY TimerTypeStep DEF TimerInv
<1>2. OneInside'
  BY InsideStep DEF TimerInv
<1>3. Places' /\ OwnersLive' /\ OnceEach'
  BY <1>1, PlacesStep, OwnersStep, OnceStep DEF TimerInv
<1>4. HandedFirst' /\ DueFirst' /\ InOrder'
  BY OrderStep
<1> QED
  BY <1>1, <1>2, <1>3, <1>4 DEF TimerInv

LEMMA TimerInvAlways == Spec => []TimerInv
<1>1. Init => TimerInv
  BY InitTimerInv
<1>2. TimerInv /\ [Next]_vars => TimerInv'
  BY TimerInvStep
<1> QED
  BY <1>1, <1>2, PTL DEF Spec

(* Jobs leave the timer in the order of their ticks, for any number of      *)
(* workers and jobs (JobTimer::Distribute).                                 *)
THEOREM TimerInOrder == Spec => []InOrder
<1>1. TimerInv => InOrder
  BY DEF TimerInv
<1> QED
  BY <1>1, TimerInvAlways, PTL

(* A reserved job leaves the timer once, and a job that holds its owner is  *)
(* never dropped (JobTimer::Reserve, Distribute, Clear, JobQueue::DoTimer). *)
THEOREM TimerOnceEach == Spec => []OnceEach
<1>1. TimerInv => OnceEach
  BY DEF TimerInv
<1> QED
  BY <1>1, TimerInvAlways, PTL

-----------------------------------------------------------------------------
(***************************************************************************)
(* Memory: no assertion fires, every request gets a block that fits and    *)
(* the counters tell the blocks (AssertionsHold, RequestFits,              *)
(* CountersSettle); what StompAllocator frees is what it got from the      *)
(* system.                                                                 *)
(*                                                                         *)
(* A block is in one place: lent, in one free list, or in one call.  Its   *)
(* capacity is that of the pool it came from, and the header of a lent     *)
(* block is the size it was asked for, so the table leads it back there.   *)
(* Every step changes a pool's counter by what it adds to or takes from    *)
(* the sets that the counter is compared with.                             *)
(***************************************************************************)

-----------------------------------------------------------------------------
(* Sizes *)

LEMMA PoolSizesAreNat == \A size \in PoolSizes : size \in Nat /\ size > 0
BY DEF PoolSizes

LEMMA GradeIsInt == ASSUME NEW n \in 1..MAX_ALLOC_SIZE PROVE Grade(n) \in Int
<1>1. n \in Int
  BY DEF MAX_ALLOC_SIZE
<1>2. CASE n <= 1024
  BY <1>1, <1>2 DEF Grade
<1>3. CASE n \in 1025..2048
  BY <1>1, <1>3 DEF Grade
<1>4. CASE n > 2048
  BY <1>1, <1>4 DEF Grade
<1> QED
  BY <1>1, <1>2, <1>3, <1>4

LEMMA SomePoolFits ==
  ASSUME NEW n \in 1..MAX_ALLOC_SIZE
  PROVE  \E size \in PoolSizes : n <= size /\ size <= n + Grade(n) - 1
<1>1. n \in Int /\ 1 <= n /\ n <= 4096
  BY DEF MAX_ALLOC_SIZE
<1>2. CASE n <= 992
  <2>1. PICK i \in Int : i = (n + 31) \div 32
    BY <1>1
  <2>2. i \in 1..31 /\ n <= 32 * i /\ 32 * i <= n + 31
    BY <1>1, <1>2, <2>1
  <2>3. 32 * i \in PoolSizes
    BY <2>2 DEF PoolSizes
  <2>4. Grade(n) = 32
    BY <1>1, <1>2 DEF Grade
  <2> QED
    BY <1>1, <2>2, <2>3, <2>4
<1>3. CASE 992 < n /\ n <= 1024
  <2>1. 1024 + 128 * 0 \in PoolSizes
    BY DEF PoolSizes
  <2>2. Grade(n) = 32
    BY <1>1, <1>3 DEF Grade
  <2> QED
    BY <1>1, <1>3, <2>1, <2>2
<1>4. CASE 1024 < n /\ n <= 1920
  <2>1. PICK i \in Int : i = (n - 897) \div 128
    BY <1>1
  <2>2. i \in 0..7 /\ n <= 1024 + 128 * i /\ 1024 + 128 * i <= n + 127
    BY <1>1, <1>4, <2>1
  <2>3. 1024 + 128 * i \in PoolSizes
    BY <2>2 DEF PoolSizes
  <2>4. Grade(n) = 128
    BY <1>1, <1>4 DEF Grade
  <2> QED
    BY <1>1, <2>2, <2>3, <2>4
<1>5. CASE 1920 < n /\ n <= 2048
  <2>1. 2048 + 256 * 0 \in PoolSizes
    BY DEF PoolSizes
  <2>2. Grade(n) = 128
    BY <1>1, <1>5 DEF Grade
  <2> QED
    BY <1>1, <1>5, <2>1, <2>2
<1>6. CASE 2048 < n
  <2>1. PICK i \in Int : i = (n - 1793) \div 256
    BY <1>1
  <2>2. i \in 0..8 /\ n <= 2048 + 256 * i /\ 2048 + 256 * i <= n + 255
    BY <1>1, <1>6, <2>1
  <2>3. 2048 + 256 * i \in PoolSizes
    BY <2>2 DEF PoolSizes
  <2>4. Grade(n) = 256
    BY <1>1, <1>6 DEF Grade
  <2> QED
    BY <1>1, <2>2, <2>3, <2>4
<1> QED
  BY <1>1, <1>2, <1>3, <1>4, <1>5, <1>6

LEMMA MinOfNats ==
  ASSUME NEW S, S \subseteq Nat, S # {}
  PROVE  Min(S) \in S /\ \A y \in S : Min(S) <= y
<1>1. \E x \in S : \A y \in S : <<y, x>> \notin OpToRel(<, Nat)
  BY NatLessThanWellFounded, WFMin, Zenon
<1>2. PICK x \in S : \A y \in S : <<y, x>> \notin OpToRel(<, Nat)
  BY <1>1
<1>3. \A y \in S : x <= y
  <2> SUFFICES ASSUME NEW y \in S PROVE x <= y
    OBVIOUS
  <2>1. x \in Nat /\ y \in Nat
    OBVIOUS
  <2>2. y < x => <<y, x>> \in OpToRel(<, Nat)
    <3>1. ASSUME y < x PROVE <<y, x>> \in Nat \X Nat /\ <<y, x>>[1] < <<y, x>>[2]
      BY <2>1, <3>1
    <3> QED
      BY <3>1 DEF OpToRel
  <2>3. ~(y < x)
    BY <1>2, <2>2
  <2> QED
    BY <2>1, <2>3
<1> QED
  BY <1>3 DEF Min

LEMMA TableEntry ==
  ASSUME NEW n \in 1..MAX_ALLOC_SIZE
  PROVE  /\ poolTable(n) \in PoolSizes
         /\ n <= poolTable(n) /\ poolTable(n) <= n + Grade(n) - 1
<1> DEFINE S == {size \in PoolSizes : n <= size}
<1>1. PICK size \in PoolSizes : n <= size /\ size <= n + Grade(n) - 1
  BY SomePoolFits
<1>2. S \subseteq Nat /\ S # {} /\ size \in S
  BY <1>1, PoolSizesAreNat
<1> HIDE DEF S
<1>3. Min(S) \in S /\ Min(S) <= size
  BY <1>2, MinOfNats
<1>4. poolTable(n) = Min(S)
  BY DEF poolTable, S
<1>5. Min(S) \in PoolSizes /\ n <= Min(S)
  BY <1>3 DEF S
<1>6. Grade(n) \in Int
  BY GradeIsInt
<1>7. Min(S) \in Int /\ size \in Int
  BY <1>1, <1>5, PoolSizesAreNat
<1>8. Min(S) <= n + Grade(n) - 1
  BY <1>1, <1>3, <1>6, <1>7 DEF MAX_ALLOC_SIZE
<1> QED
  BY Zenon, <1>4, <1>5, <1>8

LEMMA TableFitsAlways == TableFits
<1> SUFFICES ASSUME NEW n \in 1..MAX_ALLOC_SIZE
             PROVE  poolTable(n) \in n .. n + Grade(n) - 1
  BY DEF TableFits
<1>1. /\ poolTable(n) \in PoolSizes
      /\ n <= poolTable(n) /\ poolTable(n) <= n + Grade(n) - 1
  BY TableEntry
<1>2. poolTable(n) \in Int
  BY <1>1, PoolSizesAreNat
<1>3. Grade(n) \in Int
  BY GradeIsInt
<1>4. n \in Int
  BY DEF MAX_ALLOC_SIZE
<1> HIDE DEF MAX_ALLOC_SIZE
<1>5. ASSUME NEW x \in Int, NEW y \in Int, NEW z \in Int, x <= y, y <= x + z - 1
      PROVE  y \in x .. x + z - 1
  BY <1>5
<1> QED
  BY Zenon, <1>1, <1>2, <1>3, <1>4, <1>5

\* Where in its page an address lies.
Rests == 0..4095
InPage(page, rest) == (page * 4096 + rest) % 4096

LEMMA PageRemainder ==
  ASSUME NEW page \in Nat, NEW rest \in Rests
  PROVE  InPage(page, rest) = rest
BY DEF InPage, Rests

(* Under _STOMP a block ends where its last page ends, and Release finds    *)
(* the first page from its address alone (StompAllocator::Alloc, Release).  *)
THEOREM StompAllocatorFits ==
  ASSUME NEW base \in Nat, NEW size \in Nat \ {0}, base % PAGE_SIZE = 0
  PROVE  StompFits(base, size)
<1>1. PICK pages \in Nat : pages = (size + 4095) \div 4096
  BY DEF PAGE_SIZE
<1>2. pages * 4096 - size \in 0..4095
  BY <1>1
<1>3. PICK page \in Nat : base = page * 4096
  <2>1. base = (base \div 4096) * 4096 /\ base \div 4096 \in Nat
    BY DEF PAGE_SIZE
  <2> QED
    BY <2>1
<1>4. StompAlloc(base, size) = page * 4096 + (pages * 4096 - size)
  BY <1>1, <1>3 DEF StompAlloc, PAGE_SIZE
<1>5. PICK rest \in Rests : rest = pages * 4096 - size
  BY <1>2 DEF Rests
<1>6. StompAlloc(base, size) % 4096 = pages * 4096 - size
  <2>1. StompAlloc(base, size) = page * 4096 + rest
    BY <1>4, <1>5
  <2>2. InPage(page, rest) = rest
    BY Zenon, PageRemainder
  <2> QED
    BY <1>5, <2>1, <2>2 DEF InPage
<1>7. StompBase(StompAlloc(base, size)) = base
  BY <1>2, <1>3, <1>4, <1>6 DEF StompBase, PAGE_SIZE
<1>8. (StompAlloc(base, size) + size) % 4096 = 0
  BY <1>4
<1> QED
  BY <1>7, <1>8 DEF StompFits, PAGE_SIZE

-----------------------------------------------------------------------------
(* The inductive invariant *)

\* The capacity of the blocks that serve a caller.
HomeSize(c) == IF Pooled(c) THEN PoolSize(PoolOf(c)) ELSE Asked(c)

\* The calls that have a block which nobody else can see.
Busy(t)    == call[t].at \in {"reused", "popped", "clear", "push"}
Popping(t) == call[t].at \in {"reused", "popped"}

CallOK(t) ==
  /\ call[t].at # "none" => call[t].pool \in Pools
  /\ Busy(t) => /\ call[t].block \in Blocks
                /\ lent[call[t].block] = NoCaller
                /\ capacity[call[t].block] = PoolSize(call[t].pool)
                /\ \A p \in Pools : call[t].block \notin list[p]
  /\ Popping(t) => /\ call[t].by \in Callers /\ Pooled(call[t].by)
                   /\ call[t].pool = PoolOf(call[t].by)
  /\ call[t].at = "push" => header[call[t].block] = 0

InCalls ==
  /\ \A t \in Workers : CallOK(t)
  /\ \A t, u \in Workers :
       Busy(t) /\ Busy(u) /\ call[t].block = call[u].block => t = u

LentOK(b) ==
  lent[b] # NoCaller =>
    /\ \A p \in Pools : b \notin list[p]
    /\ header[b] = Asked(lent[b]) /\ capacity[b] = HomeSize(lent[b])

ListedOK(b) ==
  \A p \in Pools : b \in list[p] =>
    /\ header[b] = 0 /\ capacity[b] = PoolSize(p)
    /\ \A q \in Pools : b \in list[q] => q = p

Lent   == \A b \in Blocks : LentOK(b)
Listed == \A b \in Blocks : ListedOK(b)

MemoryInv == MemoryTypeOK /\ InCalls /\ Lent /\ Listed /\ AssertionsHold

-----------------------------------------------------------------------------
(* What a caller is *)

LEMMA CallerFacts ==
  ASSUME NEW c \in Callers
  PROVE  /\ c # NoCaller
         /\ \/ c[1] = "memory" /\ Asked(c) = c[2] /\ Asked(c) \in Requests
            \/ c[1] = "object" /\ c \in ObjectPools
         /\ Asked(c) \in Nat /\ Asked(c) > 0
         /\ Pooled(c) <=> c[1] = "object" \/ Asked(c) <= MAX_ALLOC_SIZE
         /\ Pooled(c) => PoolOf(c) \in Pools
         /\ HomeSize(c) \in Nat /\ HomeSize(c) > 0 /\ HomeSize(c) >= Asked(c)
<1>1. CASE \E n \in Requests : c = <<"memory", n>>
  <2>1. PICK n \in Requests : c = <<"memory", n>>
    BY <1>1
  <2>2. c[1] = "memory" /\ c[2] = n /\ Asked(c) = n /\ c # NoCaller
    BY <2>1 DEF Asked, NoCaller
  <2>3. n \in Nat /\ n > 0 /\ MAX_ALLOC_SIZE \in Nat
    BY SizesPositive DEF MAX_ALLOC_SIZE
  <2>4. Pooled(c) <=> n <= MAX_ALLOC_SIZE
    BY <2>2 DEF Pooled
  <2>5. CASE n <= MAX_ALLOC_SIZE
    <3>1. n \in 1..MAX_ALLOC_SIZE
      BY <2>3, <2>5
    <3>2. poolTable(n) \in PoolSizes /\ n <= poolTable(n)
      BY <3>1, TableEntry
    <3>3. poolTable(n) \in Nat /\ poolTable(n) > 0
      BY <3>2, PoolSizesAreNat
    <3>4. PoolOf(c) = <<"memory", poolTable(n)>>
      BY <2>2 DEF PoolOf
    <3>5. PoolOf(c) \in Pools
      BY <2>1, <3>1, <3>4 DEF Pools, MemoryPools
    <3>6. PoolSize(PoolOf(c)) = poolTable(n)
      BY <3>4 DEF PoolSize
    <3>7. HomeSize(c) = poolTable(n)
      BY <2>4, <2>5, <3>6 DEF HomeSize
    <3> QED
      BY <2>2, <2>3, <2>4, <2>5, <3>2, <3>3, <3>5, <3>7
  <2>6. CASE ~(n <= MAX_ALLOC_SIZE)
    <3>1. HomeSize(c) = n
      BY <2>2, <2>4, <2>6 DEF HomeSize
    <3> QED
      BY <2>2, <2>3, <2>4, <2>6, <3>1
  <2> QED
    BY <2>5, <2>6
<1>2. CASE c \in ObjectPools
  <2>1. PICK type \in Types : c = <<"object", type>>
    BY <1>2 DEF ObjectPools
  <2>2. /\ c[1] = "object" /\ c[2] = type /\ c # NoCaller
        /\ Asked(c) = ObjectSize[type] /\ Pooled(c) /\ PoolOf(c) = c
    BY <2>1 DEF Asked, Pooled, PoolOf, NoCaller
  <2>3. ObjectSize[type] \in Nat /\ ObjectSize[type] > 0
    BY SizesPositive
  <2>4. PoolSize(c) = ObjectSize[type] /\ c \in Pools
    BY <1>2, <2>2 DEF PoolSize, Pools
  <2>5. HomeSize(c) = ObjectSize[type]
    BY <2>2, <2>4 DEF HomeSize
  <2> QED
    BY <1>2, <2>2, <2>3, <2>4, <2>5
<1> QED
  BY <1>1, <1>2 DEF Callers

LEMMA PoolSizePositive ==
  ASSUME NEW p \in Pools
  PROVE  PoolSize(p) \in Nat /\ PoolSize(p) > 0
<1>1. CASE \E n \in Requests \cap (1..MAX_ALLOC_SIZE) : p = <<"memory", poolTable(n)>>
  <2>1. PICK n \in 1..MAX_ALLOC_SIZE : p = <<"memory", poolTable(n)>>
    BY <1>1
  <2>2. poolTable(n) \in PoolSizes
    BY TableEntry
  <2> QED
    BY <2>1, <2>2, PoolSizesAreNat DEF PoolSize
<1>2. CASE \E type \in Types : p = <<"object", type>>
  BY <1>2, SizesPositive DEF PoolSize
<1> QED
  BY <1>1, <1>2 DEF Pools, MemoryPools, ObjectPools

\* A block goes back to the pool it came from.
LEMMA WayBackIsHome ==
  ASSUME MemoryTypeOK, Lent, NEW b \in Blocks, lent[b] # NoCaller,
         lent[b][1] = "object" \/ header[b] <= MAX_ALLOC_SIZE
  PROVE  /\ WayBack(b) \in Pools /\ capacity[b] = PoolSize(WayBack(b))
         /\ Pooled(lent[b]) /\ PoolOf(lent[b]) = WayBack(b)
<1>1. lent[b] \in Callers
  BY DEF MemoryTypeOK
<1>2. PICK c \in Callers : c = lent[b]
  BY <1>1
<1>3. header[b] = Asked(c) /\ capacity[b] = HomeSize(c)
  BY <1>2 DEF Lent, LentOK
<1>4. Pooled(c)
  BY <1>2, <1>3, CallerFacts
<1>5. WayBack(b) = PoolOf(c)
  BY <1>2, <1>3, CallerFacts DEF WayBack, PoolOf
<1> QED
  BY <1>2, <1>3, <1>4, <1>5, CallerFacts DEF HomeSize

-----------------------------------------------------------------------------
(* Every step keeps the invariant *)

LEMMA MemoryTypeStep ==
  ASSUME MemoryInv, [MemoryNext]_memoryVars
  PROVE  MemoryTypeOK'
<1> USE NoBlockIsNone
<1>0. MemoryTypeOK /\ InCalls
  BY DEF MemoryInv
<1>1. ASSUME NEW t \in Workers, NEW c \in Callers, NEW b \in Blocks, AllocateLarge(t, c, b)
      PROVE  MemoryTypeOK'
  BY <1>0, <1>1, CallerFacts DEF AllocateLarge, Attach, MemoryTypeOK
<1>2. ASSUME NEW t \in Workers, NEW c \in Callers, NEW b \in Blocks, PopNew(t, c, b)
      PROVE  MemoryTypeOK'
  <2>1. PoolOf(c) \in Pools /\ PoolSize(PoolOf(c)) \in Nat
    BY <1>2, CallerFacts, PoolSizePositive DEF PopNew
  <2>2. [at |-> "popped", block |-> b, pool |-> PoolOf(c), by |-> c] \in Calls
    BY <2>1 DEF Calls
  <2>3. call' \in [Workers -> Calls]
    BY <1>0, <1>2, <2>2 DEF PopNew, MemoryTypeOK
  <2>4. header' \in [Blocks -> Nat] /\ capacity' \in [Blocks -> Nat]
    BY <1>0, <1>2, <2>1 DEF PopNew, MemoryTypeOK
  <2> QED
    BY <1>0, <1>2, <2>3, <2>4 DEF PopNew, MemoryTypeOK
<1>3. ASSUME NEW t \in Workers, NEW c \in Callers, NEW b \in Blocks, PopOld(t, c, b)
      PROVE  MemoryTypeOK'
  <2>1. PoolOf(c) \in Pools
    BY <1>3, CallerFacts DEF PopOld
  <2>2. [at |-> "reused", block |-> b, pool |-> PoolOf(c), by |-> c] \in Calls
    BY <2>1 DEF Calls
  <2>3. call' \in [Workers -> Calls]
    BY <1>0, <1>3, <2>2 DEF PopOld, MemoryTypeOK
  <2>4. list' \in [Pools -> SUBSET Blocks] /\ crashed' \in BOOLEAN
    BY <1>0, <1>3 DEF PopOld, MemoryTypeOK
  <2> QED
    BY <1>0, <1>3, <2>3, <2>4 DEF PopOld, MemoryTypeOK
<1>4. ASSUME NEW t \in Workers, NEW place \in {"popped", "push", "pushed", "unused"},
             Goto(t, place)
      PROVE  call' \in [Workers -> Calls]
  <2>1. [call[t] EXCEPT !.at = place] \in Calls
    BY <1>0 DEF MemoryTypeOK, Calls
  <2> QED
    BY <1>0, <1>4, <2>1 DEF Goto, MemoryTypeOK
<1>5. NoCall \in Calls
  BY DEF NoCall, Calls
<1>6. ASSUME NEW t \in Workers, CountReused(t) PROVE MemoryTypeOK'
  <2>1. call' \in [Workers -> Calls]
    BY <1>4, <1>6 DEF CountReused
  <2>2. PICK p \in Pools : p = call[t].pool
    BY <1>0, <1>6 DEF CountReused, InCalls, CallOK
  <2>3. reservedCount' \in [Pools -> Int]
    BY <1>0, <1>6, <2>2 DEF CountReused, MemoryTypeOK
  <2> QED
    BY <1>0, <1>6, <2>1, <2>3 DEF CountReused, MemoryTypeOK
<1>7. ASSUME NEW t \in Workers, CountUsed(t) PROVE MemoryTypeOK'
  <2>1. PICK c \in Callers : c = call[t].by
    BY <1>0, <1>7 DEF CountUsed, InCalls, CallOK, Popping
  <2>2. PICK b \in Blocks : b = call[t].block
    BY <1>0, <1>7 DEF CountUsed, InCalls, CallOK, Busy
  <2>3. header' \in [Blocks -> Nat] /\ lent' \in [Blocks -> Callers \cup {NoCaller}]
    BY <1>0, <1>7, <2>1, <2>2, CallerFacts DEF CountUsed, Attach, MemoryTypeOK
  <2>4. call' \in [Workers -> Calls]
    BY <1>0, <1>5, <1>7 DEF CountUsed, MemoryTypeOK
  <2>5. PICK p \in Pools : p = call[t].pool
    BY <1>0, <1>7 DEF CountUsed, InCalls, CallOK
  <2>6. useCount' \in [Pools -> Int]
    BY <1>0, <1>7, <2>5 DEF CountUsed, MemoryTypeOK
  <2> QED
    BY <1>0, <1>7, <2>3, <2>4, <2>6 DEF CountUsed, MemoryTypeOK
<1>8. ASSUME NEW t \in Workers, NEW b \in Blocks, ReleaseLarge(t, b) PROVE MemoryTypeOK'
  BY <1>0, <1>8 DEF ReleaseLarge, MemoryTypeOK
<1>9. ASSUME NEW t \in Workers, NEW b \in Blocks, BeginRelease(t, b) PROVE MemoryTypeOK'
  <2>1. WayBack(b) \in Pools /\ lent[b] # NoCaller
    BY <1>9, WayBackIsHome DEF MemoryInv, BeginRelease, NoCaller
  <2>2. [at |-> "clear", block |-> b, pool |-> WayBack(b), by |-> lent[b]] \in Calls
    BY <1>0, <2>1 DEF Calls, MemoryTypeOK
  <2>3. call' \in [Workers -> Calls]
    BY <1>0, <1>9, <2>2 DEF BeginRelease, MemoryTypeOK
  <2>4. lent' \in [Blocks -> Callers \cup {NoCaller}] /\ crashed' \in BOOLEAN
    BY <1>0, <1>9 DEF BeginRelease, MemoryTypeOK
  <2> QED
    BY <1>0, <1>9, <2>3, <2>4 DEF BeginRelease, MemoryTypeOK
<1>10. ASSUME NEW t \in Workers, ClearHeader(t) PROVE MemoryTypeOK'
  <2>1. call' \in [Workers -> Calls]
    BY <1>4, <1>10 DEF ClearHeader
  <2> QED
    BY <1>0, <1>10, <2>1 DEF ClearHeader, MemoryTypeOK
<1>11. ASSUME NEW t \in Workers, PushEntry(t) PROVE MemoryTypeOK'
  <2>1. call' \in [Workers -> Calls]
    BY <1>4, <1>11 DEF PushEntry
  <2>2. list' \in [Pools -> SUBSET Blocks]
    BY <1>0, <1>11 DEF PushEntry, MemoryTypeOK, InCalls, CallOK, Busy
  <2> QED
    BY <1>0, <1>11, <2>1, <2>2 DEF PushEntry, MemoryTypeOK
<1>12. ASSUME NEW t \in Workers, CountUnused(t) PROVE MemoryTypeOK'
  <2>1. call' \in [Workers -> Calls]
    BY <1>4, <1>12 DEF CountUnused
  <2>2. PICK p \in Pools : p = call[t].pool
    BY <1>0, <1>12 DEF CountUnused, InCalls, CallOK
  <2>3. useCount' \in [Pools -> Int]
    BY <1>0, <1>12, <2>2 DEF CountUnused, MemoryTypeOK
  <2> QED
    BY <1>0, <1>12, <2>1, <2>3 DEF CountUnused, MemoryTypeOK
<1>13. ASSUME NEW t \in Workers, CountReserved(t) PROVE MemoryTypeOK'
  <2>1. call' \in [Workers -> Calls]
    BY <1>0, <1>5, <1>13 DEF CountReserved, MemoryTypeOK
  <2>2. PICK p \in Pools : p = call[t].pool
    BY <1>0, <1>13 DEF CountReserved, InCalls, CallOK
  <2>3. reservedCount' \in [Pools -> Int]
    BY <1>0, <1>13, <2>2 DEF CountReserved, MemoryTypeOK
  <2> QED
    BY <1>0, <1>13, <2>1, <2>3 DEF CountReserved, MemoryTypeOK
<1>14. CASE UNCHANGED memoryVars
  BY <1>0, <1>14 DEF MemoryTypeOK, memoryVars
<1> QED
  BY <1>1, <1>2, <1>3, <1>6, <1>7, <1>8, <1>9, <1>10, <1>11, <1>12, <1>13, <1>14
     DEF MemoryNext, Allocate, Release

\* The steps that touch neither a block nor what a call says of it.
LEMMA CountingStep ==
  ASSUME MemoryInv, UNCHANGED <<list, header, capacity, lent, crashed>>,
         NEW t \in Workers,
         \/ CountReused(t) \/ CountUnused(t) \/ CountReserved(t)
  PROVE  InCalls' /\ Lent' /\ Listed' /\ AssertionsHold'
<1>0. MemoryTypeOK /\ InCalls /\ Lent /\ Listed /\ AssertionsHold
  BY DEF MemoryInv
<1>1. Lent' /\ Listed' /\ AssertionsHold'
  BY <1>0 DEF Lent, Listed, LentOK, ListedOK, AssertionsHold
<1>2. ASSUME NEW u \in Workers, u # t PROVE call'[u] = call[u]
  BY <1>0, <1>2 DEF CountReused, CountUnused, CountReserved, Goto, MemoryTypeOK
<1>6. ASSUME CallOK(t)', Busy(t)' => Busy(t) /\ call'[t].block = call[t].block
      PROVE  InCalls'
  <2>1. \A u \in Workers : u # t => CallOK(u)' /\ (Busy(u)' <=> Busy(u))
    BY <1>0, <1>2 DEF InCalls, CallOK, Busy, Popping
  <2>2. \A u, v \in Workers :
          Busy(u)' /\ Busy(v)' /\ call'[u].block = call'[v].block => u = v
    BY <1>0, <1>2, <1>6, <2>1 DEF InCalls
  <2> QED
    BY <1>6, <2>1, <2>2 DEF InCalls
<1>3. CASE CountReused(t)
  <2>1. /\ call'[t] = [call[t] EXCEPT !.at = "popped"] /\ call[t].at = "reused"
        /\ call[t] \in Calls
    BY <1>0, <1>3 DEF CountReused, Goto, MemoryTypeOK
  <2>2. /\ call'[t].at = "popped" /\ call'[t].block = call[t].block
        /\ call'[t].pool = call[t].pool /\ call'[t].by = call[t].by
    BY <2>1 DEF Calls
  <2>3. CallOK(t)'
    BY <1>0, <2>1, <2>2 DEF InCalls, CallOK, Busy, Popping
  <2>4. Busy(t)' => Busy(t) /\ call'[t].block = call[t].block
    BY <2>1, <2>2 DEF Busy
  <2> QED
    BY <1>1, <2>3, <2>4, <1>6
<1>4. CASE CountUnused(t)
  <2>1. /\ call'[t] = [call[t] EXCEPT !.at = "unused"] /\ call[t].at = "pushed"
        /\ call[t] \in Calls
    BY <1>0, <1>4 DEF CountUnused, Goto, MemoryTypeOK
  <2>2. call'[t].at = "unused" /\ call'[t].pool = call[t].pool
    BY <2>1 DEF Calls
  <2>3. CallOK(t)'
    BY <1>0, <2>1, <2>2 DEF InCalls, CallOK, Busy, Popping
  <2>4. Busy(t)' => Busy(t) /\ call'[t].block = call[t].block
    BY <2>1, <2>2 DEF Busy
  <2> QED
    BY <1>1, <2>3, <2>4, <1>6
<1>5. CASE CountReserved(t)
  <2>1. call'[t].at = "none"
    BY <1>0, <1>5 DEF CountReserved, MemoryTypeOK, NoCall
  <2>3. CallOK(t)' /\ ~Busy(t)'
    BY <2>1 DEF CallOK, Busy, Popping
  <2> QED
    BY <1>1, <2>3, <1>6
<1> QED
  BY <1>3, <1>4, <1>5

\* A step of t that touches no block but b, which no other call has.
LEMMA FrameStep ==
  ASSUME MemoryInv, NEW t \in Workers, NEW b \in Blocks,
         \A u \in Workers : u # t => call'[u] = call[u] /\ ~(Busy(u) /\ call[u].block = b),
         \A x \in Blocks : x # b =>
           /\ header'[x] = header[x] /\ capacity'[x] = capacity[x] /\ lent'[x] = lent[x]
           /\ \A p \in Pools : x \in list'[p] <=> x \in list[p],
         CallOK(t)', Busy(t)' => call'[t].block = b,
         LentOK(b)', ListedOK(b)'
  PROVE  InCalls' /\ Lent' /\ Listed'
<1>0. MemoryTypeOK /\ InCalls /\ Lent /\ Listed
  BY DEF MemoryInv
<1>1. \A x \in Blocks : x # b => LentOK(x)' /\ ListedOK(x)'
  BY <1>0 DEF Lent, Listed, LentOK, ListedOK
<1>2. ASSUME NEW u \in Workers, u # t PROVE CallOK(u)' /\ (Busy(u)' <=> Busy(u))
  <2>1. CallOK(u) /\ call'[u] = call[u]
    BY <1>0, <1>2 DEF InCalls
  <2>2. (Busy(u)' <=> Busy(u)) /\ (Popping(u)' <=> Popping(u))
    BY <2>1 DEF Busy, Popping
  <2>3. CASE Busy(u)
    <3>1. PICK x \in Blocks : x = call[u].block
      BY <2>1, <2>3 DEF CallOK
    <3>2. /\ x # b /\ header'[x] = header[x] /\ capacity'[x] = capacity[x]
          /\ lent'[x] = lent[x] /\ \A p \in Pools : x \in list'[p] <=> x \in list[p]
      BY <1>2, <2>3, <3>1
    <3> QED
      BY <2>1, <2>2, <3>1, <3>2 DEF CallOK
  <2>4. CASE ~Busy(u)
    BY <2>1, <2>2, <2>4 DEF CallOK, Busy, Popping
  <2> QED
    BY <2>2, <2>3, <2>4
<1>3. \A u, v \in Workers :
        Busy(u)' /\ Busy(v)' /\ call'[u].block = call'[v].block => u = v
  BY <1>0, <1>2 DEF InCalls
<1> QED
  BY <1>1, <1>2, <1>3 DEF InCalls, Lent, Listed

\* A block in a call is in no list, not lent, and in no other call.
LEMMA InCallIsAlone ==
  ASSUME MemoryInv, NEW t \in Workers, Busy(t)
  PROVE  /\ call[t].block \in Blocks /\ lent[call[t].block] = NoCaller
         /\ capacity[call[t].block] = PoolSize(call[t].pool) /\ call[t].pool \in Pools
         /\ \A p \in Pools : call[t].block \notin list[p]
         /\ \A u \in Workers : u # t => ~(Busy(u) /\ call[u].block = call[t].block)
BY DEF MemoryInv, InCalls, CallOK, Busy

\* Nor is a block that _aligned_malloc can return, or a listed or lent one.
LEMMA NotInCall ==
  ASSUME MemoryInv, NEW b \in Blocks,
         \/ capacity[b] = 0 \/ lent[b] # NoCaller \/ \E p \in Pools : b \in list[p]
  PROVE  \A u \in Workers : ~(Busy(u) /\ call[u].block = b)
<1> SUFFICES ASSUME NEW u \in Workers, Busy(u), call[u].block = b PROVE FALSE
  OBVIOUS
<1>1. lent[b] = NoCaller /\ capacity[b] = PoolSize(call[u].pool)
      /\ call[u].pool \in Pools /\ \A p \in Pools : b \notin list[p]
  BY InCallIsAlone
<1> QED
  BY <1>1, PoolSizePositive

LEMMA FreshIsFree ==
  ASSUME MemoryInv, NEW b \in Blocks, capacity[b] = 0
  PROVE  lent[b] = NoCaller /\ \A p \in Pools : b \notin list[p]
<1>1. lent[b] = NoCaller
  <2>1. lent[b] \in Callers \cup {NoCaller} /\ LentOK(b)
    BY DEF MemoryInv, MemoryTypeOK, Lent
  <2> QED
    BY <2>1, CallerFacts DEF LentOK
<1>2. ASSUME NEW p \in Pools, b \in list[p] PROVE FALSE
  BY <1>2, PoolSizePositive DEF MemoryInv, Listed, ListedOK
<1> QED
  BY <1>1, <1>2

LEMMA BlockStep ==
  ASSUME MemoryInv, MemoryTypeOK', NEW t \in Workers, NEW b \in Blocks
  PROVE  /\ \A c \in Callers : AllocateLarge(t, c, b) \/ PopNew(t, c, b) \/ PopOld(t, c, b)
              => MemoryInv'
         /\ ReleaseLarge(t, b) \/ BeginRelease(t, b) => MemoryInv'
<1>0. MemoryTypeOK /\ InCalls /\ Lent /\ Listed /\ AssertionsHold
  BY DEF MemoryInv
<1>1. ASSUME NEW c \in Callers, AllocateLarge(t, c, b) PROVE MemoryInv'
  <2>1. /\ ~Pooled(c) /\ capacity[b] = 0 /\ UNCHANGED <<list, call, crashed>>
        /\ capacity' = [capacity EXCEPT ![b] = Asked(c)]
        /\ header' = [header EXCEPT ![b] = Asked(c)]
        /\ lent' = [lent EXCEPT ![b] = c]
    BY <1>1 DEF AllocateLarge, Attach
  <2>2. \A p \in Pools : b \notin list[p]
    BY <2>1, FreshIsFree
  <2>3. \A u \in Workers : ~(Busy(u) /\ call[u].block = b)
    BY <2>1, NotInCall
  <2>4. LentOK(b)' /\ ListedOK(b)'
    BY <1>0, <2>1, <2>2 DEF LentOK, ListedOK, HomeSize, MemoryTypeOK
  <2>5. CallOK(t)' /\ ~Busy(t)'
    BY <1>0, <1>1, <2>1 DEF AllocateLarge, NoCall, CallOK, Busy, Popping
  <2>6. \A x \in Blocks : x # b => /\ header'[x] = header[x] /\ lent'[x] = lent[x]
                                   /\ capacity'[x] = capacity[x] /\ list' = list
    BY <1>0, <2>1 DEF MemoryTypeOK
  <2>7. InCalls' /\ Lent' /\ Listed'
    BY <2>1, <2>3, <2>4, <2>5, <2>6, FrameStep
  <2> QED
    BY <1>0, <2>1, <2>7 DEF MemoryInv, AssertionsHold
<1>2. ASSUME NEW c \in Callers, PopNew(t, c, b) PROVE MemoryInv'
  <2>1. /\ Pooled(c) /\ capacity[b] = 0 /\ UNCHANGED <<list, lent, crashed>>
        /\ capacity' = [capacity EXCEPT ![b] = PoolSize(PoolOf(c))]
        /\ \A x \in Blocks : x # b => header'[x] = header[x]
        /\ call' = [call EXCEPT ![t] =
                      [at |-> "popped", block |-> b, pool |-> PoolOf(c), by |-> c]]
    BY <1>0, <1>2 DEF PopNew, MemoryTypeOK
  <2>2. lent[b] = NoCaller /\ \A p \in Pools : b \notin list[p]
    BY <2>1, FreshIsFree
  <2>3. \A u \in Workers : ~(Busy(u) /\ call[u].block = b)
    BY <2>1, NotInCall
  <2>4. LentOK(b)' /\ ListedOK(b)'
    BY <2>1, <2>2 DEF LentOK, ListedOK
  <2>5. /\ call'[t].at = "popped" /\ call'[t].block = b /\ call'[t].by = c
        /\ call'[t].pool = PoolOf(c) /\ PoolOf(c) \in Pools
        /\ capacity'[b] = PoolSize(PoolOf(c))
    BY <1>0, <2>1, CallerFacts DEF MemoryTypeOK
  <2>6. CallOK(t)'
    BY <2>1, <2>2, <2>5 DEF CallOK, Busy, Popping
  <2>7. \A u \in Workers : u # t => call'[u] = call[u]
    BY <1>0, <2>1 DEF MemoryTypeOK
  <2>8. \A x \in Blocks : x # b => /\ header'[x] = header[x] /\ lent'[x] = lent[x]
                                   /\ capacity'[x] = capacity[x] /\ list' = list
    BY <1>0, <2>1 DEF MemoryTypeOK
  <2>9. InCalls' /\ Lent' /\ Listed'
    BY <2>3, <2>4, <2>5, <2>6, <2>7, <2>8, FrameStep
  <2> QED
    BY <1>0, <2>1, <2>9 DEF MemoryInv, AssertionsHold
<1>3. ASSUME NEW c \in Callers, PopOld(t, c, b) PROVE MemoryInv'
  <2>0. PICK p \in Pools : p = PoolOf(c)
    BY <1>3, CallerFacts DEF PopOld
  <2>1. /\ Pooled(c) /\ b \in list[p] /\ UNCHANGED <<header, capacity, lent>>
        /\ list' = [list EXCEPT ![p] = @ \ {b}]
        /\ crashed' = (crashed \/ header[b] # 0)
        /\ call' = [call EXCEPT ![t] =
                      [at |-> "reused", block |-> b, pool |-> p, by |-> c]]
    BY <1>3, <2>0 DEF PopOld
  <2>2. /\ lent[b] = NoCaller /\ header[b] = 0 /\ capacity[b] = PoolSize(p)
        /\ \A q \in Pools : b \in list[q] => q = p
    BY <1>0, <2>1 DEF Lent, LentOK, Listed, ListedOK
  <2>3. \A u \in Workers : ~(Busy(u) /\ call[u].block = b)
    BY <2>1, NotInCall
  <2>4. \A q \in Pools : b \notin list'[q]
    BY <1>0, <2>1, <2>2 DEF MemoryTypeOK
  <2>5. /\ call'[t].at = "reused" /\ call'[t].block = b /\ call'[t].by = c
        /\ call'[t].pool = p
    BY <1>0, <2>1 DEF MemoryTypeOK
  <2>6. CallOK(t)' /\ LentOK(b)' /\ ListedOK(b)'
    BY <2>0, <2>1, <2>2, <2>4, <2>5 DEF CallOK, Busy, Popping, LentOK, ListedOK
  <2>7. \A u \in Workers : u # t => call'[u] = call[u]
    BY <1>0, <2>1 DEF MemoryTypeOK
  <2>8. \A x \in Blocks : x # b => \A q \in Pools : x \in list'[q] <=> x \in list[q]
    BY <1>0, <2>1 DEF MemoryTypeOK
  <2>9. InCalls' /\ Lent' /\ Listed'
    BY <2>1, <2>3, <2>5, <2>6, <2>7, <2>8, FrameStep
  <2> QED
    BY <1>0, <2>1, <2>2, <2>9 DEF MemoryInv, AssertionsHold
<1>4. ASSUME ReleaseLarge(t, b) PROVE MemoryInv'
  <2>1. /\ lent[b] # NoCaller /\ UNCHANGED <<list, header, call, crashed>>
        /\ lent' = [lent EXCEPT ![b] = NoCaller]
        /\ capacity' = [capacity EXCEPT ![b] = 0]
    BY <1>4 DEF ReleaseLarge, NoCaller
  <2>2. \A p \in Pools : b \notin list[p]
    BY <1>0, <2>1 DEF Lent, LentOK
  <2>3. \A u \in Workers : ~(Busy(u) /\ call[u].block = b)
    BY <2>1, NotInCall
  <2>4. LentOK(b)' /\ ListedOK(b)'
    BY <1>0, <2>1, <2>2 DEF LentOK, ListedOK, MemoryTypeOK
  <2>5. CallOK(t)' /\ ~Busy(t)'
    BY <1>0, <1>4, <2>1 DEF ReleaseLarge, NoCall, CallOK, Busy, Popping
  <2>6. \A x \in Blocks : x # b => /\ header'[x] = header[x] /\ lent'[x] = lent[x]
                                   /\ capacity'[x] = capacity[x] /\ list' = list
    BY <1>0, <2>1 DEF MemoryTypeOK
  <2>7. InCalls' /\ Lent' /\ Listed'
    BY <2>1, <2>3, <2>4, <2>5, <2>6, FrameStep
  <2> QED
    BY <1>0, <2>1, <2>7 DEF MemoryInv, AssertionsHold
<1>5. ASSUME BeginRelease(t, b) PROVE MemoryInv'
  <2>1. /\ lent[b] # NoCaller /\ UNCHANGED <<list, header, capacity>>
        /\ lent[b][1] = "object" \/ header[b] <= MAX_ALLOC_SIZE
        /\ crashed' = (crashed \/ (lent[b][1] = "memory" /\ ~(header[b] > 0)))
        /\ lent' = [lent EXCEPT ![b] = NoCaller]
        /\ call' = [call EXCEPT ![t] = [at |-> "clear", block |-> b,
                                        pool |-> WayBack(b), by |-> lent[b]]]
    BY <1>5 DEF BeginRelease, NoCaller
  <2>2. PICK p \in Pools : p = WayBack(b) /\ capacity[b] = PoolSize(p)
    BY <1>0, <2>1, WayBackIsHome
  <2>3. \A q \in Pools : b \notin list[q]
    BY <1>0, <2>1 DEF Lent, LentOK
  <2>4. \A u \in Workers : ~(Busy(u) /\ call[u].block = b)
    BY <2>1, NotInCall
  <2>5. LentOK(b)' /\ ListedOK(b)' /\ lent'[b] = NoCaller
    BY <1>0, <2>1, <2>3 DEF LentOK, ListedOK, MemoryTypeOK
  <2>6. call'[t].at = "clear" /\ call'[t].block = b /\ call'[t].pool = p
    BY <1>0, <2>1, <2>2 DEF MemoryTypeOK
  <2>7. CallOK(t)'
    BY <2>1, <2>2, <2>3, <2>5, <2>6 DEF CallOK, Busy, Popping
  <2>8. \A u \in Workers : u # t => call'[u] = call[u]
    BY <1>0, <2>1 DEF MemoryTypeOK
  <2>9. \A x \in Blocks : x # b => /\ header'[x] = header[x] /\ lent'[x] = lent[x]
                                   /\ capacity'[x] = capacity[x] /\ list' = list
    BY <1>0, <2>1 DEF MemoryTypeOK
  <2>10. InCalls' /\ Lent' /\ Listed'
    BY <2>4, <2>5, <2>6, <2>7, <2>8, <2>9, FrameStep
  <2>11. header[b] > 0
    <3>1. lent[b] \in Callers
      BY <1>0, <2>1 DEF MemoryTypeOK
    <3> QED
      BY <1>0, <2>1, <3>1, CallerFacts DEF Lent, LentOK
  <2> QED
    BY <1>0, <2>1, <2>10, <2>11 DEF MemoryInv, AssertionsHold
<1> QED
  BY <1>1, <1>2, <1>3, <1>4, <1>5

LEMMA CallStep ==
  ASSUME MemoryInv, MemoryTypeOK', NEW t \in Workers,
         CountUsed(t) \/ ClearHeader(t) \/ PushEntry(t)
  PROVE  MemoryInv'
<1>0. MemoryTypeOK /\ InCalls /\ Lent /\ Listed /\ AssertionsHold
  BY DEF MemoryInv
<1>1. Busy(t)
  BY DEF CountUsed, ClearHeader, PushEntry, Busy
<1>2. PICK b \in Blocks : b = call[t].block
  BY <1>1, InCallIsAlone
<1>3. PICK p \in Pools : p = call[t].pool /\ capacity[b] = PoolSize(p)
  BY <1>1, <1>2, InCallIsAlone
<1>4. /\ lent[b] = NoCaller /\ (\A q \in Pools : b \notin list[q])
      /\ \A u \in Workers : u # t => ~(Busy(u) /\ call[u].block = b)
  BY <1>1, <1>2, InCallIsAlone
<1>5. CASE CountUsed(t)
  <2>1. PICK c \in Callers : c = call[t].by /\ Pooled(c) /\ p = PoolOf(c)
    BY <1>0, <1>3, <1>5 DEF CountUsed, InCalls, CallOK, Popping
  <2>2. /\ UNCHANGED <<list, capacity, crashed>>
        /\ header' = [header EXCEPT ![b] = Asked(c)]
        /\ lent' = [lent EXCEPT ![b] = c]
        /\ call' = [call EXCEPT ![t] = NoCall]
    BY <1>2, <1>5, <2>1 DEF CountUsed, Attach
  <2>3. LentOK(b)' /\ ListedOK(b)'
    BY <1>0, <1>3, <1>4, <2>1, <2>2 DEF LentOK, ListedOK, HomeSize, MemoryTypeOK
  <2>4. call'[t].at = "none" /\ \A u \in Workers : u # t => call'[u] = call[u]
    BY <1>0, <2>2 DEF MemoryTypeOK, NoCall
  <2>5. CallOK(t)' /\ ~Busy(t)'
    BY <2>4 DEF CallOK, Busy, Popping
  <2>6. \A x \in Blocks : x # b => /\ header'[x] = header[x] /\ lent'[x] = lent[x]
                                   /\ capacity'[x] = capacity[x] /\ list' = list
    BY <1>0, <2>2 DEF MemoryTypeOK
  <2>7. InCalls' /\ Lent' /\ Listed'
    BY <1>4, <2>3, <2>4, <2>5, <2>6, FrameStep
  <2> QED
    BY <1>0, <2>2, <2>7 DEF MemoryInv, AssertionsHold
<1>6. CASE ClearHeader(t)
  <2>1. /\ UNCHANGED <<list, capacity, lent, crashed>>
        /\ header' = [header EXCEPT ![b] = 0]
        /\ call' = [call EXCEPT ![t].at = "push"] /\ call[t] \in Calls
    BY <1>0, <1>2, <1>6 DEF ClearHeader, Goto, MemoryTypeOK
  <2>2. /\ call'[t].at = "push" /\ call'[t].block = b /\ call'[t].pool = p
        /\ \A u \in Workers : u # t => call'[u] = call[u]
    BY <1>0, <1>2, <1>3, <2>1 DEF MemoryTypeOK, Calls
  <2>3. header'[b] = 0 /\ \A x \in Blocks : x # b => header'[x] = header[x]
    BY <1>0, <2>1 DEF MemoryTypeOK
  <2>4. CallOK(t)' /\ LentOK(b)' /\ ListedOK(b)'
    BY <1>3, <1>4, <2>1, <2>2, <2>3 DEF CallOK, Busy, Popping, LentOK, ListedOK
  <2>5. InCalls' /\ Lent' /\ Listed'
    BY <1>4, <2>1, <2>2, <2>3, <2>4, FrameStep
  <2> QED
    BY <1>0, <2>1, <2>5 DEF MemoryInv, AssertionsHold
<1>7. CASE PushEntry(t)
  <2>1. /\ UNCHANGED <<header, capacity, lent, crashed>> /\ header[b] = 0
        /\ list' = [list EXCEPT ![p] = @ \cup {b}]
        /\ call' = [call EXCEPT ![t].at = "pushed"] /\ call[t] \in Calls
    BY <1>0, <1>2, <1>3, <1>7 DEF PushEntry, Goto, MemoryTypeOK, InCalls, CallOK
  <2>2. /\ call'[t].at = "pushed" /\ call'[t].pool = p
        /\ \A u \in Workers : u # t => call'[u] = call[u]
    BY <1>0, <1>2, <1>3, <2>1 DEF MemoryTypeOK, Calls
  <2>3. /\ \A q \in Pools : b \in list'[q] <=> q = p
        /\ \A x \in Blocks : x # b => \A q \in Pools : x \in list'[q] <=> x \in list[q]
    BY <1>0, <1>4, <2>1 DEF MemoryTypeOK
  <2>4. CallOK(t)' /\ ~Busy(t)'
    BY <2>2 DEF CallOK, Busy, Popping
  <2>5. LentOK(b)' /\ ListedOK(b)'
    BY <1>3, <1>4, <2>1, <2>3 DEF LentOK, ListedOK
  <2>6. InCalls' /\ Lent' /\ Listed'
    BY <1>4, <2>1, <2>2, <2>3, <2>4, <2>5, FrameStep
  <2> QED
    BY <1>0, <2>1, <2>6 DEF MemoryInv, AssertionsHold
<1> QED
  BY <1>5, <1>6, <1>7

-----------------------------------------------------------------------------
(* The theorems *)

LEMMA InitMemoryInv == MemoryInit => MemoryInv
<1> SUFFICES ASSUME MemoryInit PROVE MemoryInv
  OBVIOUS
<1>1. NoCall \in Calls /\ NoCall.at = "none"
  BY DEF NoCall, Calls
<1>2. MemoryTypeOK
  <2>1. list \in [Pools -> SUBSET Blocks] /\ call \in [Workers -> Calls]
    BY <1>1 DEF MemoryInit
  <2>2. useCount \in [Pools -> Int] /\ reservedCount \in [Pools -> Int]
    BY DEF MemoryInit
  <2>3. /\ header \in [Blocks -> Nat] /\ capacity \in [Blocks -> Nat]
        /\ lent \in [Blocks -> Callers \cup {NoCaller}] /\ crashed \in BOOLEAN
    BY DEF MemoryInit
  <2> QED
    BY <2>1, <2>2, <2>3 DEF MemoryTypeOK
<1>3. InCalls
  BY <1>1 DEF MemoryInit, InCalls, CallOK, Busy, Popping
<1> QED
  BY <1>2, <1>3 DEF MemoryInit, MemoryInv, Lent, LentOK, Listed, ListedOK, AssertionsHold

LEMMA MemoryInvStep == MemoryInv /\ [MemoryNext]_memoryVars => MemoryInv'
<1> SUFFICES ASSUME MemoryInv, [MemoryNext]_memoryVars PROVE MemoryInv'
  OBVIOUS
<1>1. MemoryTypeOK'
  BY MemoryTypeStep
<1>2. CASE \E t \in Workers, b \in Blocks :
             \/ \E c \in Callers :
                  AllocateLarge(t, c, b) \/ PopNew(t, c, b) \/ PopOld(t, c, b)
             \/ ReleaseLarge(t, b) \/ BeginRelease(t, b)
  BY <1>1, <1>2, BlockStep
<1>3. CASE \E t \in Workers : CountUsed(t) \/ ClearHeader(t) \/ PushEntry(t)
  BY <1>1, <1>3, CallStep
<1>4. CASE \E t \in Workers : CountReused(t) \/ CountUnused(t) \/ CountReserved(t)
  <2>1. PICK t \in Workers : CountReused(t) \/ CountUnused(t) \/ CountReserved(t)
    BY <1>4
  <2>2. UNCHANGED <<list, header, capacity, lent, crashed>>
    BY <2>1 DEF CountReused, CountUnused, CountReserved
  <2>3. InCalls' /\ Lent' /\ Listed' /\ AssertionsHold'
    BY <2>1, <2>2, CountingStep
  <2> QED
    BY <1>1, <2>3 DEF MemoryInv
<1>5. CASE UNCHANGED memoryVars
  BY <1>1, <1>5 DEF memoryVars, MemoryInv, InCalls, CallOK, Busy, Popping, Lent, LentOK, Listed,
                    ListedOK, AssertionsHold
<1> QED
  BY <1>2, <1>3, <1>4, <1>5 DEF MemoryNext, Allocate, Release

LEMMA MemoryInvAlways == MemorySpec => []MemoryInv
<1>1. MemoryInit => MemoryInv
  BY InitMemoryInv
<1>2. MemoryInv /\ [MemoryNext]_memoryVars => MemoryInv'
  BY MemoryInvStep
<1> QED
  BY <1>1, <1>2, PTL DEF MemorySpec

(* The assertions of MemoryPool::pop and Memory::Release hold, whatever     *)
(* threads share the pools.                                                 *)
THEOREM MemoryAssertionsHold == MemorySpec => []AssertionsHold
<1>1. MemoryInv => AssertionsHold
  BY DEF MemoryInv
<1> QED
  BY <1>1, MemoryInvAlways, PTL

(* A request gets a block that is large enough and nobody else's, and every *)
(* block returns to its own pool (Memory::Allocate, Release, ObjectPool).   *)
THEOREM MemoryRequestFits == MemorySpec => []RequestFits
<1>1. MemoryInv => RequestFits
  <2> SUFFICES ASSUME MemoryInv PROVE RequestFits
    OBVIOUS
  <2>1. ASSUME NEW b \in Blocks, lent[b] # NoCaller
        PROVE  /\ capacity[b] >= Asked(lent[b])
               /\ \A p \in Pools : b \notin list[p]
               /\ \A t \in Workers : call[t].at \in {"reused", "popped"} => call[t].block # b
    <3>1. lent[b] \in Callers /\ LentOK(b)
      BY <2>1 DEF MemoryInv, MemoryTypeOK, Lent
    <3>2. \A t \in Workers : ~(Busy(t) /\ call[t].block = b)
      BY <2>1, NotInCall
    <3> QED
      BY <2>1, <3>1, <3>2, CallerFacts DEF LentOK, Busy
  <2>2. \A p \in Pools : \A b \in list[p] : capacity[b] = PoolSize(p)
    BY DEF MemoryInv, MemoryTypeOK, Listed, ListedOK
  <2> QED
    BY <2>1, <2>2, TableFitsAlways DEF RequestFits
<1> QED
  BY <1>1, MemoryInvAlways, PTL
-----------------------------------------------------------------------------
(* The counters *)

\* Whether x counts in S.
One(x, S) == IF x \in S THEN 1 ELSE 0

\* Two sets that agree on all but one element differ in size by that element.
LEMMA OneApart ==
  ASSUME NEW S, NEW T, NEW x, IsFiniteSet(S), S \ {x} = T \ {x}
  PROVE  /\ IsFiniteSet(T) /\ Cardinality(S) \in Nat /\ Cardinality(T) \in Nat
         /\ Cardinality(T) = Cardinality(S) - One(x, S) + One(x, T)
<1>1. IsFiniteSet(S \ {x}) /\ Cardinality(S) \in Nat
  BY FS_RemoveElement, FS_CardinalityType, Zenon
<1>2. IsFiniteSet(T)
  <2>1. CASE x \in T
    <3>1. T = (S \ {x}) \cup {x}
      BY <2>1
    <3> QED
      BY <1>1, <3>1, FS_AddElement, Zenon
  <2>2. CASE x \notin T
    <3>1. T = S \ {x}
      BY <2>2
    <3> QED
      BY <1>1, <3>1
  <2> QED
    BY <2>1, <2>2
<1>3. Cardinality(T) \in Nat /\ Cardinality(S \ {x}) \in Nat
  BY <1>1, <1>2, FS_CardinalityType
<1>4. ASSUME NEW U, IsFiniteSet(U), Cardinality(U) \in Nat, Cardinality(U \ {x}) \in Nat
      PROVE  Cardinality(U) = Cardinality(U \ {x}) + One(x, U)
  <2>1. Cardinality(U \ {x}) = IF x \in U THEN Cardinality(U) - 1 ELSE Cardinality(U)
    BY <1>4, FS_RemoveElement, Zenon
  <2>2. CASE x \in U
    <3>1. Cardinality(U \ {x}) = Cardinality(U) - 1 /\ One(x, U) = 1
      BY <2>1, <2>2 DEF One
    <3> QED
      BY <1>4, <3>1
  <2>3. CASE x \notin U
    <3>1. Cardinality(U \ {x}) = Cardinality(U) /\ One(x, U) = 0
      BY <2>1, <2>3 DEF One
    <3> QED
      BY <1>4, <3>1
  <2> QED
    BY <2>2, <2>3
<1>5. Cardinality(S) = Cardinality(S \ {x}) + One(x, S)
  BY <1>1, <1>3, <1>4
<1>6. Cardinality(T) = Cardinality(S \ {x}) + One(x, T)
  BY <1>2, <1>3, <1>4
<1>7. One(x, S) \in {0, 1} /\ One(x, T) \in {0, 1}
  BY DEF One
<1> QED
  BY <1>1, <1>2, <1>3, <1>5, <1>6, <1>7

\* What one thread's step does to the number of calls at some places.
LEMMA CallsApart ==
  ASSUME NEW p \in Pools, NEW places, NEW t \in Workers,
         \A u \in Workers : u # t => call'[u] = call[u]
  PROVE  /\ Cardinality(At(p, places)) \in Nat /\ Cardinality(At(p, places)') \in Nat
         /\ Cardinality(At(p, places)')
              = Cardinality(At(p, places)) - One(t, At(p, places)) + One(t, At(p, places)')
<1>1. PICK S : S = At(p, places)
  OBVIOUS
<1>2. PICK T : T = At(p, places)'
  OBVIOUS
<1>3. S \subseteq Workers
  BY <1>1 DEF At
<1>4. IsFiniteSet(S)
  BY <1>3, WorkersFinite, FS_Subset, Zenon
<1>5. S \ {t} = T \ {t}
  BY <1>1, <1>2 DEF At
<1> QED
  BY <1>1, <1>2, <1>4, <1>5, OneApart, Zenon

\* What a block that moves does to the numbers of lent and of listed blocks.
LEMMA BlocksApart ==
  ASSUME MemoryTypeOK, NEW p \in Pools, NEW b \in Blocks,
         \A x \in Blocks : x # b => lent'[x] = lent[x],
         list'[p] \ {b} = list[p] \ {b}
  PROVE  /\ Cardinality(list[p]) \in Nat /\ Cardinality(list[p]') \in Nat
         /\ Cardinality(list[p]')
              = Cardinality(list[p]) - One(b, list[p]) + One(b, list[p]')
         /\ Cardinality(LentTo(p)) \in Nat /\ Cardinality(LentTo(p)') \in Nat
         /\ Cardinality(LentTo(p)')
              = Cardinality(LentTo(p)) - One(b, LentTo(p)) + One(b, LentTo(p)')
<1>1. PICK S : S = LentTo(p)
  OBVIOUS
<1>2. PICK T : T = LentTo(p)'
  OBVIOUS
<1>3. S \subseteq Blocks /\ list[p] \subseteq Blocks
  BY <1>1 DEF LentTo, MemoryTypeOK
<1>4. IsFiniteSet(S) /\ IsFiniteSet(list[p])
  BY <1>3, BlocksFinite, FS_Subset, Zenon
<1>5. S \ {b} = T \ {b}
  BY <1>1, <1>2 DEF LentTo
<1>6. PICK U : U = list[p]'
  OBVIOUS
<1>7. /\ Cardinality(S) \in Nat /\ Cardinality(T) \in Nat
      /\ Cardinality(T) = Cardinality(S) - One(b, S) + One(b, T)
  BY <1>4, <1>5, OneApart, Zenon
<1>8. list[p] \ {b} = U \ {b}
  BY <1>6
<1>9. /\ Cardinality(list[p]) \in Nat /\ Cardinality(U) \in Nat
      /\ Cardinality(U) = Cardinality(list[p]) - One(b, list[p]) + One(b, U)
  BY <1>4, <1>8, OneApart, Zenon
<1> QED
  BY <1>1, <1>2, <1>6, <1>7, <1>9, Zenon
\* Whether a thread's call counts at some places of a pool.
Mark(t, p, places) == IF call[t].pool = p /\ call[t].at \in places THEN 1 ELSE 0

CountersAt(p) ==
  /\ reservedCount[p] = Cardinality(list[p]) + Cardinality(At(p, {"reused"}))
                          - Cardinality(At(p, {"pushed", "unused"}))
  /\ useCount[p] = Cardinality(LentTo(p)) + Cardinality(At(p, {"clear", "push", "pushed"}))

LEMMA MarksApart ==
  ASSUME NEW p \in Pools, NEW places, NEW t \in Workers,
         \A u \in Workers : u # t => call'[u] = call[u]
  PROVE  /\ Cardinality(At(p, places)) \in Nat /\ Cardinality(At(p, places)') \in Nat
         /\ Cardinality(At(p, places)')
              = Cardinality(At(p, places)) - Mark(t, p, places) + Mark(t, p, places)'
<1>1. One(t, At(p, places)) = Mark(t, p, places)
  BY DEF One, At, Mark
<1>2. One(t, At(p, places)') = Mark(t, p, places)'
  BY DEF One, At, Mark
<1> QED
  BY <1>1, <1>2, CallsApart, Zenon

\* A pool's counters stay right when they change by what its list, its lent
\* blocks and the calls on it change.
LEMMA Balance ==
  ASSUME MemoryTypeOK, NEW p \in Pools, CountersAt(p), NEW t \in Workers,
         \A u \in Workers : u # t => call'[u] = call[u],
         NEW listed \in Int, NEW used \in Int,
         Cardinality(list[p]) \in Nat, Cardinality(LentTo(p)) \in Nat,
         Cardinality(list[p]') = Cardinality(list[p]) + listed,
         Cardinality(LentTo(p)') = Cardinality(LentTo(p)) + used,
         reservedCount'[p] = reservedCount[p] + listed
           + (Mark(t, p, {"reused"})' - Mark(t, p, {"reused"}))
           - (Mark(t, p, {"pushed", "unused"})' - Mark(t, p, {"pushed", "unused"})),
         useCount'[p] = useCount[p] + used
           + (Mark(t, p, {"clear", "push", "pushed"})' - Mark(t, p, {"clear", "push", "pushed"}))
  PROVE  CountersAt(p)'
<1> DEFINE R == At(p, {"reused"})
           W == At(p, {"pushed", "unused"})
           U == At(p, {"clear", "push", "pushed"})
<1>1. /\ Cardinality(R) \in Nat /\ Cardinality(R') \in Nat
      /\ Cardinality(R') = Cardinality(R) - Mark(t, p, {"reused"}) + Mark(t, p, {"reused"})'
  BY MarksApart, Zenon
<1>2. /\ Cardinality(W) \in Nat /\ Cardinality(W') \in Nat
      /\ Cardinality(W') = Cardinality(W) - Mark(t, p, {"pushed", "unused"})
                             + Mark(t, p, {"pushed", "unused"})'
  BY MarksApart, Zenon
<1>3. /\ Cardinality(U) \in Nat /\ Cardinality(U') \in Nat
      /\ Cardinality(U') = Cardinality(U) - Mark(t, p, {"clear", "push", "pushed"})
                             + Mark(t, p, {"clear", "push", "pushed"})'
  BY MarksApart, Zenon
<1>4. /\ Mark(t, p, {"reused"}) \in {0, 1} /\ Mark(t, p, {"reused"})' \in {0, 1}
      /\ Mark(t, p, {"pushed", "unused"}) \in {0, 1}
      /\ Mark(t, p, {"pushed", "unused"})' \in {0, 1}
      /\ Mark(t, p, {"clear", "push", "pushed"}) \in {0, 1}
      /\ Mark(t, p, {"clear", "push", "pushed"})' \in {0, 1}
  BY DEF Mark
<1>5. /\ reservedCount[p] = Cardinality(list[p]) + Cardinality(R) - Cardinality(W)
      /\ useCount[p] = Cardinality(LentTo(p)) + Cardinality(U)
  BY DEF CountersAt
<1> HIDE DEF R, W, U
<1>6. reservedCount'[p] = Cardinality(list[p]') + Cardinality(R') - Cardinality(W')
  BY <1>1, <1>2, <1>4, <1>5
<1>7. useCount'[p] = Cardinality(LentTo(p)') + Cardinality(U')
  BY <1>3, <1>4, <1>5
<1> QED
  BY <1>6, <1>7 DEF CountersAt, R, W, U

LEMMA BlocksCountable ==
  ASSUME MemoryTypeOK, NEW p \in Pools
  PROVE  Cardinality(list[p]) \in Nat /\ Cardinality(LentTo(p)) \in Nat
<1>1. list[p] \subseteq Blocks /\ LentTo(p) \subseteq Blocks
  BY DEF LentTo, MemoryTypeOK
<1> QED
  BY <1>1, BlocksFinite, FS_Subset, FS_CardinalityType, Zenon

\* The steps of a call that move no block.
LEMMA CallCounts ==
  ASSUME MemoryInv, NEW p \in Pools, CountersAt(p), NEW t \in Workers,
         CountReused(t) \/ ClearHeader(t) \/ CountUnused(t) \/ CountReserved(t)
  PROVE  CountersAt(p)'
<1>0. MemoryTypeOK /\ InCalls
  BY DEF MemoryInv
<1>1. Cardinality(list[p]) \in Nat /\ Cardinality(LentTo(p)) \in Nat
  BY <1>0, BlocksCountable
<1>2. list' = list /\ lent' = lent
  BY DEF CountReused, ClearHeader, CountUnused, CountReserved
<1>3. LentTo(p)' = LentTo(p)
  BY <1>2 DEF LentTo
<1>4. /\ Cardinality(list[p]') = Cardinality(list[p]) + 0
      /\ Cardinality(LentTo(p)') = Cardinality(LentTo(p)) + 0
  BY <1>1, <1>2, <1>3
<1>5. \A u \in Workers : u # t => call'[u] = call[u]
  BY <1>0 DEF CountReused, ClearHeader, CountUnused, CountReserved, Goto, MemoryTypeOK
<1>6. call[t].pool \in Pools /\ call[t] \in Calls
  BY <1>0 DEF CountReused, ClearHeader, CountUnused, CountReserved, MemoryTypeOK, InCalls, CallOK
<1>7. PICK q \in Pools : q = call[t].pool
  BY <1>6
<1>8. reservedCount[p] \in Int /\ useCount[p] \in Int
  BY <1>0 DEF MemoryTypeOK
<1>9. NoCall.at = "none"
  BY DEF NoCall
<1>10. CASE CountReused(t)
  <2>1. /\ call'[t].at = "popped" /\ call'[t].pool = q /\ useCount' = useCount
        /\ call[t].at = "reused"
    BY <1>0, <1>6, <1>7, <1>10 DEF CountReused, Goto, MemoryTypeOK, Calls
  <2>2. reservedCount'[p] = IF p = q THEN reservedCount[p] - 1 ELSE reservedCount[p]
    BY <1>0, <1>7, <1>10 DEF CountReused, MemoryTypeOK
  <2>3. /\ reservedCount'[p] = reservedCount[p] + 0
             + (Mark(t, p, {"reused"})' - Mark(t, p, {"reused"}))
             - (Mark(t, p, {"pushed", "unused"})' - Mark(t, p, {"pushed", "unused"}))
        /\ useCount'[p] = useCount[p] + 0 + (Mark(t, p, {"clear", "push", "pushed"})'
                                               - Mark(t, p, {"clear", "push", "pushed"}))
    BY <1>7, <1>8, <2>1, <2>2 DEF Mark
  <2> QED
    BY <1>0, <1>1, <1>4, <1>5, <2>3, Balance
<1>11. CASE ClearHeader(t)
  <2>1. /\ call'[t].at = "push" /\ call'[t].pool = q
        /\ useCount' = useCount /\ reservedCount' = reservedCount
        /\ call[t].at = "clear"
    BY <1>0, <1>6, <1>7, <1>11 DEF ClearHeader, Goto, MemoryTypeOK, Calls
  <2>2. /\ reservedCount'[p] = reservedCount[p] + 0
             + (Mark(t, p, {"reused"})' - Mark(t, p, {"reused"}))
             - (Mark(t, p, {"pushed", "unused"})' - Mark(t, p, {"pushed", "unused"}))
        /\ useCount'[p] = useCount[p] + 0 + (Mark(t, p, {"clear", "push", "pushed"})'
                                               - Mark(t, p, {"clear", "push", "pushed"}))
    BY <1>7, <1>8, <2>1 DEF Mark
  <2> QED
    BY <1>0, <1>1, <1>4, <1>5, <2>2, Balance
<1>12. CASE CountUnused(t)
  <2>1. /\ call'[t].at = "unused" /\ call'[t].pool = q /\ reservedCount' = reservedCount
        /\ call[t].at = "pushed"
    BY <1>0, <1>6, <1>7, <1>12 DEF CountUnused, Goto, MemoryTypeOK, Calls
  <2>2. useCount'[p] = IF p = q THEN useCount[p] - 1 ELSE useCount[p]
    BY <1>0, <1>7, <1>12 DEF CountUnused, MemoryTypeOK
  <2>3. /\ reservedCount'[p] = reservedCount[p] + 0
             + (Mark(t, p, {"reused"})' - Mark(t, p, {"reused"}))
             - (Mark(t, p, {"pushed", "unused"})' - Mark(t, p, {"pushed", "unused"}))
        /\ useCount'[p] = useCount[p] + 0 + (Mark(t, p, {"clear", "push", "pushed"})'
                                               - Mark(t, p, {"clear", "push", "pushed"}))
    BY <1>7, <1>8, <2>1, <2>2 DEF Mark
  <2> QED
    BY <1>0, <1>1, <1>4, <1>5, <2>3, Balance
<1>13. CASE CountReserved(t)
  <2>1. /\ call'[t].at = "none" /\ useCount' = useCount /\ call[t].at = "unused"
    BY <1>0, <1>9, <1>13 DEF CountReserved, MemoryTypeOK
  <2>2. reservedCount'[p] = IF p = q THEN reservedCount[p] + 1 ELSE reservedCount[p]
    BY <1>0, <1>7, <1>13 DEF CountReserved, MemoryTypeOK
  <2>3. /\ reservedCount'[p] = reservedCount[p] + 0
             + (Mark(t, p, {"reused"})' - Mark(t, p, {"reused"}))
             - (Mark(t, p, {"pushed", "unused"})' - Mark(t, p, {"pushed", "unused"}))
        /\ useCount'[p] = useCount[p] + 0 + (Mark(t, p, {"clear", "push", "pushed"})'
                                               - Mark(t, p, {"clear", "push", "pushed"}))
    BY <1>7, <1>8, <2>1, <2>2 DEF Mark
  <2> QED
    BY <1>0, <1>1, <1>4, <1>5, <2>3, Balance
<1> QED
  BY <1>10, <1>11, <1>12, <1>13
LEMMA BlockBalance ==
  ASSUME MemoryTypeOK, NEW p \in Pools, CountersAt(p), NEW t \in Workers, NEW b \in Blocks,
         \A u \in Workers : u # t => call'[u] = call[u],
         \A x \in Blocks : x # b => lent'[x] = lent[x],
         list'[p] \ {b} = list[p] \ {b},
         reservedCount'[p] = reservedCount[p] + (One(b, list[p]') - One(b, list[p]))
           + (Mark(t, p, {"reused"})' - Mark(t, p, {"reused"}))
           - (Mark(t, p, {"pushed", "unused"})' - Mark(t, p, {"pushed", "unused"})),
         useCount'[p] = useCount[p] + (One(b, LentTo(p)') - One(b, LentTo(p)))
           + (Mark(t, p, {"clear", "push", "pushed"})' - Mark(t, p, {"clear", "push", "pushed"}))
  PROVE  CountersAt(p)'
<1>1. One(b, list[p]') - One(b, list[p]) \in Int /\ One(b, LentTo(p)') - One(b, LentTo(p)) \in Int
  BY DEF One
<1>2. PICK listed \in Int : listed = One(b, list[p]') - One(b, list[p])
  BY <1>1
<1>3. PICK used \in Int : used = One(b, LentTo(p)') - One(b, LentTo(p))
  BY <1>1
<1>4. /\ Cardinality(list[p]) \in Nat /\ Cardinality(list[p]') \in Nat
      /\ Cardinality(list[p]')
           = Cardinality(list[p]) - One(b, list[p]) + One(b, list[p]')
      /\ Cardinality(LentTo(p)) \in Nat /\ Cardinality(LentTo(p)') \in Nat
      /\ Cardinality(LentTo(p)')
           = Cardinality(LentTo(p)) - One(b, LentTo(p)) + One(b, LentTo(p)')
  BY BlocksApart, Zenon
<1>5. /\ One(b, list[p]) \in {0, 1} /\ One(b, list[p]') \in {0, 1}
      /\ One(b, LentTo(p)) \in {0, 1} /\ One(b, LentTo(p)') \in {0, 1}
  BY DEF One
<1>6. /\ Cardinality(list[p]') = Cardinality(list[p]) + listed
      /\ Cardinality(LentTo(p)') = Cardinality(LentTo(p)) + used
  BY <1>2, <1>3, <1>4, <1>5
<1>7. reservedCount'[p] = reservedCount[p] + listed
        + (Mark(t, p, {"reused"})' - Mark(t, p, {"reused"}))
        - (Mark(t, p, {"pushed", "unused"})' - Mark(t, p, {"pushed", "unused"}))
  BY <1>2
<1>8. useCount'[p] = useCount[p] + used
        + (Mark(t, p, {"clear", "push", "pushed"})' - Mark(t, p, {"clear", "push", "pushed"}))
  BY <1>3
<1> QED
  BY <1>4, <1>6, <1>7, <1>8, Balance

\* The steps that get a block or take one back.
LEMMA AllocateCounts ==
  ASSUME MemoryInv, NEW p \in Pools, CountersAt(p), NEW t \in Workers, NEW c \in Callers,
         NEW b \in Blocks, AllocateLarge(t, c, b) \/ PopNew(t, c, b) \/ PopOld(t, c, b)
  PROVE  CountersAt(p)'
<1>0. MemoryTypeOK /\ InCalls
  BY DEF MemoryInv
<1>1. reservedCount[p] \in Int /\ useCount[p] \in Int
  BY <1>0 DEF MemoryTypeOK
<1>2. UNCHANGED <<reservedCount, useCount>> /\ call[t].at = "none"
  BY DEF AllocateLarge, PopNew, PopOld, NoCall
<1>3. \A u \in Workers : u # t => call'[u] = call[u]
  BY <1>0 DEF AllocateLarge, PopNew, PopOld, MemoryTypeOK
<1>4. CASE AllocateLarge(t, c, b)
  <2>1. /\ ~Pooled(c) /\ capacity[b] = 0 /\ list' = list /\ call' = call
        /\ lent' = [lent EXCEPT ![b] = c]
    BY <1>4 DEF AllocateLarge, Attach
  <2>2. lent[b] = NoCaller
    BY <2>1, FreshIsFree
  <2>3. b \notin LentTo(p) /\ b \notin LentTo(p)' /\ \A x \in Blocks : x # b => lent'[x] = lent[x]
    BY <1>0, <2>1, <2>2 DEF LentTo, MemoryTypeOK
  <2>4. /\ reservedCount'[p] = reservedCount[p] + (One(b, list[p]') - One(b, list[p]))
             + (Mark(t, p, {"reused"})' - Mark(t, p, {"reused"}))
             - (Mark(t, p, {"pushed", "unused"})' - Mark(t, p, {"pushed", "unused"}))
        /\ useCount'[p] = useCount[p] + (One(b, LentTo(p)') - One(b, LentTo(p)))
             + (Mark(t, p, {"clear", "push", "pushed"})' - Mark(t, p, {"clear", "push", "pushed"}))
    BY <1>1, <1>2, <2>1, <2>3 DEF One, Mark
  <2> QED
    BY <1>0, <1>3, <2>1, <2>3, <2>4, BlockBalance
<1>5. CASE PopNew(t, c, b)
  <2>1. list' = list /\ lent' = lent /\ call'[t].at = "popped"
    BY <1>0, <1>5 DEF PopNew, MemoryTypeOK
  <2>2. LentTo(p)' = LentTo(p)
    BY <2>1 DEF LentTo
  <2>3. /\ reservedCount'[p] = reservedCount[p] + (One(b, list[p]') - One(b, list[p]))
             + (Mark(t, p, {"reused"})' - Mark(t, p, {"reused"}))
             - (Mark(t, p, {"pushed", "unused"})' - Mark(t, p, {"pushed", "unused"}))
        /\ useCount'[p] = useCount[p] + (One(b, LentTo(p)') - One(b, LentTo(p)))
             + (Mark(t, p, {"clear", "push", "pushed"})' - Mark(t, p, {"clear", "push", "pushed"}))
    BY <1>1, <1>2, <2>1, <2>2 DEF One, Mark
  <2> QED
    BY <1>0, <1>3, <2>1, <2>3, BlockBalance
<1>6. CASE PopOld(t, c, b)
  <2>1. PICK q \in Pools : q = PoolOf(c)
    BY <1>6, CallerFacts DEF PopOld
  <2>2. /\ b \in list[q] /\ list' = [list EXCEPT ![q] = @ \ {b}] /\ lent' = lent
        /\ call'[t].at = "reused" /\ call'[t].pool = q
    BY <1>0, <1>6, <2>1 DEF PopOld, MemoryTypeOK
  <2>3. LentTo(p)' = LentTo(p)
    BY <2>2 DEF LentTo
  <2>4. b \notin list[p]' <=> p = q \/ b \notin list[p]
    BY <1>0, <2>2 DEF MemoryTypeOK
  <2>5. list'[p] \ {b} = list[p] \ {b}
    BY <1>0, <2>2 DEF MemoryTypeOK
  <2>6. /\ reservedCount'[p] = reservedCount[p] + (One(b, list[p]') - One(b, list[p]))
             + (Mark(t, p, {"reused"})' - Mark(t, p, {"reused"}))
             - (Mark(t, p, {"pushed", "unused"})' - Mark(t, p, {"pushed", "unused"}))
        /\ useCount'[p] = useCount[p] + (One(b, LentTo(p)') - One(b, LentTo(p)))
             + (Mark(t, p, {"clear", "push", "pushed"})' - Mark(t, p, {"clear", "push", "pushed"}))
    BY <1>1, <1>2, <2>2, <2>3, <2>4 DEF One, Mark
  <2> QED
    BY <1>0, <1>3, <2>2, <2>5, <2>6, BlockBalance
<1> QED
  BY <1>4, <1>5, <1>6

LEMMA ReleaseCounts ==
  ASSUME MemoryInv, NEW p \in Pools, CountersAt(p), NEW t \in Workers, NEW b \in Blocks,
         ReleaseLarge(t, b) \/ BeginRelease(t, b)
  PROVE  CountersAt(p)'
<1>0. MemoryTypeOK /\ InCalls /\ Lent
  BY DEF MemoryInv
<1>1. reservedCount[p] \in Int /\ useCount[p] \in Int
  BY <1>0 DEF MemoryTypeOK
<1>2. /\ UNCHANGED <<reservedCount, useCount, list>> /\ call[t].at = "none"
      /\ lent[b] # NoCaller /\ lent' = [lent EXCEPT ![b] = NoCaller]
  BY DEF ReleaseLarge, BeginRelease, NoCall, NoCaller
<1>3. \A u \in Workers : u # t => call'[u] = call[u]
  BY <1>0 DEF ReleaseLarge, BeginRelease, MemoryTypeOK
<1>4. \A x \in Blocks : x # b => lent'[x] = lent[x]
  BY <1>0, <1>2 DEF MemoryTypeOK
<1>5. lent'[b] = NoCaller /\ b \notin LentTo(p)'
  BY <1>0, <1>2 DEF MemoryTypeOK, LentTo
<1>6. PICK c \in Callers : c = lent[b]
  BY <1>0, <1>2 DEF MemoryTypeOK
<1>7. CASE ReleaseLarge(t, b)
  <2>1. call' = call /\ header[b] > MAX_ALLOC_SIZE /\ c[1] = "memory" /\ header[b] = Asked(c)
    BY <1>0, <1>2, <1>6, <1>7 DEF ReleaseLarge, Lent, LentOK
  <2>2. c[1] # "object" /\ MAX_ALLOC_SIZE \in Nat /\ Asked(c) \in Nat
    BY <2>1, CallerFacts DEF MAX_ALLOC_SIZE
  <2>3. ~Pooled(c)
    BY <2>1, <2>2, CallerFacts
  <2>4. b \notin LentTo(p)
    BY <1>6, <2>3 DEF LentTo
  <2>5. /\ reservedCount'[p] = reservedCount[p] + (One(b, list[p]') - One(b, list[p]))
             + (Mark(t, p, {"reused"})' - Mark(t, p, {"reused"}))
             - (Mark(t, p, {"pushed", "unused"})' - Mark(t, p, {"pushed", "unused"}))
        /\ useCount'[p] = useCount[p] + (One(b, LentTo(p)') - One(b, LentTo(p)))
             + (Mark(t, p, {"clear", "push", "pushed"})' - Mark(t, p, {"clear", "push", "pushed"}))
    BY <1>1, <1>2, <1>5, <2>1, <2>4 DEF One, Mark
  <2> QED
    BY <1>0, <1>2, <1>3, <1>4, <2>5, BlockBalance
<1>8. CASE BeginRelease(t, b)
  <2>1. lent[b][1] = "object" \/ header[b] <= MAX_ALLOC_SIZE
    BY <1>8 DEF BeginRelease
  <2>2. PICK q \in Pools : q = WayBack(b) /\ Pooled(lent[b]) /\ PoolOf(lent[b]) = q
    BY <1>0, <1>2, <2>1, WayBackIsHome
  <2>3. call'[t].at = "clear" /\ call'[t].pool = q
    BY <1>0, <1>8, <2>2 DEF BeginRelease, MemoryTypeOK
  <2>4. b \in LentTo(p) <=> p = q
    BY <1>2, <2>2 DEF LentTo
  <2>5. /\ reservedCount'[p] = reservedCount[p] + (One(b, list[p]') - One(b, list[p]))
             + (Mark(t, p, {"reused"})' - Mark(t, p, {"reused"}))
             - (Mark(t, p, {"pushed", "unused"})' - Mark(t, p, {"pushed", "unused"}))
        /\ useCount'[p] = useCount[p] + (One(b, LentTo(p)') - One(b, LentTo(p)))
             + (Mark(t, p, {"clear", "push", "pushed"})' - Mark(t, p, {"clear", "push", "pushed"}))
    BY <1>1, <1>2, <1>5, <2>3, <2>4 DEF One, Mark
  <2> QED
    BY <1>0, <1>2, <1>3, <1>4, <2>5, BlockBalance
<1> QED
  BY <1>7, <1>8

\* The steps that end a pop or a Push: the block changes hands.
LEMMA HandCounts ==
  ASSUME MemoryInv, NEW p \in Pools, CountersAt(p), NEW t \in Workers,
         CountUsed(t) \/ PushEntry(t)
  PROVE  CountersAt(p)'
<1>0. MemoryTypeOK /\ InCalls
  BY DEF MemoryInv
<1>1. reservedCount[p] \in Int /\ useCount[p] \in Int
  BY <1>0 DEF MemoryTypeOK
<1>2. Busy(t)
  BY DEF CountUsed, PushEntry, Busy
<1>3. PICK b \in Blocks : b = call[t].block
  BY <1>2, InCallIsAlone
<1>4. PICK q \in Pools : q = call[t].pool
  BY <1>2, InCallIsAlone
<1>5. lent[b] = NoCaller /\ (\A r \in Pools : b \notin list[r])
  BY <1>2, <1>3, InCallIsAlone
<1>6. \A u \in Workers : u # t => call'[u] = call[u]
  BY <1>0 DEF CountUsed, PushEntry, Goto, MemoryTypeOK
<1>7. b \notin LentTo(p) /\ b \notin list[p]
  BY <1>5 DEF LentTo
<1>8. CASE CountUsed(t)
  <2>1. PICK c \in Callers : c = call[t].by /\ Pooled(c) /\ q = PoolOf(c)
    BY <1>0, <1>4, <1>8 DEF CountUsed, InCalls, CallOK, Popping
  <2>2. /\ UNCHANGED <<list, reservedCount>> /\ call[t].at = "popped"
        /\ lent' = [lent EXCEPT ![b] = c]
    BY <1>3, <1>8, <2>1 DEF CountUsed, Attach
  <2>3. call'[t].at = "none"
    BY <1>0, <1>8 DEF CountUsed, MemoryTypeOK, NoCall
  <2>4. \A x \in Blocks : x # b => lent'[x] = lent[x]
    BY <1>0, <2>2 DEF MemoryTypeOK
  <2>5. lent'[b] = c /\ c # NoCaller
    BY <1>0, <2>2, CallerFacts DEF MemoryTypeOK
  <2>6. b \in LentTo(p)' <=> p = q
    BY <2>1, <2>5 DEF LentTo
  <2>7. useCount'[p] = IF p = q THEN useCount[p] + 1 ELSE useCount[p]
    BY <1>0, <1>4, <1>8 DEF CountUsed, MemoryTypeOK
  <2>8. /\ reservedCount'[p] = reservedCount[p] + (One(b, list[p]') - One(b, list[p]))
             + (Mark(t, p, {"reused"})' - Mark(t, p, {"reused"}))
             - (Mark(t, p, {"pushed", "unused"})' - Mark(t, p, {"pushed", "unused"}))
        /\ useCount'[p] = useCount[p] + (One(b, LentTo(p)') - One(b, LentTo(p)))
             + (Mark(t, p, {"clear", "push", "pushed"})' - Mark(t, p, {"clear", "push", "pushed"}))
    BY <1>1, <1>7, <2>2, <2>3, <2>6, <2>7 DEF One, Mark
  <2> QED
    BY <1>0, <1>6, <2>2, <2>4, <2>8, BlockBalance
<1>9. CASE PushEntry(t)
  <2>1. /\ UNCHANGED <<lent, useCount, reservedCount>> /\ call[t].at = "push"
        /\ list' = [list EXCEPT ![q] = @ \cup {b}]
    BY <1>3, <1>4, <1>9 DEF PushEntry
  <2>2. call'[t].at = "pushed" /\ call'[t].pool = q
    BY <1>0, <1>4, <1>9 DEF PushEntry, Goto, MemoryTypeOK, Calls
  <2>3. LentTo(p)' = LentTo(p)
    BY <2>1 DEF LentTo
  <2>4. b \in list[p]' <=> p = q
    BY <1>0, <1>7, <2>1 DEF MemoryTypeOK
  <2>5. list'[p] \ {b} = list[p] \ {b}
    BY <1>0, <2>1 DEF MemoryTypeOK
  <2>6. /\ reservedCount'[p] = reservedCount[p] + (One(b, list[p]') - One(b, list[p]))
             + (Mark(t, p, {"reused"})' - Mark(t, p, {"reused"}))
             - (Mark(t, p, {"pushed", "unused"})' - Mark(t, p, {"pushed", "unused"}))
        /\ useCount'[p] = useCount[p] + (One(b, LentTo(p)') - One(b, LentTo(p)))
             + (Mark(t, p, {"clear", "push", "pushed"})' - Mark(t, p, {"clear", "push", "pushed"}))
    BY <1>1, <1>4, <1>7, <2>1, <2>2, <2>3, <2>4 DEF One, Mark
  <2> QED
    BY <1>0, <1>6, <2>1, <2>5, <2>6, BlockBalance
<1> QED
  BY <1>8, <1>9

(* The counters of every pool tell its blocks, up to the calls under way,   *)
(* however many threads push and pop at once (MemoryPool::Push, pop).       *)
THEOREM MemoryCountersSettle == MemorySpec => []CountersSettle
<1>1. CountersSettle <=> \A p \in Pools : CountersAt(p)
  BY DEF CountersSettle, CountersAt
<1>2. MemoryInit => CountersSettle
  <2> SUFFICES ASSUME MemoryInit, NEW p \in Pools PROVE CountersAt(p)
    BY <1>1
  <2>1. list[p] = {} /\ LentTo(p) = {} /\ useCount[p] = 0 /\ reservedCount[p] = 0
    BY DEF MemoryInit, LentTo
  <2>2. \A t \in Workers : call[t].at = "none"
    BY DEF MemoryInit, NoCall
  <2>3. /\ At(p, {"reused"}) = {} /\ At(p, {"pushed", "unused"}) = {}
        /\ At(p, {"clear", "push", "pushed"}) = {}
    BY <2>2 DEF At
  <2>4. Cardinality({}) = 0
    BY FS_EmptySet
  <2> QED
    BY <2>1, <2>3, <2>4 DEF CountersAt
<1>3. MemoryInv /\ CountersSettle /\ [MemoryNext]_memoryVars => CountersSettle'
  <2> SUFFICES ASSUME MemoryInv, CountersSettle, [MemoryNext]_memoryVars, NEW p \in Pools
               PROVE  CountersAt(p)'
    BY DEF CountersSettle, CountersAt
  <2>1. CountersAt(p)
    BY <1>1
  <2>2. CASE \E t \in Workers, b \in Blocks :
               \/ \E c \in Callers :
                    AllocateLarge(t, c, b) \/ PopNew(t, c, b) \/ PopOld(t, c, b)
               \/ ReleaseLarge(t, b) \/ BeginRelease(t, b)
    BY <2>1, <2>2, AllocateCounts, ReleaseCounts
  <2>3. CASE \E t \in Workers : CountUsed(t) \/ PushEntry(t)
    BY <2>1, <2>3, HandCounts
  <2>4. CASE \E t \in Workers : CountReused(t) \/ ClearHeader(t) \/ CountUnused(t)
                                  \/ CountReserved(t)
    BY <2>1, <2>4, CallCounts
  <2>5. CASE UNCHANGED memoryVars
    BY <2>1, <2>5 DEF memoryVars, CountersAt, At, LentTo
  <2> QED
    BY <2>2, <2>3, <2>4, <2>5 DEF MemoryNext, Allocate, Release
<1> QED
  BY <1>2, <1>3, MemoryInvAlways, PTL DEF MemorySpec

-----------------------------------------------------------------------------
(***************************************************************************)
(* DBConnectionPool: a connection is in one hand, and a query uses its own *)
(* variables (ConnectionInOneHand, OwnBindings).                           *)
(*                                                                         *)
(* What another borrower left in a statement is unbound by the constructor *)
(* of DBBind; from there on only its holder touches the statement (Fresh). *)
(***************************************************************************)

\* What a statement has bound: an index leads to an address.
Bindings == UNION {[D -> {"own", "stale"}] : D \in SUBSET Nat}

DBTypeOK ==
  /\ pool \in Seq(Conns)
  /\ stage \in {"closed", "open", "failed"}
  /\ cursor \in [Conns -> BOOLEAN]
  /\ params \in [Conns -> Bindings] /\ cols \in [Conns -> Bindings]
  /\ hand \in [Borrowers -> Conns \cup {NoConn}]
  /\ shape \in [Borrowers -> Nat \X Nat]
  /\ step \in [Borrowers -> {"away", "refused", "holds", "binds", "executed", "fetched",
                             "failed"}]
  /\ dangled \in BOOLEAN

\* Only a borrower of an open pool has a connection, and it is at work.
HandsInUse ==
  \A b \in Borrowers :
    /\ hand[b] # NoConn => stage = "open"
    /\ hand[b] = NoConn <=> step[b] \in {"away", "refused"}

OwnOnly(bound) == \A i \in DOMAIN bound : bound[i] = "own"

\* What a borrower's query will use is its own: all that it has bound since
\* the constructor of its DBBind, and the columns of its result set.
FreshFor(b) ==
  /\ step[b] = "binds" => OwnOnly(params[hand[b]]) /\ OwnOnly(cols[hand[b]])
  /\ step[b] = "executed" /\ cursor[hand[b]] => OwnOnly(cols[hand[b]])

Fresh == \A b \in Borrowers : FreshFor(b)

DBInv == DBTypeOK /\ ConnectionInOneHand /\ HandsInUse /\ Fresh /\ OwnBindings

\* The sequence that SetToSeq makes has each connection once.
LEMMA MadeOnce ==
  ASSUME NEW made \in SUBSET Conns
  PROVE  /\ SetToSeq(made) \in Seq(Conns)
         /\ \A i, k \in 1..Len(SetToSeq(made)) :
              SetToSeq(made)[i] = SetToSeq(made)[k] => i = k
<1>1. IsFiniteSet(made)
  BY ConnsFinite, FS_Subset, Zenon
<1>2. Cardinality(made) \in Nat /\ ExistsBijection(1..Cardinality(made), made)
  BY <1>1, FS_CardinalityType, Zenon
<1>3. PICK n \in Nat : n = Cardinality(made)
  BY <1>2
<1>4. \E f \in [1..n -> made] : \A a, b \in DOMAIN f : f[a] = f[b] => a = b
  BY <1>2, <1>3 DEF ExistsBijection, Bijection, Injection, Surjection, IsInjective
<1>5. \E f \in [1..n -> made] : IsInjective(f)
  BY <1>4 DEF IsInjective
<1>6. PICK s : s = SetToSeq(made)
  OBVIOUS
<1>7. s \in [1..n -> made] /\ IsInjective(s)
  BY <1>3, <1>5, <1>6 DEF SetToSeq
<1>8. s \in Seq(Conns) /\ Len(s) = n /\ DOMAIN s = 1..n
  <2>1. s \in [1..n -> Conns]
    BY <1>7
  <2> QED
    BY <2>1
<1> QED
  BY <1>6, <1>7, <1>8 DEF IsInjective
LEMMA BindingsKept ==
  /\ Nothing \in Bindings /\ OwnOnly(Nothing)
  /\ \A bound \in Bindings : Stale(bound) \in Bindings
  /\ \A bound \in Bindings, i \in Nat, ok \in BOOLEAN : Attempted(bound, i, ok) \in Bindings
  /\ \A bound \in Bindings, i \in Nat, ok \in BOOLEAN :
       OwnOnly(bound) => OwnOnly(Attempted(bound, i, ok))
<1>1. Nothing \in Bindings /\ OwnOnly(Nothing)
  <2>1. Nothing \in [{} -> {"own", "stale"}]
    BY DEF Nothing
  <2> QED
    BY <2>1 DEF Bindings, OwnOnly
<1>2. ASSUME NEW bound \in Bindings PROVE Stale(bound) \in Bindings
  <2>1. PICK D \in SUBSET Nat : bound \in [D -> {"own", "stale"}]
    BY DEF Bindings
  <2>2. Stale(bound) \in [D -> {"own", "stale"}]
    BY <2>1 DEF Stale
  <2> QED
    BY <2>2 DEF Bindings
<1>3. ASSUME NEW bound \in Bindings, NEW i \in Nat
      PROVE  /\ Bound(bound, i) \in Bindings
             /\ OwnOnly(bound) => OwnOnly(Bound(bound, i))
  <2>1. PICK D \in SUBSET Nat : bound \in [D -> {"own", "stale"}]
    BY DEF Bindings
  <2>2. Bound(bound, i) \in [D \cup {i} -> {"own", "stale"}] /\ D \cup {i} \in SUBSET Nat
    BY <2>1 DEF Bound
  <2>3. Bound(bound, i) \in Bindings
    BY <2>2 DEF Bindings
  <2>4. OwnOnly(bound) => OwnOnly(Bound(bound, i))
    BY <2>1 DEF Bound, OwnOnly
  <2> QED
    BY <2>3, <2>4
<1> QED
  BY <1>1, <1>2, <1>3 DEF Attempted

\* The last connection of the pool, and the pool without it.
LEMMA PoolFacts ==
  ASSUME NEW s \in Seq(Conns)
  PROVE  /\ s # <<>> => /\ Front(s) \in Seq(Conns) /\ Len(Front(s)) = Len(s) - 1
                        /\ Last(s) \in Conns /\ Last(s) = s[Len(s)] /\ Len(s) \in Nat \ {0}
                        /\ \A i \in 1..Len(s) - 1 : Front(s)[i] = s[i]
         /\ \A c \in Conns : /\ Append(s, c) \in Seq(Conns) /\ Len(Append(s, c)) = Len(s) + 1
                             /\ Append(s, c)[Len(s) + 1] = c
                             /\ \A i \in 1..Len(s) : Append(s, c)[i] = s[i]
<1>1. ASSUME s # <<>>
      PROVE  /\ Front(s) \in Seq(Conns) /\ Len(Front(s)) = Len(s) - 1
             /\ Last(s) \in Conns /\ Last(s) = s[Len(s)] /\ Len(s) \in Nat \ {0}
             /\ \A i \in 1..Len(s) - 1 : Front(s)[i] = s[i]
  <2>1. PICK n \in Nat : n = Len(s) /\ n > 0
    BY <1>1
  <2>2. \A i \in 1..n : s[i] \in Conns
    BY <2>1
  <2>3. Front(s) = SubSeq(s, 1, n - 1) /\ Last(s) = s[n]
    BY <2>1 DEF Front, Last
  <2>4. /\ SubSeq(s, 1, n - 1) \in Seq(Conns) /\ Len(SubSeq(s, 1, n - 1)) = n - 1
        /\ \A i \in 1..n - 1 : SubSeq(s, 1, n - 1)[i] = s[i]
    BY <2>1, <2>2
  <2> QED
    BY <2>1, <2>2, <2>3, <2>4
<1>2. ASSUME NEW c \in Conns
      PROVE  /\ Append(s, c) \in Seq(Conns) /\ Len(Append(s, c)) = Len(s) + 1
             /\ Append(s, c)[Len(s) + 1] = c
             /\ \A i \in 1..Len(s) : Append(s, c)[i] = s[i]
  BY <1>2
<1> QED
  BY <1>1, <1>2

LEMMA DBTypeStep ==
  ASSUME DBTypeOK, HandsInUse, [DBNext]_dbVars
  PROVE  DBTypeOK'
<1> USE NoConnIsNone
<1>1. CASE Connect
  <2>1. pool' \in Seq(Conns) /\ stage' \in {"closed", "open", "failed"}
    BY <1>1, MadeOnce DEF Connect
  <2>2. /\ cursor' \in [Conns -> BOOLEAN]
        /\ params' \in [Conns -> Bindings] /\ cols' \in [Conns -> Bindings]
    BY <1>1, BindingsKept DEF Connect
  <2> QED
    BY <1>1, <2>1, <2>2 DEF Connect, binding, DBTypeOK
<1>2. CASE ClearPool
  BY <1>2 DEF ClearPool, statement, binding, DBTypeOK
<1>3. ASSUME NEW b \in Borrowers, Pop(b) PROVE DBTypeOK'
  <2>1. pool' \in Seq(Conns) /\ hand' \in [Borrowers -> Conns \cup {NoConn}]
    BY <1>3, PoolFacts DEF Pop, DBTypeOK
  <2>2. step' \in [Borrowers -> {"away", "refused", "holds", "binds", "executed", "fetched",
                                 "failed"}]
    BY <1>3 DEF Pop, DBTypeOK
  <2> QED
    BY <1>3, <2>1, <2>2 DEF Pop, statement, binding, DBTypeOK
<1>4. ASSUME NEW b \in Borrowers, GiveUp(b) PROVE DBTypeOK'
  BY <1>4 DEF GiveUp, statement, binding, DBTypeOK
<1>5. ASSUME NEW b \in Borrowers, Push(b) PROVE DBTypeOK'
  <2>1. PICK c \in Conns : c = hand[b]
    BY <1>5 DEF Push, DBTypeOK
  <2>2. pool' \in Seq(Conns)
    BY <1>5, <2>1, PoolFacts DEF Push, DBTypeOK
  <2>3. params' \in [Conns -> Bindings] /\ cols' \in [Conns -> Bindings]
    BY <1>5, <2>1, BindingsKept DEF Push, DBTypeOK
  <2> QED
    BY <1>5, <2>2, <2>3 DEF Push, binding, DBTypeOK
<1>6. ASSUME NEW b \in Borrowers, NEW s \in Shapes, MakeBind(b, s) PROVE DBTypeOK'
  <2>1. PICK c \in Conns : c = hand[b]
    BY <1>6 DEF MakeBind, DBTypeOK, HandsInUse
  <2>2. s \in Nat \X Nat
    BY ShapesAreNat
  <2>3. params' \in [Conns -> Bindings] /\ cols' \in [Conns -> Bindings]
    BY <1>6, <2>1, BindingsKept DEF MakeBind, DBTypeOK
  <2> QED
    BY <1>6, <2>1, <2>2, <2>3 DEF MakeBind, DBTypeOK
<1>7. ASSUME NEW b \in Borrowers, NEW i \in 1..shape[b][1], BindParam(b, i) PROVE DBTypeOK'
  <2>1. PICK c \in Conns : c = hand[b]
    BY <1>7 DEF BindParam, DBTypeOK, HandsInUse
  <2>2. shape[b][1] \in Nat
    BY DEF DBTypeOK
  <2>3. i \in Nat
    BY <2>2
  <2>4. params' \in [Conns -> Bindings]
    BY <1>7, <2>1, <2>3, BindingsKept DEF BindParam, DBTypeOK
  <2> QED
    BY <1>7, <2>4 DEF BindParam, DBTypeOK
<1>8. ASSUME NEW b \in Borrowers, NEW i \in 1..shape[b][2], BindCol(b, i) PROVE DBTypeOK'
  <2>1. PICK c \in Conns : c = hand[b]
    BY <1>8 DEF BindCol, DBTypeOK, HandsInUse
  <2>2. shape[b][2] \in Nat
    BY DEF DBTypeOK
  <2>3. i \in Nat
    BY <2>2
  <2>4. cols' \in [Conns -> Bindings]
    BY <1>8, <2>1, <2>3, BindingsKept DEF BindCol, DBTypeOK
  <2> QED
    BY <1>8, <2>4 DEF BindCol, DBTypeOK
<1>9. ASSUME NEW b \in Borrowers, Execute(b) PROVE DBTypeOK'
  <2>1. PICK ok \in BOOLEAN :
          /\ cursor' = [cursor EXCEPT ![hand[b]] = @ \/ (ok /\ shape[b][2] > 0)]
          /\ dangled' = (dangled \/ (ok /\ \E i \in 1..shape[b][1] :
                                               params[hand[b]][i] = "stale"))
          /\ step' = [step EXCEPT ![b] = IF ok THEN "executed" ELSE "failed"]
    BY <1>9 DEF Execute
  <2>2. PICK c \in Conns : c = hand[b]
    BY <1>9 DEF Execute, DBTypeOK, HandsInUse
  <2>3. cursor' \in [Conns -> BOOLEAN] /\ dangled' \in BOOLEAN
    BY <2>1, <2>2 DEF DBTypeOK
  <2>4. step' \in [Borrowers -> {"away", "refused", "holds", "binds", "executed", "fetched",
                                 "failed"}]
    BY <2>1 DEF DBTypeOK
  <2> QED
    BY <1>9, <2>3, <2>4 DEF Execute, binding, DBTypeOK
<1>10. ASSUME NEW b \in Borrowers, ExecutePlain(b) PROVE DBTypeOK'
  <2>1. PICK ok \in BOOLEAN : step' = [step EXCEPT ![b] = IF ok THEN "executed" ELSE "failed"]
    BY <1>10 DEF ExecutePlain
  <2>2. step' \in [Borrowers -> {"away", "refused", "holds", "binds", "executed", "fetched",
                                 "failed"}]
    BY <2>1 DEF DBTypeOK
  <2> QED
    BY <1>10, <2>2 DEF ExecutePlain, statement, binding, DBTypeOK
<1>11. ASSUME NEW b \in Borrowers, Fetch(b) PROVE DBTypeOK'
  <2>1. PICK row \in BOOLEAN :
          /\ dangled' = (dangled \/ (row /\ \E i \in DOMAIN cols[hand[b]] :
                                        i <= shape[b][2] /\ cols[hand[b]][i] = "stale"))
          /\ step' = [step EXCEPT ![b] = IF row THEN "executed" ELSE "fetched"]
    BY <1>11 DEF Fetch
  <2>2. dangled' \in BOOLEAN
    BY <2>1 DEF DBTypeOK
  <2>3. step' \in [Borrowers -> {"away", "refused", "holds", "binds", "executed", "fetched",
                                 "failed"}]
    BY <2>1 DEF DBTypeOK
  <2> QED
    BY <1>11, <2>2, <2>3 DEF Fetch, statement, binding, DBTypeOK
<1>12. CASE UNCHANGED dbVars
  BY <1>12 DEF dbVars, DBTypeOK
<1> QED
  BY <1>1, <1>2, <1>3, <1>4, <1>5, <1>6, <1>7, <1>8, <1>9, <1>10, <1>11, <1>12
  DEF DBNext, Borrow
\* The steps of a borrower at work on its connection.
AtWork(b) == \/ \E s \in Shapes : MakeBind(b, s)
             \/ \E i \in 1..shape[b][1] : BindParam(b, i)
             \/ \E i \in 1..shape[b][2] : BindCol(b, i)
             \/ Execute(b) \/ ExecutePlain(b) \/ Fetch(b)

LEMMA AtWorkKeeps ==
  ASSUME DBTypeOK, HandsInUse, NEW b \in Borrowers, AtWork(b)
  PROVE  /\ UNCHANGED <<pool, stage, hand>> /\ hand[b] \in Conns
         /\ step'[b] \notin {"away", "refused"}
         /\ \A d \in Borrowers : d # b => step'[d] = step[d]
<1>1. step[b] \notin {"away", "refused"}
  BY DEF AtWork, MakeBind, BindParam, BindCol, Execute, ExecutePlain, Fetch
<1>2. hand[b] \in Conns
  BY <1>1 DEF DBTypeOK, HandsInUse
<1>3. CASE \E s \in Shapes : MakeBind(b, s)
  BY <1>2, <1>3 DEF MakeBind, DBTypeOK
<1>4. CASE \E i \in 1..shape[b][1] : BindParam(b, i)
  BY <1>1, <1>2, <1>4 DEF BindParam
<1>5. CASE \E i \in 1..shape[b][2] : BindCol(b, i)
  BY <1>1, <1>2, <1>5 DEF BindCol
<1>6. ASSUME NEW s \in {"executed", "fetched", "failed"}, step' = [step EXCEPT ![b] = s]
      PROVE  /\ step'[b] \notin {"away", "refused"}
             /\ \A d \in Borrowers : d # b => step'[d] = step[d]
  BY <1>6 DEF DBTypeOK
<1>7. CASE Execute(b)
  BY <1>2, <1>6, <1>7 DEF Execute, binding
<1>8. CASE ExecutePlain(b)
  BY <1>2, <1>6, <1>8 DEF ExecutePlain
<1>9. CASE Fetch(b)
  BY <1>2, <1>6, <1>9 DEF Fetch
<1> QED
  BY <1>3, <1>4, <1>5, <1>7, <1>8, <1>9 DEF AtWork

LEMMA HandStep ==
  ASSUME DBTypeOK, ConnectionInOneHand, HandsInUse, [DBNext]_dbVars
  PROVE  ConnectionInOneHand' /\ HandsInUse'
<1> USE NoConnIsNone
<1>1. CASE Connect
  <2>1. PICK made \in SUBSET Conns : pool' = SetToSeq(made)
    BY <1>1 DEF Connect
  <2>2. PICK s \in Seq(Conns) : s = SetToSeq(made) /\ \A i, k \in 1..Len(s) : s[i] = s[k] => i = k
    BY MadeOnce
  <2>3. pool' = s
    BY <2>1, <2>2
  <2>4. \A b \in Borrowers : hand[b] = NoConn
    BY <1>1 DEF Connect, HandsInUse
  <2>5. hand' = hand /\ step' = step
    BY <1>1 DEF Connect
  <2>6. \A i \in 1..Len(s) : s[i] \in Conns
    BY <2>2
  <2> QED
    BY <2>2, <2>3, <2>4, <2>5, <2>6 DEF ConnectionInOneHand, HandsInUse
<1>2. CASE ClearPool
  <2>1. pool' = <<>> /\ Len(<<>>) = 0
    BY <1>2 DEF ClearPool
  <2>2. hand' = hand /\ step' = step /\ \A b \in Borrowers : hand[b] = NoConn
    BY <1>2 DEF ClearPool
  <2> QED
    BY <2>1, <2>2 DEF ConnectionInOneHand, HandsInUse
<1>3. ASSUME NEW b \in Borrowers, Pop(b) PROVE ConnectionInOneHand' /\ HandsInUse'
  <2>1. CASE pool = <<>>
    <3>1. UNCHANGED <<pool, hand, stage>> /\ step' = [step EXCEPT ![b] = "refused"]
          /\ step[b] = "away"
      BY <1>3, <2>1 DEF Pop
    <3> QED
      BY <3>1 DEF ConnectionInOneHand, HandsInUse, DBTypeOK
  <2>2. CASE pool # <<>>
    <3>1. /\ hand' = [hand EXCEPT ![b] = Last(pool)] /\ pool' = Front(pool)
          /\ step' = [step EXCEPT ![b] = "holds"] /\ stage' = stage
          /\ step[b] = "away" /\ stage = "open"
      BY <1>3, <2>2 DEF Pop
    <3>2. pool \in Seq(Conns)
      BY DEF DBTypeOK
    <3>3. PICK n \in Nat \ {0} : n = Len(pool)
      BY <2>2, <3>2, PoolFacts
    <3>4. Len(pool') = n - 1 /\ \A i \in 1..n - 1 : pool'[i] = pool[i]
      BY <2>2, <3>1, <3>2, <3>3, PoolFacts
    <3>5. /\ hand'[b] = pool[n] /\ pool[n] \in Conns
          /\ \A d \in Borrowers : d # b => hand'[d] = hand[d]
      BY <2>2, <3>1, <3>2, <3>3, PoolFacts DEF DBTypeOK
    <3>6. /\ \A i, k \in 1..n : pool[i] = pool[k] => i = k
          /\ \A d \in Borrowers : \A i \in 1..n : pool[i] # hand[d]
      BY <3>3 DEF ConnectionInOneHand
    <3>7. \A i \in 1..n - 1 : i \in 1..n /\ i # n
      OBVIOUS
    <3>8. \A i, k \in 1..Len(pool)' : pool'[i] = pool'[k] => i = k
      BY <3>4, <3>6, <3>7
    <3>9. \A d \in Borrowers : \A i \in 1..Len(pool)' : pool'[i] # hand'[d]
      BY <3>4, <3>5, <3>6, <3>7
    <3>10. \A d, e \in Borrowers : hand'[d] = hand'[e] /\ hand'[d] # NoConn => d = e
      BY <3>5, <3>6 DEF ConnectionInOneHand
    <3>11. ConnectionInOneHand'
      BY <3>8, <3>9, <3>10 DEF ConnectionInOneHand
    <3>12. HandsInUse'
      BY <3>1, <3>5 DEF HandsInUse, DBTypeOK
    <3> QED
      BY <3>11, <3>12
  <2> QED
    BY <2>1, <2>2
<1>4. ASSUME NEW b \in Borrowers, GiveUp(b) PROVE ConnectionInOneHand' /\ HandsInUse'
  BY <1>4 DEF GiveUp, ConnectionInOneHand, HandsInUse, DBTypeOK
<1>5. ASSUME NEW b \in Borrowers, Push(b) PROVE ConnectionInOneHand' /\ HandsInUse'
  <2>1. PICK c \in Conns : c = hand[b]
    BY <1>5 DEF Push, DBTypeOK
  <2>2. /\ hand' = [hand EXCEPT ![b] = NoConn] /\ pool' = Append(pool, c)
        /\ step' = [step EXCEPT ![b] = "away"] /\ stage' = stage
    BY <1>5, <2>1 DEF Push
  <2>3. pool \in Seq(Conns)
    BY DEF DBTypeOK
  <2>4. PICK n \in Nat : n = Len(pool)
    BY <2>3
  <2>5. Len(pool') = n + 1 /\ pool'[n + 1] = c /\ \A i \in 1..n : pool'[i] = pool[i]
    BY <2>2, <2>3, <2>4, PoolFacts
  <2>6. hand'[b] = NoConn /\ \A d \in Borrowers : d # b => hand'[d] = hand[d]
    BY <2>2 DEF DBTypeOK
  <2>7. /\ \A i, k \in 1..n : pool[i] = pool[k] => i = k
        /\ \A d \in Borrowers : \A i \in 1..n : pool[i] # hand[d]
    BY <2>4 DEF ConnectionInOneHand
  <2>8. \A i \in 1..n + 1 : i \in 1..n \/ i = n + 1
    OBVIOUS
  <2>9. \A i, k \in 1..Len(pool)' : pool'[i] = pool'[k] => i = k
    BY <2>1, <2>5, <2>7, <2>8
  <2>10. \A d \in Borrowers : \A i \in 1..Len(pool)' : pool'[i] # hand'[d]
    <3> SUFFICES ASSUME NEW d \in Borrowers, NEW i \in 1..n + 1 PROVE pool'[i] # hand'[d]
      BY <2>5
    <3>1. pool'[i] \in Conns
      BY <2>1, <2>3, <2>4, <2>5, <2>8
    <3>2. CASE d = b
      BY <2>6, <3>1, <3>2
    <3>3. CASE d # b /\ i = n + 1
      BY <2>1, <2>5, <2>6, <3>3 DEF ConnectionInOneHand
    <3>4. CASE d # b /\ i \in 1..n
      BY <2>5, <2>6, <2>7, <3>4
    <3> QED
      BY <2>8, <3>2, <3>3, <3>4
  <2>11. \A d, e \in Borrowers : hand'[d] = hand'[e] /\ hand'[d] # NoConn => d = e
    BY <2>6 DEF ConnectionInOneHand
  <2>12. ConnectionInOneHand'
    BY <2>9, <2>10, <2>11 DEF ConnectionInOneHand
  <2>13. HandsInUse'
    BY <2>2, <2>6 DEF HandsInUse, DBTypeOK
  <2> QED
    BY <2>12, <2>13
<1>6. ASSUME NEW b \in Borrowers, AtWork(b) PROVE ConnectionInOneHand' /\ HandsInUse'
  <2>1. /\ UNCHANGED <<pool, stage, hand>> /\ hand[b] \in Conns
        /\ step'[b] \notin {"away", "refused"}
        /\ \A d \in Borrowers : d # b => step'[d] = step[d]
    BY <1>6, AtWorkKeeps
  <2> QED
    BY <2>1 DEF ConnectionInOneHand, HandsInUse
<1>7. CASE UNCHANGED dbVars
  BY <1>7 DEF dbVars, ConnectionInOneHand, HandsInUse
<1> QED
  BY <1>1, <1>2, <1>3, <1>4, <1>5, <1>6, <1>7 DEF DBNext, Borrow, AtWork
\* What a borrower does to its own statement, the others do not see.
LEMMA OthersFresh ==
  ASSUME DBTypeOK, ConnectionInOneHand, HandsInUse, Fresh, NEW b \in Borrowers, NEW c \in Conns,
         hand[b] = c,
         \A e \in Conns : e # c => /\ cursor'[e] = cursor[e] /\ params'[e] = params[e]
                                   /\ cols'[e] = cols[e],
         \A d \in Borrowers : d # b => step'[d] = step[d] /\ hand'[d] = hand[d]
  PROVE  \A d \in Borrowers : d # b => FreshFor(d)'
<1> SUFFICES ASSUME NEW d \in Borrowers, d # b PROVE FreshFor(d)'
  OBVIOUS
<1>1. step'[d] = step[d] /\ hand'[d] = hand[d]
  OBVIOUS
<1>2. FreshFor(d)
  BY DEF Fresh
<1>3. CASE hand[d] = NoConn
  BY <1>1, <1>3 DEF HandsInUse, FreshFor
<1>4. CASE hand[d] # NoConn
  <2>1. PICK e \in Conns : e = hand[d]
    BY <1>4 DEF DBTypeOK
  <2>2. e # c
    BY <1>4, <2>1 DEF ConnectionInOneHand
  <2>3. cursor'[e] = cursor[e] /\ params'[e] = params[e] /\ cols'[e] = cols[e]
    BY <2>2
  <2> QED
    BY <1>1, <1>2, <2>1, <2>3 DEF FreshFor
<1> QED
  BY <1>3, <1>4

LEMMA FreshStep ==
  ASSUME DBTypeOK, ConnectionInOneHand, HandsInUse, Fresh, OwnBindings, [DBNext]_dbVars
  PROVE  Fresh' /\ OwnBindings'
<1> USE NoConnIsNone
<1>1. CASE Connect \/ ClearPool
  <2>1. \A b \in Borrowers : hand[b] = NoConn
    BY <1>1 DEF Connect, ClearPool, HandsInUse
  <2>2. \A b \in Borrowers : step'[b] \in {"away", "refused"}
    BY <1>1, <2>1 DEF Connect, ClearPool, HandsInUse
  <2>3. dangled' = dangled
    BY <1>1 DEF Connect, ClearPool
  <2> QED
    BY <2>2, <2>3 DEF Fresh, FreshFor, OwnBindings
<1>2. ASSUME NEW b \in Borrowers, Pop(b) \/ GiveUp(b) PROVE Fresh' /\ OwnBindings'
  <2>1. /\ step'[b] \in {"away", "refused", "holds"} /\ UNCHANGED <<cursor, params, cols, dangled>>
        /\ \A d \in Borrowers : d # b => step'[d] = step[d] /\ hand'[d] = hand[d]
    BY <1>2 DEF Pop, GiveUp, statement, DBTypeOK
  <2> QED
    BY <2>1 DEF Fresh, FreshFor, OwnBindings
<1>3. ASSUME NEW b \in Borrowers, NEW c \in Conns, hand[b] = c,
             Push(b) \/ \E s \in Shapes : MakeBind(b, s)
      PROVE  Fresh' /\ OwnBindings'
  <2>1. /\ \A d \in Borrowers : d # b => step'[d] = step[d] /\ hand'[d] = hand[d]
        /\ \A e \in Conns : e # c => /\ cursor'[e] = cursor[e] /\ params'[e] = params[e]
                                     /\ cols'[e] = cols[e]
        /\ dangled' = dangled
    BY <1>3 DEF Push, MakeBind, DBTypeOK
  <2>2. FreshFor(b)'
    <3>1. CASE Push(b)
      BY <3>1 DEF Push, DBTypeOK, FreshFor
    <3>2. CASE \E s \in Shapes : MakeBind(b, s)
      <4>1. step'[b] = "binds" /\ hand'[b] = c /\ params'[c] = Nothing /\ cols'[c] = Nothing
        BY <1>3, <3>2 DEF MakeBind, DBTypeOK
      <4> QED
        BY <4>1, BindingsKept DEF FreshFor
    <3> QED
      BY <1>3, <3>1, <3>2
  <2>3. \A d \in Borrowers : d # b => FreshFor(d)'
    BY <1>3, <2>1, OthersFresh
  <2> QED
    BY <2>1, <2>2, <2>3 DEF Fresh, OwnBindings
<1>4. ASSUME NEW b \in Borrowers, NEW c \in Conns, hand[b] = c,
             \/ \E i \in 1..shape[b][1] : BindParam(b, i)
             \/ \E i \in 1..shape[b][2] : BindCol(b, i)
      PROVE  Fresh' /\ OwnBindings'
  <2>1. shape[b][1] \in Nat /\ shape[b][2] \in Nat
    BY DEF DBTypeOK
  <2>2. PICK i \in Nat, ok \in BOOLEAN :
          /\ UNCHANGED <<cursor, hand, step, dangled>> /\ step[b] = "binds"
          /\ \/ params' = [params EXCEPT ![c] = Attempted(@, i, ok)] /\ cols' = cols
             \/ cols' = [cols EXCEPT ![c] = Attempted(@, i, ok)] /\ params' = params
    BY <1>4, <2>1 DEF BindParam, BindCol
  <2>3. \A e \in Conns : e # c => /\ cursor'[e] = cursor[e] /\ params'[e] = params[e]
                                  /\ cols'[e] = cols[e]
    BY <2>2 DEF DBTypeOK
  <2>4. OwnOnly(params[c]) /\ OwnOnly(cols[c])
    BY <1>4, <2>2 DEF Fresh, FreshFor
  <2>5. OwnOnly(Attempted(params[c], i, ok)) /\ OwnOnly(Attempted(cols[c], i, ok))
    <3>1. params[c] \in Bindings /\ cols[c] \in Bindings
      BY DEF DBTypeOK
    <3> QED
      BY <2>4, <3>1, BindingsKept
  <2>6. /\ params'[c] = Attempted(params[c], i, ok) \/ params'[c] = params[c]
        /\ cols'[c] = Attempted(cols[c], i, ok) \/ cols'[c] = cols[c]
    BY <2>2 DEF DBTypeOK
  <2>7. FreshFor(b)'
    BY <1>4, <2>2, <2>4, <2>5, <2>6 DEF FreshFor
  <2>8. \A d \in Borrowers : d # b => FreshFor(d)'
    BY <1>4, <2>2, <2>3, OthersFresh
  <2> QED
    BY <2>2, <2>7, <2>8 DEF Fresh, OwnBindings
<1>5. ASSUME NEW b \in Borrowers, NEW c \in Conns, hand[b] = c, Execute(b)
      PROVE  Fresh' /\ OwnBindings'
  <2>1. PICK ok \in BOOLEAN :
          /\ cursor' = [cursor EXCEPT ![c] = @ \/ (ok /\ shape[b][2] > 0)]
          /\ dangled' = (dangled \/ (ok /\ \E i \in 1..shape[b][1] : params[c][i] = "stale"))
          /\ step' = [step EXCEPT ![b] = IF ok THEN "executed" ELSE "failed"]
          /\ ok => CanExecute(c, shape[b][1])
    BY <1>5 DEF Execute
  <2>2. step[b] = "binds" /\ UNCHANGED <<params, cols, hand>>
    BY <1>5 DEF Execute
  <2>3. OwnOnly(params[c]) /\ OwnOnly(cols[c])
    BY <1>5, <2>2 DEF Fresh, FreshFor
  <2>4. ok => \A i \in 1..shape[b][1] : params[c][i] = "own"
    BY <2>1, <2>3 DEF CanExecute, OwnOnly
  <2>5. ~dangled'
    BY <2>1, <2>4 DEF OwnBindings
  <2>6. /\ \A e \in Conns : e # c => cursor'[e] = cursor[e]
        /\ \A d \in Borrowers : d # b => step'[d] = step[d]
        /\ step'[b] # "binds"
    BY <2>1 DEF DBTypeOK
  <2>7. FreshFor(b)'
    BY <1>5, <2>2, <2>3, <2>6 DEF FreshFor
  <2>8. \A d \in Borrowers : d # b => FreshFor(d)'
    BY <1>5, <2>2, <2>6, OthersFresh
  <2> QED
    BY <2>5, <2>7, <2>8 DEF Fresh, OwnBindings
<1>6. ASSUME NEW b \in Borrowers, NEW c \in Conns, hand[b] = c, ExecutePlain(b)
      PROVE  Fresh' /\ OwnBindings'
  <2>1. PICK ok \in BOOLEAN :
          /\ ok => CanExecute(c, 0)
          /\ step' = [step EXCEPT ![b] = IF ok THEN "executed" ELSE "failed"]
          /\ UNCHANGED <<cursor, params, cols, hand, dangled>>
    BY <1>6 DEF ExecutePlain, statement
  <2>2. /\ step'[b] = IF ok THEN "executed" ELSE "failed"
        /\ \A d \in Borrowers : d # b => step'[d] = step[d]
    BY <2>1 DEF DBTypeOK
  <2>3. FreshFor(b)'
    BY <1>6, <2>1, <2>2 DEF FreshFor, CanExecute
  <2> QED
    BY <2>1, <2>2, <2>3 DEF Fresh, FreshFor, OwnBindings
<1>7. ASSUME NEW b \in Borrowers, NEW c \in Conns, hand[b] = c, Fetch(b)
      PROVE  Fresh' /\ OwnBindings'
  <2>1. PICK row \in BOOLEAN :
          /\ dangled' = (dangled \/ (row /\ \E i \in DOMAIN cols[c] :
                                        i <= shape[b][2] /\ cols[c][i] = "stale"))
          /\ step' = [step EXCEPT ![b] = IF row THEN "executed" ELSE "fetched"]
          /\ UNCHANGED <<cursor, params, cols, hand>>
          /\ step[b] = "executed" /\ cursor[c]
    BY <1>7 DEF Fetch, statement
  <2>2. OwnOnly(cols[c])
    BY <1>7, <2>1 DEF Fresh, FreshFor
  <2>3. ~dangled'
    BY <2>1, <2>2 DEF OwnOnly, OwnBindings
  <2>4. step'[b] # "binds" /\ \A d \in Borrowers : d # b => step'[d] = step[d]
    BY <2>1 DEF DBTypeOK
  <2>5. FreshFor(b)'
    BY <1>7, <2>1, <2>2, <2>4 DEF FreshFor
  <2> QED
    BY <2>1, <2>3, <2>4, <2>5 DEF Fresh, FreshFor, OwnBindings
<1>8. CASE UNCHANGED dbVars
  BY <1>8 DEF dbVars, Fresh, FreshFor, OwnBindings
<1>9. ASSUME NEW b \in Borrowers, AtWork(b) PROVE hand[b] \in Conns
  BY <1>9, AtWorkKeeps
<1>10. ASSUME NEW b \in Borrowers, Push(b) PROVE hand[b] \in Conns
  BY <1>10 DEF Push, DBTypeOK
<1> QED
  BY <1>1, <1>2, <1>3, <1>4, <1>5, <1>6, <1>7, <1>8, <1>9, <1>10 DEF DBNext, Borrow, AtWork

LEMMA DBInvAlways == DBSpec => []DBInv
<1>1. DBInit => DBInv
  <2> SUFFICES ASSUME DBInit PROVE DBInv
    OBVIOUS
  <2>1. pool = <<>> /\ Len(<<>>) = 0 /\ <<>> \in Seq(Conns)
    BY DEF DBInit
  <2>2. DBTypeOK
    BY <2>1, BindingsKept DEF DBInit, DBTypeOK
  <2>3. \A b \in Borrowers : hand[b] = NoConn /\ step[b] = "away"
    BY DEF DBInit
  <2>4. ConnectionInOneHand /\ HandsInUse /\ Fresh /\ OwnBindings
    BY <2>1, <2>3 DEF DBInit, ConnectionInOneHand, HandsInUse, Fresh, FreshFor, OwnBindings
  <2> QED
    BY <2>2, <2>4 DEF DBInv
<1>2. DBInv /\ [DBNext]_dbVars => DBInv'
  BY DBTypeStep, HandStep, FreshStep DEF DBInv
<1> QED
  BY <1>1, <1>2, PTL DEF DBSpec

(* A connection is in the pool once or in one borrower's hands, however     *)
(* many borrowers there are and whenever the pool is cleared and filled     *)
(* anew (DBConnectionPool::Connect, Pop, Push, Clear).                      *)
THEOREM ConnectionInOneHandHolds == DBSpec => []ConnectionInOneHand
<1>1. DBInv => ConnectionInOneHand
  BY DEF DBInv
<1> QED
  BY <1>1, DBInvAlways, PTL

(* No query reads or writes through an address that an earlier borrower     *)
(* left in the statement (DBBind::DBBind, DBConnection::Unbind).            *)
THEOREM OwnBindingsHolds == DBSpec => []OwnBindings
<1>1. DBInv => OwnBindings
  BY DEF DBInv
<1> QED
  BY <1>1, DBInvAlways, PTL

-----------------------------------------------------------------------------
(***************************************************************************)
(* DeadLockProfiler: the order of any two guards is in the history, and    *)
(* threads that wait for each other have left a cycle there                *)
(* (OrderIsRecorded, DeadlockLeavesCycle), whatever CheckCycle finds.      *)
(*                                                                         *)
(* A stack is itself a path of recorded orders.  Each of the threads that  *)
(* wait for each other wants a lock that is below the one the next of them *)
(* wants on that thread's stack; so one goes up and up among finitely many *)
(* ids, which only a cycle allows.                                         *)
(***************************************************************************)

\* No two ids have one name.
NamesDiffer == \A i, j \in Ids : names[i] = names[j] => i = j

\* A thread's stack has the ids of its guards, without the one it lets go.
StacksMatch ==
  \A t \in LockThreads :
    /\ pc[t] \in {"lock", "unlock"} => guards[t] # <<>>
    /\ Len(stacks[t]) = IF pc[t] = "unlock" THEN Len(guards[t]) - 1 ELSE Len(guards[t])
    /\ \A k \in 1..Len(stacks[t]) : names[stacks[t][k]] = NameOf[guards[t][k]]

\* Each id on a stack was recorded after the one before it, unless it is the same.
NeighboursRecorded ==
  \A t \in LockThreads : \A k \in 1..Len(stacks[t]) - 1 :
    stacks[t][k + 1] \in lockHistory[stacks[t][k]] \cup {stacks[t][k]}

\* Whoever has a lock is in a guard of it.
OwnersHold ==
  \A l \in Locks, t \in LockThreads :
    owner[l] = t => \E k \in 1..Len(guards[t]) : guards[t][k] = l

\* The two checks of PopLock find nothing.
UnlocksMatch == crash \in {"none", "DEADLOCK_DETECTED"}

ProfilerInv == /\ ProfilerTypeOK /\ NamesDiffer /\ StacksMatch /\ NeighboursRecorded
               /\ OwnersHold /\ UnlocksMatch

-----------------------------------------------------------------------------
(* The end of a sequence. *)

LEMMA EndFacts ==
  ASSUME NEW A, NEW s \in Seq(A)
  PROVE  /\ Len(s) \in Nat /\ \A i \in 1..Len(s) : s[i] \in A
         /\ s # <<>> => /\ Front(s) \in Seq(A) /\ Len(Front(s)) = Len(s) - 1
                        /\ Last(s) = s[Len(s)] /\ Len(s) \in Nat \ {0}
                        /\ \A i \in 1..Len(s) - 1 : Front(s)[i] = s[i]
         /\ \A a \in A : /\ Append(s, a) \in Seq(A) /\ Len(Append(s, a)) = Len(s) + 1
                         /\ Append(s, a)[Len(s) + 1] = a
                         /\ \A i \in 1..Len(s) : Append(s, a)[i] = s[i]
<1>1. PICK n \in Nat : n = Len(s)
  OBVIOUS
<1>2. \A i \in 1..n : s[i] \in A
  BY <1>1
<1>3. ASSUME s # <<>>
      PROVE  /\ Front(s) \in Seq(A) /\ Len(Front(s)) = n - 1
             /\ Last(s) = s[n] /\ n \in Nat \ {0}
             /\ \A i \in 1..n - 1 : Front(s)[i] = s[i]
  <2>1. n > 0
    BY <1>1, <1>3
  <2>2. Front(s) = SubSeq(s, 1, n - 1) /\ Last(s) = s[n]
    BY <1>1 DEF Front, Last
  <2>3. /\ SubSeq(s, 1, n - 1) \in Seq(A) /\ Len(SubSeq(s, 1, n - 1)) = n - 1
        /\ \A i \in 1..n - 1 : SubSeq(s, 1, n - 1)[i] = s[i]
    BY <1>1, <1>2, <2>1
  <2> QED
    BY <2>1, <2>2, <2>3
<1>4. ASSUME NEW a \in A
      PROVE  /\ Append(s, a) \in Seq(A) /\ Len(Append(s, a)) = n + 1
             /\ Append(s, a)[n + 1] = a
             /\ \A i \in 1..n : Append(s, a)[i] = s[i]
  BY <1>1
<1> QED
  BY <1>1, <1>2, <1>3, <1>4

LEMMA NamesFacts ==
  ASSUME ProfilerTypeOK
  PROVE  /\ Len(names) \in Nat
         /\ \A i \in Ids : names[i] \in {NameOf[l] : l \in Locks} /\ lockHistory[i] \subseteq Ids
         /\ \A t \in LockThreads :
              /\ stacks[t] \in Seq(Ids) /\ guards[t] \in Seq(Locks)
              /\ Len(stacks[t]) \in Nat /\ Len(guards[t]) \in Nat
              /\ \A k \in 1..Len(stacks[t]) : stacks[t][k] \in Ids
              /\ \A k \in 1..Len(guards[t]) : guards[t][k] \in Locks
<1>1. names \in Seq({NameOf[l] : l \in Locks}) /\ lockHistory \in [Ids -> SUBSET Ids]
  BY DEF ProfilerTypeOK
<1>2. Len(names) \in Nat /\ \A i \in Ids : names[i] \in {NameOf[l] : l \in Locks}
  BY <1>1, EndFacts DEF Ids
<1>3. ASSUME NEW t \in LockThreads PROVE stacks[t] \in Seq(Ids) /\ guards[t] \in Seq(Locks)
  BY DEF ProfilerTypeOK
<1> QED
  BY <1>1, <1>2, <1>3, EndFacts

LEMMA TopFacts ==
  ASSUME ProfilerTypeOK, NEW t \in LockThreads
  PROVE  /\ stacks[t] # <<>> =>
              /\ Last(stacks[t]) = stacks[t][Len(stacks[t])] /\ Len(stacks[t]) \in Nat \ {0}
              /\ Last(stacks[t]) \in Ids
              /\ Front(stacks[t]) \in Seq(Ids) /\ Len(Front(stacks[t])) = Len(stacks[t]) - 1
              /\ \A k \in 1..Len(stacks[t]) - 1 : Front(stacks[t])[k] = stacks[t][k]
         /\ guards[t] # <<>> =>
              /\ Last(guards[t]) = guards[t][Len(guards[t])] /\ Len(guards[t]) \in Nat \ {0}
              /\ Last(guards[t]) \in Locks
              /\ Front(guards[t]) \in Seq(Locks) /\ Len(Front(guards[t])) = Len(guards[t]) - 1
              /\ \A k \in 1..Len(guards[t]) - 1 : Front(guards[t])[k] = guards[t][k]
<1>1. stacks[t] \in Seq(Ids) /\ guards[t] \in Seq(Locks)
  BY NamesFacts
<1>2. ASSUME stacks[t] # <<>>
      PROVE  /\ Last(stacks[t]) = stacks[t][Len(stacks[t])] /\ Len(stacks[t]) \in Nat \ {0}
             /\ Front(stacks[t]) \in Seq(Ids) /\ Len(Front(stacks[t])) = Len(stacks[t]) - 1
             /\ \A k \in 1..Len(stacks[t]) - 1 : Front(stacks[t])[k] = stacks[t][k]
  BY <1>1, <1>2, EndFacts
<1>3. ASSUME guards[t] # <<>>
      PROVE  /\ Last(guards[t]) = guards[t][Len(guards[t])] /\ Len(guards[t]) \in Nat \ {0}
             /\ Front(guards[t]) \in Seq(Locks) /\ Len(Front(guards[t])) = Len(guards[t]) - 1
             /\ \A k \in 1..Len(guards[t]) - 1 : Front(guards[t])[k] = guards[t][k]
  BY <1>1, <1>3, EndFacts
<1>4. \A k \in Nat \ {0} : k \in 1..k
  OBVIOUS
<1>5. stacks[t] # <<>> => Last(stacks[t]) \in Ids
  BY <1>2, <1>4, NamesFacts
<1>6. guards[t] # <<>> => Last(guards[t]) \in Locks
  BY <1>3, <1>4, NamesFacts
<1> QED
  BY <1>2, <1>3, <1>5, <1>6

\* What PushLock does to the names and the history.
LEMMA PushFacts ==
  ASSUME ProfilerTypeOK, NamesDiffer, NEW t \in LockThreads, NEW l \in Locks, PushLock(t, l)
  PROVE  /\ names' \in Seq({NameOf[m] : m \in Locks}) /\ lockHistory' \in [Ids' -> SUBSET Ids']
         /\ Ids \subseteq Ids' /\ \A i \in Ids : names'[i] = names[i]
         /\ NamesDiffer'
         /\ \A i \in Ids : lockHistory[i] \subseteq lockHistory'[i]
         /\ \E id \in Ids' :
              /\ names'[id] = NameOf[l]
              /\ stacks[t] # <<>> =>
                   id \in lockHistory'[stacks[t][Len(stacks[t])]] \cup {stacks[t][Len(stacks[t])]}
              /\ \/ UNCHANGED <<stacks, guards, pc>> /\ crash' = "DEADLOCK_DETECTED"
                 \/ /\ stacks' = [stacks EXCEPT ![t] = Append(@, id)]
                    /\ guards' = [guards EXCEPT ![t] = Append(@, l)]
                    /\ pc' = [pc EXCEPT ![t] = "lock"]
                    /\ crash' = crash
<1> DEFINE N == {NameOf[m] : m \in Locks}
           ns == EnterName(NameOf[l])
           id == IdIn(ns, NameOf[l])
           old == [i \in 1..Len(ns) |-> IF i \in Ids THEN lockHistory[i] ELSE {}]
           edge == Edge(stacks[t], id)
           new == Record(old, edge)
<1>1. names \in Seq(N) /\ lockHistory \in [Ids -> SUBSET Ids] /\ NameOf[l] \in N
  BY DEF ProfilerTypeOK
<1>2. /\ ns \in Seq(N) /\ Len(names) \in Nat /\ Len(ns) \in Nat /\ Len(ns) >= Len(names)
      /\ \A i \in Ids : ns[i] = names[i]
      /\ \A i, j \in 1..Len(ns) : ns[i] = ns[j] => i = j
      /\ \E i \in 1..Len(ns) : ns[i] = NameOf[l]
  <2>0. Len(names) \in Nat
    BY <1>1, EndFacts
  <2>1. CASE Known(NameOf[l])
    BY <1>1, <2>0, <2>1 DEF EnterName, Known, NamesDiffer, Ids
  <2>2. CASE ~Known(NameOf[l])
    <3>1. /\ ns = Append(names, NameOf[l]) /\ ns \in Seq(N) /\ Len(ns) = Len(names) + 1
          /\ ns[Len(names) + 1] = NameOf[l] /\ \A i \in 1..Len(names) : ns[i] = names[i]
      BY <1>1, <2>2, EndFacts DEF EnterName
    <3>2. \A i \in 1..Len(names) : ns[i] # NameOf[l]
      BY <2>2, <3>1 DEF Known, Ids
    <3>3. \A i \in 1..Len(ns) : i \in 1..Len(names) \/ i = Len(names) + 1
      BY <2>0, <3>1
    <3>4. \A i, j \in 1..Len(ns) : ns[i] = ns[j] => i = j
      BY <3>1, <3>2, <3>3 DEF NamesDiffer, Ids
    <3> QED
      BY <2>0, <3>1, <3>4 DEF Ids
  <2> QED
    BY <2>1, <2>2
<1>3. id \in 1..Len(ns) /\ ns[id] = NameOf[l]
  BY <1>2 DEF IdIn
<1>4. Ids \subseteq 1..Len(ns)
  BY <1>2 DEF Ids
<1>5. old \in [1..Len(ns) -> SUBSET (1..Len(ns))]
  BY <1>1, <1>4
<1>6. \A e \in edge : e[2] \in 1..Len(ns)
  BY <1>3 DEF Edge
<1>7. new \in [1..Len(ns) -> SUBSET (1..Len(ns))]
      /\ \A i \in 1..Len(ns) : old[i] \subseteq new[i]
  BY <1>5, <1>6 DEF Record
<1>8. ASSUME stacks[t] # <<>>
      PROVE  id \in new[stacks[t][Len(stacks[t])]] \cup {stacks[t][Len(stacks[t])]}
  <2>1. PICK top \in Ids : top = stacks[t][Len(stacks[t])] /\ Last(stacks[t]) = top
    BY <1>8, TopFacts
  <2>2. edge = {<<top, id>>}
    BY <1>8, <2>1 DEF Edge
  <2>3. top \in DOMAIN old
    BY <1>4, <2>1
  <2>4. new[top] = old[top] \cup {e[2] : e \in {e \in edge : e[1] = top /\ e[2] # top}}
    BY <2>3 DEF Record
  <2>5. id # top => <<top, id>> \in {e \in edge : e[1] = top /\ e[2] # top} /\ <<top, id>>[2] = id
    BY <2>2
  <2> QED
    BY <2>1, <2>4, <2>5
<1>9. /\ names' = ns /\ lockHistory' = new
      /\ \/ UNCHANGED <<stacks, guards, pc>> /\ crash' = "DEADLOCK_DETECTED"
         \/ /\ stacks' = [stacks EXCEPT ![t] = Append(@, id)]
            /\ guards' = [guards EXCEPT ![t] = Append(@, l)]
            /\ pc' = [pc EXCEPT ![t] = "lock"]
            /\ crash' = crash
  BY DEF PushLock
<1>10. Ids' = 1..Len(ns)
  BY <1>9 DEF Ids
<1>11. NamesDiffer'
  BY <1>2, <1>9, <1>10 DEF NamesDiffer
<1>12. \A i \in Ids : lockHistory[i] \subseteq lockHistory'[i]
  BY <1>4, <1>7, <1>9
<1> QED
  <2> HIDE DEF ns, id, old, edge, new
  <2> QED
    BY <1>2, <1>3, <1>4, <1>7, <1>8, <1>9, <1>10, <1>11, <1>12

LEMMA PushLockStep ==
  ASSUME ProfilerInv, NEW t \in LockThreads, NEW l \in Locks, PushLock(t, l)
  PROVE  ProfilerInv'
<1>0. /\ ProfilerTypeOK /\ NamesDiffer /\ StacksMatch /\ NeighboursRecorded
      /\ OwnersHold /\ UnlocksMatch
  BY DEF ProfilerInv
<1>1. PICK id \in Ids' :
        /\ names'[id] = NameOf[l]
        /\ stacks[t] # <<>> =>
             id \in lockHistory'[stacks[t][Len(stacks[t])]] \cup {stacks[t][Len(stacks[t])]}
        /\ \/ UNCHANGED <<stacks, guards, pc>> /\ crash' = "DEADLOCK_DETECTED"
           \/ /\ stacks' = [stacks EXCEPT ![t] = Append(@, id)]
              /\ guards' = [guards EXCEPT ![t] = Append(@, l)]
              /\ pc' = [pc EXCEPT ![t] = "lock"]
              /\ crash' = crash
  BY <1>0, PushFacts
<1>2. /\ names' \in Seq({NameOf[m] : m \in Locks}) /\ lockHistory' \in [Ids' -> SUBSET Ids']
      /\ Ids \subseteq Ids' /\ \A i \in Ids : names'[i] = names[i]
      /\ NamesDiffer'
      /\ \A i \in Ids : lockHistory[i] \subseteq lockHistory'[i]
  BY <1>0, PushFacts
<1>3. owner' = owner /\ pc[t] = "run"
  BY DEF PushLock
<1>4. /\ stacks \in [LockThreads -> Seq(Ids)] /\ guards \in [LockThreads -> Seq(Locks)]
      /\ pc \in [LockThreads -> {"run", "lock", "unlock"}]
      /\ owner \in [Locks -> LockThreads \cup {NoThread}]
  BY <1>0 DEF ProfilerTypeOK
<1>5. \A u \in LockThreads : stacks[u] \in Seq(Ids')
  BY <1>2, <1>4
<1>6. \A u \in LockThreads :
        /\ Len(stacks[u]) \in Nat /\ Len(guards[u]) \in Nat
        /\ \A k \in 1..Len(stacks[u]) : stacks[u][k] \in Ids
  BY <1>0, NamesFacts
<1>7. UnlocksMatch'
  BY <1>0, <1>1 DEF UnlocksMatch
<1>8. CASE UNCHANGED <<stacks, guards, pc>> /\ crash' = "DEADLOCK_DETECTED"
  <2>1. ProfilerTypeOK'
    <3>1. stacks' \in [LockThreads -> Seq(Ids')]
      BY <1>4, <1>5, <1>8
    <3> QED
      BY <1>2, <1>3, <1>4, <1>8, <3>1 DEF ProfilerTypeOK
  <2>2. StacksMatch'
    BY <1>0, <1>2, <1>6, <1>8 DEF StacksMatch
  <2>3. NeighboursRecorded'
    <3> SUFFICES ASSUME NEW u \in LockThreads, NEW k \in 1..Len(stacks[u]) - 1
                 PROVE  stacks[u][k + 1] \in lockHistory'[stacks[u][k]] \cup {stacks[u][k]}
      BY <1>8 DEF NeighboursRecorded
    <3>1. stacks[u][k] \in Ids
      BY <1>6
    <3> QED
      BY <1>0, <1>2, <3>1 DEF NeighboursRecorded
  <2>4. OwnersHold'
    BY <1>0, <1>3, <1>8 DEF OwnersHold
  <2> QED
    BY <1>2, <1>7, <2>1, <2>2, <2>3, <2>4 DEF ProfilerInv
<1>9. CASE /\ stacks' = [stacks EXCEPT ![t] = Append(@, id)]
           /\ guards' = [guards EXCEPT ![t] = Append(@, l)]
           /\ pc' = [pc EXCEPT ![t] = "lock"]
           /\ crash' = crash
  <2>1. /\ \A u \in LockThreads \ {t} : stacks'[u] = stacks[u] /\ guards'[u] = guards[u] /\ pc'[u] = pc[u]
        /\ stacks'[t] = Append(stacks[t], id) /\ guards'[t] = Append(guards[t], l)
        /\ pc'[t] = "lock"
    BY <1>4, <1>9
  <2>2. /\ Append(stacks[t], id) \in Seq(Ids') /\ Len(Append(stacks[t], id)) = Len(stacks[t]) + 1
        /\ Append(stacks[t], id)[Len(stacks[t]) + 1] = id
        /\ \A k \in 1..Len(stacks[t]) : Append(stacks[t], id)[k] = stacks[t][k]
    BY <1>5, EndFacts
  <2>3. /\ Append(guards[t], l) \in Seq(Locks) /\ Len(Append(guards[t], l)) = Len(guards[t]) + 1
        /\ Append(guards[t], l)[Len(guards[t]) + 1] = l
        /\ \A k \in 1..Len(guards[t]) : Append(guards[t], l)[k] = guards[t][k]
    BY <1>4, EndFacts
  <2>4. Len(stacks[t]) = Len(guards[t])
    BY <1>0, <1>3 DEF StacksMatch
  <2>5. ProfilerTypeOK'
    <3>1. stacks' \in [LockThreads -> Seq(Ids')]
      BY <1>4, <1>5, <1>9, <2>2
    <3>2. guards' \in [LockThreads -> Seq(Locks)]
      BY <1>4, <1>9, <2>3
    <3>3. pc' \in [LockThreads -> {"run", "lock", "unlock"}]
      BY <1>4, <1>9
    <3>4. crash' \in {"none", "MULTIPLE_UNLOCK", "INVALID_UNLOCK", "DEADLOCK_DETECTED"}
      BY <1>0, <1>9 DEF ProfilerTypeOK
    <3> QED
      BY <1>2, <1>3, <1>4, <3>1, <3>2, <3>3, <3>4 DEF ProfilerTypeOK
  <2>6. StacksMatch'
    <3>1. ASSUME NEW u \in LockThreads \ {t}
          PROVE  /\ pc'[u] \in {"lock", "unlock"} => guards'[u] # <<>>
                 /\ Len(stacks'[u]) = IF pc'[u] = "unlock" THEN Len(guards'[u]) - 1 ELSE Len(guards'[u])
                 /\ \A k \in 1..Len(stacks'[u]) : names'[stacks'[u][k]] = NameOf[guards'[u][k]]
      <4>1. stacks'[u] = stacks[u] /\ guards'[u] = guards[u] /\ pc'[u] = pc[u]
        BY <2>1
      <4>2. \A k \in 1..Len(stacks[u]) : names'[stacks[u][k]] = NameOf[guards[u][k]]
        BY <1>0, <1>2, <1>6 DEF StacksMatch
      <4> QED
        BY <1>0, <4>1, <4>2 DEF StacksMatch
    <3>2. guards'[t] # <<>> /\ Len(stacks'[t]) = Len(guards'[t]) /\ pc'[t] # "unlock"
      <4>1. Len(guards'[t]) = Len(guards[t]) + 1 /\ Len(stacks'[t]) = Len(stacks[t]) + 1
        BY <2>1, <2>2, <2>3
      <4>2. Len(guards'[t]) # 0
        BY <1>6, <4>1
      <4>3. guards'[t] # <<>>
        BY <4>2
      <4> QED
        BY <2>1, <2>4, <4>1, <4>3
    <3>3. ASSUME NEW k \in 1..Len(stacks'[t])
          PROVE  names'[stacks'[t][k]] = NameOf[guards'[t][k]]
      <4>1. CASE k \in 1..Len(stacks[t])
        <5>1. stacks'[t][k] = stacks[t][k] /\ guards'[t][k] = guards[t][k] /\ stacks[t][k] \in Ids
          BY <1>6, <2>1, <2>2, <2>3, <2>4, <4>1
        <5> QED
          BY <1>0, <1>2, <4>1, <5>1 DEF StacksMatch
      <4>2. CASE k = Len(stacks[t]) + 1
        <5>1. stacks'[t][k] = id /\ guards'[t][k] = l
          BY <2>1, <2>2, <2>3, <2>4, <4>2
        <5> QED
          BY <1>1, <5>1
      <4> QED
        <5>1. k \in 1..Len(stacks[t]) + 1
          BY <2>1, <2>2, <3>3
        <5>2. k \in 1..Len(stacks[t]) \/ k = Len(stacks[t]) + 1
          BY <1>6, <5>1
        <5> QED
          BY <4>1, <4>2, <5>2
    <3> QED
      BY <3>1, <3>2, <3>3 DEF StacksMatch
  <2>7. NeighboursRecorded'
    <3>1. ASSUME NEW u \in LockThreads, NEW k \in 1..Len(stacks[u]) - 1
          PROVE  stacks[u][k + 1] \in lockHistory'[stacks[u][k]] \cup {stacks[u][k]}
      <4>1. stacks[u][k] \in Ids
        BY <1>6
      <4> QED
        BY <1>0, <1>2, <4>1 DEF NeighboursRecorded
    <3>2. ASSUME NEW k \in 1..Len(stacks'[t]) - 1
          PROVE  stacks'[t][k + 1] \in lockHistory'[stacks'[t][k]] \cup {stacks'[t][k]}
      <4>1. PICK n \in Nat : n = Len(stacks[t]) /\ Len(stacks'[t]) = n + 1
        BY <1>6, <2>1, <2>2
      <4>2. k \in 1..n /\ (k \in 1..n - 1 \/ k = n) /\ (k # n => k + 1 \in 1..n)
        BY <4>1
      <4>3. stacks'[t][k] = stacks[t][k]
        BY <2>1, <2>2, <4>1, <4>2
      <4>4. CASE k = n
        <5>1. stacks'[t][k + 1] = id /\ stacks[t] # <<>>
          BY <2>1, <2>2, <4>1, <4>2, <4>4
        <5> QED
          BY <1>1, <4>1, <4>3, <4>4, <5>1
      <4>5. CASE k # n
        <5>1. stacks'[t][k + 1] = stacks[t][k + 1]
          BY <2>1, <2>2, <4>1, <4>2, <4>5
        <5> QED
          BY <3>1, <4>1, <4>2, <4>3, <4>5, <5>1
      <4> QED
        BY <4>4, <4>5
    <3>3. ASSUME NEW u \in LockThreads, NEW k \in 1..Len(stacks'[u]) - 1
          PROVE  stacks'[u][k + 1] \in lockHistory'[stacks'[u][k]] \cup {stacks'[u][k]}
      BY <2>1, <3>1, <3>2, <3>3
    <3> QED
      BY <3>3 DEF NeighboursRecorded
  <2>8. OwnersHold'
    <3> SUFFICES ASSUME NEW m \in Locks, NEW u \in LockThreads, owner[m] = u
                 PROVE  \E k \in 1..Len(guards'[u]) : guards'[u][k] = m
      BY <1>3 DEF OwnersHold
    <3>1. PICK k \in 1..Len(guards[u]) : guards[u][k] = m
      BY <1>0 DEF OwnersHold
    <3>2. k \in 1..Len(guards'[u]) /\ guards'[u][k] = guards[u][k]
      <4>1. CASE u = t
        <5>1. k \in 1..Len(guards[t]) + 1
          BY <1>6, <4>1
        <5> QED
          BY <2>1, <2>3, <4>1, <5>1
      <4>2. CASE u # t
        BY <2>1, <4>2
      <4> QED
        BY <4>1, <4>2
    <3> QED
      BY <3>1, <3>2
  <2> QED
    BY <1>2, <1>7, <2>5, <2>6, <2>7, <2>8 DEF ProfilerInv
<1> QED
  BY <1>1, <1>8, <1>9

LEMMA WriteLockStep ==
  ASSUME ProfilerInv, NEW t \in LockThreads, WriteLock(t)
  PROVE  ProfilerInv'
<1>0. /\ ProfilerTypeOK /\ NamesDiffer /\ StacksMatch /\ NeighboursRecorded
      /\ OwnersHold /\ UnlocksMatch
  BY DEF ProfilerInv
<1>1. guards[t] # <<>> /\ pc[t] = "lock"
  BY <1>0 DEF WriteLock, StacksMatch
<1>2. PICK l \in Locks : l = Last(guards[t]) /\ l = guards[t][Len(guards[t])]
                         /\ Len(guards[t]) \in 1..Len(guards[t])
  <2>1. \A k \in Nat \ {0} : k \in 1..k
    OBVIOUS
  <2> QED
    BY <1>0, <1>1, <2>1, TopFacts
<1>3. /\ owner' = [owner EXCEPT ![l] = t] /\ pc' = [pc EXCEPT ![t] = "run"]
      /\ UNCHANGED <<names, lockHistory, stacks, guards, crash>>
  BY <1>2 DEF WriteLock, profiler
<1>4. Ids' = Ids
  BY <1>3 DEF Ids
<1>5. owner \in [Locks -> LockThreads \cup {NoThread}]
      /\ pc \in [LockThreads -> {"run", "lock", "unlock"}]
  BY <1>0 DEF ProfilerTypeOK
<1>6. ProfilerTypeOK'
  BY <1>0, <1>3, <1>4 DEF ProfilerTypeOK
<1>7. NamesDiffer' /\ NeighboursRecorded' /\ UnlocksMatch'
  BY <1>0, <1>3, <1>4 DEF NamesDiffer, NeighboursRecorded, UnlocksMatch
<1>8. StacksMatch'
  <2>1. pc'[t] = "run" /\ \A u \in LockThreads \ {t} : pc'[u] = pc[u]
    BY <1>3, <1>5
  <2> QED
    BY <1>0, <1>1, <1>3, <2>1 DEF StacksMatch
<1>9. OwnersHold'
  <2>1. owner'[l] = t /\ \A m \in Locks \ {l} : owner'[m] = owner[m]
    BY <1>3, <1>5
  <2> QED
    BY <1>0, <1>2, <1>3, <2>1 DEF OwnersHold
<1> QED
  BY <1>6, <1>7, <1>8, <1>9 DEF ProfilerInv

LEMMA PopLockStep ==
  ASSUME ProfilerInv, NEW t \in LockThreads, PopLock(t)
  PROVE  ProfilerInv'
<1>0. /\ ProfilerTypeOK /\ NamesDiffer /\ StacksMatch /\ NeighboursRecorded
      /\ OwnersHold /\ UnlocksMatch
  BY DEF ProfilerInv
<1>1. pc[t] = "run" /\ guards[t] # <<>> /\ crash = "none"
  BY DEF PopLock
<1>2. PICK n \in Nat \ {0} : n = Len(guards[t]) /\ n = Len(stacks[t])
  BY <1>0, <1>1, TopFacts DEF StacksMatch
<1>3. stacks[t] # <<>>
  BY <1>2
<1>4. /\ Last(stacks[t]) = stacks[t][n] /\ Last(guards[t]) = guards[t][n]
      /\ Last(stacks[t]) \in Ids
      /\ Front(stacks[t]) \in Seq(Ids) /\ Len(Front(stacks[t])) = n - 1
      /\ \A k \in 1..n - 1 : Front(stacks[t])[k] = stacks[t][k]
  BY <1>0, <1>1, <1>2, <1>3, TopFacts
<1>5. PopFault(stacks[t], Last(guards[t])) = "none"
  <2>1. names[Last(stacks[t])] = NameOf[Last(guards[t])]
    <3>1. n \in 1..n
      OBVIOUS
    <3> QED
      BY <1>0, <1>2, <1>4, <3>1 DEF StacksMatch
  <2>2. IdIn(names, NameOf[Last(guards[t])]) = Last(stacks[t])
    BY <1>0, <1>4, <2>1 DEF IdIn, NamesDiffer, Ids
  <2> QED
    BY <1>3, <2>2 DEF PopFault
<1>6. /\ crash' = "none" /\ stacks' = [stacks EXCEPT ![t] = Front(@)]
      /\ pc' = [pc EXCEPT ![t] = "unlock"]
      /\ UNCHANGED <<names, lockHistory, guards, owner>>
  BY <1>5 DEF PopLock, profiler
<1>7. Ids' = Ids
  BY <1>6 DEF Ids
<1>8. stacks \in [LockThreads -> Seq(Ids)] /\ pc \in [LockThreads -> {"run", "lock", "unlock"}]
  BY <1>0 DEF ProfilerTypeOK
<1>9. /\ \A u \in LockThreads \ {t} : stacks'[u] = stacks[u] /\ pc'[u] = pc[u]
      /\ stacks'[t] = Front(stacks[t]) /\ pc'[t] = "unlock"
  BY <1>6, <1>8
<1>10. ProfilerTypeOK'
  <2>1. stacks' \in [LockThreads -> Seq(Ids)]
    BY <1>4, <1>6, <1>8
  <2> QED
    BY <1>0, <1>6, <1>7, <1>8, <2>1 DEF ProfilerTypeOK
<1>11. NamesDiffer' /\ OwnersHold' /\ UnlocksMatch'
  BY <1>0, <1>6, <1>7 DEF NamesDiffer, OwnersHold, UnlocksMatch
<1>12. \A k \in 1..n - 1 : k \in 1..n /\ stacks'[t][k] = stacks[t][k]
  BY <1>4, <1>9
<1>13. StacksMatch'
  <2>1. ASSUME NEW u \in LockThreads \ {t}
        PROVE  /\ pc'[u] \in {"lock", "unlock"} => guards[u] # <<>>
               /\ Len(stacks'[u]) = IF pc'[u] = "unlock" THEN Len(guards[u]) - 1 ELSE Len(guards[u])
               /\ \A k \in 1..Len(stacks'[u]) : names[stacks'[u][k]] = NameOf[guards[u][k]]
    BY <1>0, <1>9 DEF StacksMatch
  <2>2. Len(stacks'[t]) = n - 1 /\ \A k \in 1..n - 1 : names[stacks'[t][k]] = NameOf[guards[t][k]]
    BY <1>0, <1>2, <1>4, <1>9, <1>12 DEF StacksMatch
  <2> QED
    <3>1. /\ Len(stacks'[t]) = Len(guards[t]) - 1
          /\ \A k \in 1..Len(stacks'[t]) : names[stacks'[t][k]] = NameOf[guards[t][k]]
      BY <1>2, <2>2
    <3> QED
      BY <1>1, <1>6, <1>9, <2>1, <3>1 DEF StacksMatch
<1>14. NeighboursRecorded'
  <2>1. ASSUME NEW k \in 1..Len(stacks'[t]) - 1
        PROVE  stacks'[t][k + 1] \in lockHistory[stacks'[t][k]] \cup {stacks'[t][k]}
    <3>1. k \in 1..n - 1 /\ k + 1 \in 1..n - 1
      BY <1>4, <1>9
    <3>2. stacks'[t][k] = stacks[t][k] /\ stacks'[t][k + 1] = stacks[t][k + 1]
      BY <1>12, <3>1
    <3> QED
      BY <1>0, <1>2, <3>1, <3>2 DEF NeighboursRecorded
  <2> QED
    BY <1>0, <1>6, <1>9, <2>1 DEF NeighboursRecorded
<1> QED
  BY <1>10, <1>11, <1>13, <1>14 DEF ProfilerInv

LEMMA WriteUnlockStep ==
  ASSUME ProfilerInv, NEW t \in LockThreads, WriteUnlock(t)
  PROVE  ProfilerInv'
<1>0. /\ ProfilerTypeOK /\ NamesDiffer /\ StacksMatch /\ NeighboursRecorded
      /\ OwnersHold /\ UnlocksMatch
  BY DEF ProfilerInv
<1>1. pc[t] = "unlock" /\ guards[t] # <<>>
  BY <1>0 DEF WriteUnlock, StacksMatch
<1>2. PICK n \in Nat \ {0} : n = Len(guards[t])
  BY <1>0, <1>1, TopFacts
<1>3. PICK rest : rest = Front(guards[t])
  OBVIOUS
<1>4. /\ rest \in Seq(Locks) /\ Len(rest) = n - 1
      /\ \A k \in 1..n - 1 : rest[k] = guards[t][k]
      /\ Last(guards[t]) = guards[t][n] /\ Last(guards[t]) \in Locks
  BY <1>0, <1>1, <1>2, <1>3, TopFacts
<1>5. /\ owner' = IF Last(guards[t]) \in ToSet(rest)
                    THEN owner ELSE [owner EXCEPT ![Last(guards[t])] = NoThread]
      /\ guards' = [guards EXCEPT ![t] = rest] /\ pc' = [pc EXCEPT ![t] = "run"]
      /\ UNCHANGED <<names, lockHistory, stacks, crash>>
  BY <1>3 DEF WriteUnlock, profiler
<1>6. Ids' = Ids
  BY <1>5 DEF Ids
<1>7. /\ guards \in [LockThreads -> Seq(Locks)] /\ pc \in [LockThreads -> {"run", "lock", "unlock"}]
      /\ owner \in [Locks -> LockThreads \cup {NoThread}]
  BY <1>0 DEF ProfilerTypeOK
<1>8. /\ \A u \in LockThreads \ {t} : guards'[u] = guards[u] /\ pc'[u] = pc[u]
      /\ guards'[t] = rest /\ pc'[t] = "run"
  BY <1>5, <1>7
<1>9. ProfilerTypeOK'
  <2>1. guards' \in [LockThreads -> Seq(Locks)]
    BY <1>4, <1>5, <1>7
  <2>2. owner' \in [Locks -> LockThreads \cup {NoThread}]
    BY <1>4, <1>5, <1>7
  <2> QED
    BY <1>0, <1>5, <1>6, <1>7, <2>1, <2>2 DEF ProfilerTypeOK
<1>10. NamesDiffer' /\ NeighboursRecorded' /\ UnlocksMatch'
  BY <1>0, <1>5, <1>6 DEF NamesDiffer, NeighboursRecorded, UnlocksMatch
<1>11. StacksMatch'
  <2>1. Len(stacks[t]) = n - 1 /\ \A k \in 1..n - 1 : names[stacks[t][k]] = NameOf[guards[t][k]]
    BY <1>0, <1>1, <1>2 DEF StacksMatch
  <2>2. \A k \in 1..n - 1 : names[stacks[t][k]] = NameOf[rest[k]]
    BY <1>4, <2>1
  <2> QED
    <3>1. ASSUME NEW u \in LockThreads \ {t}
          PROVE  /\ pc'[u] \in {"lock", "unlock"} => guards'[u] # <<>>
                 /\ Len(stacks[u]) = IF pc'[u] = "unlock" THEN Len(guards'[u]) - 1 ELSE Len(guards'[u])
                 /\ \A k \in 1..Len(stacks[u]) : names[stacks[u][k]] = NameOf[guards'[u][k]]
      BY <1>0, <1>8 DEF StacksMatch
    <3>2. /\ pc'[t] = "run" /\ Len(stacks[t]) = Len(guards'[t])
          /\ \A k \in 1..Len(stacks[t]) : names[stacks[t][k]] = NameOf[guards'[t][k]]
      BY <1>4, <1>8, <2>1, <2>2
    <3> QED
      BY <1>5, <3>1, <3>2 DEF StacksMatch
<1>12. OwnersHold'
  <2> SUFFICES ASSUME NEW l \in Locks, NEW u \in LockThreads, owner'[l] = u
               PROVE  \E k \in 1..Len(guards'[u]) : guards'[u][k] = l
    BY DEF OwnersHold
  <2>1. owner[l] = u /\ (l = Last(guards[t]) => l \in ToSet(rest))
    BY <1>4, <1>5, <1>7, NoThreadIsNone
  <2>2. PICK k \in 1..Len(guards[u]) : guards[u][k] = l
    BY <1>0, <2>1 DEF OwnersHold
  <2>3. CASE u = t
    <3>1. CASE l \in ToSet(rest)
      <4>1. \E i \in 1..Len(rest) : rest[i] = l
        BY <1>4, <3>1 DEF ToSet
      <4> QED
        BY <1>8, <2>3, <4>1
    <3>2. CASE l # Last(guards[t])
      <4>1. k \in 1..n - 1
        BY <1>2, <1>4, <2>2, <2>3, <3>2
      <4> QED
        BY <1>4, <1>8, <2>2, <2>3, <4>1
    <3> QED
      BY <2>1, <3>1, <3>2
  <2>4. CASE u # t
    BY <1>8, <2>2, <2>4
  <2> QED
    BY <2>3, <2>4
<1> QED
  BY <1>9, <1>10, <1>11, <1>12 DEF ProfilerInv

LEMMA ProfilerInvAlways == ProfilerSpec => []ProfilerInv
<1>1. ProfilerInit => ProfilerInv
  <2> SUFFICES ASSUME ProfilerInit PROVE ProfilerInv
    OBVIOUS
  <2>1. Len(names) = 0 /\ Ids = {}
    BY DEF ProfilerInit, Ids
  <2>2. \A t \in LockThreads : stacks[t] = <<>> /\ guards[t] = <<>> /\ pc[t] = "run"
    BY DEF ProfilerInit
  <2>3. ProfilerTypeOK
    BY <2>1 DEF ProfilerInit, ProfilerTypeOK
  <2>4. NamesDiffer /\ UnlocksMatch
    BY <2>1 DEF ProfilerInit, NamesDiffer, UnlocksMatch
  <2>5. StacksMatch /\ NeighboursRecorded
    BY <2>2 DEF StacksMatch, NeighboursRecorded
  <2>6. OwnersHold
    BY NoThreadIsNone DEF ProfilerInit, OwnersHold
  <2> QED
    BY <2>3, <2>4, <2>5, <2>6 DEF ProfilerInv
<1>2. ProfilerInv /\ [ProfilerNext]_profilerVars => ProfilerInv'
  <2> SUFFICES ASSUME ProfilerInv, [ProfilerNext]_profilerVars PROVE ProfilerInv'
    OBVIOUS
  <2>1. CASE ProfilerNext
    <3>1. PICK t \in LockThreads : \/ \E l \in Locks : PushLock(t, l)
                                  \/ WriteLock(t) \/ PopLock(t) \/ WriteUnlock(t)
      BY <2>1, Zenon DEF ProfilerNext
    <3>2. CASE \E l \in Locks : PushLock(t, l)
      BY <3>2, PushLockStep
    <3>3. CASE WriteLock(t)
      BY <3>3, WriteLockStep
    <3>4. CASE PopLock(t)
      BY <3>4, PopLockStep
    <3>5. CASE WriteUnlock(t)
      BY <3>5, WriteUnlockStep
    <3> QED
      BY <3>1, <3>2, <3>3, <3>4, <3>5
  <2>2. CASE UNCHANGED profilerVars
    <3>1. /\ names' = names /\ lockHistory' = lockHistory /\ stacks' = stacks
          /\ guards' = guards /\ owner' = owner /\ pc' = pc /\ crash' = crash
      BY <2>2 DEF profilerVars, profiler
    <3>2. ProfilerTypeOK' = ProfilerTypeOK /\ NamesDiffer' = NamesDiffer
      BY <3>1 DEF ProfilerTypeOK, Ids, NamesDiffer
    <3>3. StacksMatch' = StacksMatch /\ NeighboursRecorded' = NeighboursRecorded
      BY <3>1 DEF StacksMatch, NeighboursRecorded
    <3>4. OwnersHold' = OwnersHold /\ UnlocksMatch' = UnlocksMatch
      BY <3>1 DEF OwnersHold, UnlocksMatch
    <3> QED
      BY <3>2, <3>3, <3>4 DEF ProfilerInv
  <2> QED
    BY <2>1, <2>2
<1> QED
  BY <1>1, <1>2, PTL DEF ProfilerSpec

-----------------------------------------------------------------------------
(* Paths of recorded orders *)

LEMMA BeforeFacts ==
  ASSUME ProfilerTypeOK
  PROVE  /\ \A i \in Ids : Before(i, i) /\ \A j \in lockHistory[i] : Before(i, j)
         /\ \A i, j, k \in Ids : Before(i, j) /\ Before(j, k) => Before(i, k)
BY NamesFacts DEF Before, Closed

\* What follows on a stack is on a path from what is below it.
LEMMA PathUpStack ==
  ASSUME ProfilerTypeOK, NeighboursRecorded, NEW t \in LockThreads,
         NEW i \in DOMAIN stacks[t], NEW j \in DOMAIN stacks[t], i < j
  PROVE  Before(stacks[t][i], stacks[t][j])
<1> DEFINE S == {k \in DOMAIN stacks[t] : i <= k /\ ~Before(stacks[t][i], stacks[t][k])}
<1>1. PICK n \in Nat : n = Len(stacks[t]) /\ DOMAIN stacks[t] = 1..n
  BY NamesFacts
<1>2. \A k \in 1..n : stacks[t][k] \in Ids
  BY <1>1, NamesFacts
<1>3. ASSUME S # {} PROVE FALSE
  <2>1. S \subseteq Nat
    BY <1>1
  <2>2. PICK k \in S : \A y \in S : k <= y
    BY <1>3, <2>1, MinOfNats
  <2>3. k \in 1..n /\ i <= k /\ ~Before(stacks[t][i], stacks[t][k]) /\ i \in 1..n
    BY <1>1, <2>2
  <2>4. k # i
    BY <1>2, <2>3, BeforeFacts
  <2>5. k - 1 \in 1..n /\ i <= k - 1 /\ k - 1 \in 1..n - 1 /\ (k - 1) + 1 = k /\ ~(k <= k - 1)
    BY <1>1, <2>3, <2>4
  <2>6. Before(stacks[t][i], stacks[t][k - 1])
    BY <1>1, <2>2, <2>5
  <2>7. stacks[t][k] \in lockHistory[stacks[t][k - 1]] \cup {stacks[t][k - 1]}
    BY <1>1, <2>5 DEF NeighboursRecorded
  <2>8. Before(stacks[t][k - 1], stacks[t][k])
    BY <1>2, <2>5, <2>7, BeforeFacts
  <2> QED
    BY <1>2, <2>3, <2>5, <2>6, <2>8, BeforeFacts
<1> QED
  BY <1>1, <1>3

\* There is no end of going up among finitely many ids but in a cycle.
LEMMA CycleAmong ==
  ASSUME ProfilerTypeOK, NEW A \in SUBSET Ids, A # {},
         \A a \in A : \E b \in A : b # a /\ Before(a, b)
  PROVE  HistoryHasCycle
<1> SUFFICES ASSUME ~HistoryHasCycle PROVE FALSE
  OBVIOUS
<1> DEFINE Up(a) == {x \in Ids : Before(a, x)}
           M == {Cardinality(Up(a)) : a \in A}
<1>1. IsFiniteSet(Ids)
  BY NamesFacts, FS_Interval DEF Ids
<1>2. \A a \in A : IsFiniteSet(Up(a)) /\ Cardinality(Up(a)) \in Nat
  BY <1>1, FS_Subset, FS_CardinalityType
<1>3. M \subseteq Nat /\ M # {}
  BY <1>2
<1>4. PICK m \in M : \A y \in M : m <= y
  BY <1>3, MinOfNats
<1>5. PICK a \in A : m = Cardinality(Up(a))
  BY <1>4
<1>6. PICK b \in A : b # a /\ Before(a, b)
  BY <1>5
<1>7. Up(b) \subseteq Up(a)
  BY <1>6, BeforeFacts
<1>8. a \in Up(a) /\ a \notin Up(b)
  BY <1>6, BeforeFacts DEF HistoryHasCycle
<1>9. Up(b) # Up(a)
  BY <1>8
<1>10. Cardinality(Up(b)) <= Cardinality(Up(a)) /\ Cardinality(Up(b)) # Cardinality(Up(a))
  BY <1>2, <1>5, <1>7, <1>9, FS_Subset
<1>11. m <= Cardinality(Up(b))
  BY <1>4, <1>6
<1> QED
  <2> HIDE DEF Up
  <2>1. Cardinality(Up(a)) \in Nat /\ Cardinality(Up(b)) \in Nat
    BY <1>2
  <2> QED
    BY <1>5, <1>10, <1>11, <2>1

LEMMA DeadlockIsCycle ==
  ASSUME ProfilerInv, NamesApart, Deadlocked
  PROVE  HistoryHasCycle
<1>0. ProfilerTypeOK /\ NamesDiffer /\ StacksMatch /\ NeighboursRecorded /\ OwnersHold
  BY DEF ProfilerInv
<1>1. PICK S \in SUBSET LockThreads : S # {} /\ \A t \in S : Waits(t, S)
  BY DEF Deadlocked
<1> DEFINE Wanted(t) == guards[t][Len(guards[t])]
           WantedId(t) == stacks[t][Len(guards[t])]
<1>2. ASSUME NEW t \in S
      PROVE  /\ Len(guards[t]) \in Nat \ {0} /\ Len(stacks[t]) = Len(guards[t])
             /\ Wanted(t) \in Locks /\ WantedId(t) \in Ids
             /\ names[WantedId(t)] = NameOf[Wanted(t)]
             /\ owner[Wanted(t)] \in S \ {t}
  <2>1. pc[t] = "lock" /\ owner[Last(guards[t])] \in S \ {t}
    BY <1>1 DEF Waits
  <2>2. guards[t] # <<>> /\ Len(stacks[t]) = Len(guards[t])
    BY <1>0, <1>1, <2>1 DEF StacksMatch
  <2>3. Last(guards[t]) = Wanted(t) /\ Len(guards[t]) \in Nat \ {0} /\ Wanted(t) \in Locks
    BY <1>0, <1>1, <2>2, TopFacts
  <2>4. Len(guards[t]) \in 1..Len(stacks[t])
    BY <2>2, <2>3
  <2>5. WantedId(t) \in Ids
    BY <1>0, <1>1, <2>4, NamesFacts
  <2>6. names[WantedId(t)] = NameOf[Wanted(t)]
    BY <1>0, <1>1, <2>4 DEF StacksMatch
  <2> QED
    BY <2>1, <2>2, <2>3, <2>5, <2>6
<1>3. ASSUME NEW t \in S
      PROVE  \E u \in S : WantedId(u) # WantedId(t) /\ Before(WantedId(t), WantedId(u))
  <2>1. PICK u \in S : u = owner[Wanted(t)]
    BY <1>2
  <2>2. PICK k \in 1..Len(guards[u]) : guards[u][k] = Wanted(t)
    BY <1>0, <1>1, <1>2, <2>1 DEF OwnersHold
  <2>3. owner[Wanted(u)] # u /\ Wanted(u) # Wanted(t)
    BY <1>2, <2>1
  <2>4. PICK n \in Nat \ {0} : n = Len(guards[u]) /\ n = Len(stacks[u])
    BY <1>2
  <2>5. k \in 1..n /\ n \in 1..n /\ k < n /\ DOMAIN stacks[u] = 1..n
    <3>1. k # n
      BY <2>2, <2>3, <2>4
    <3>2. stacks[u] \in Seq(Ids)
      BY <1>0, <1>1, NamesFacts
    <3> QED
      BY <2>2, <2>4, <3>1, <3>2
  <2>6. stacks[u][k] \in Ids /\ names[stacks[u][k]] = NameOf[Wanted(t)]
    BY <1>0, <1>1, <2>2, <2>4, <2>5, NamesFacts DEF StacksMatch
  <2>7. stacks[u][k] = WantedId(t)
    BY <1>0, <1>2, <2>6 DEF NamesDiffer
  <2>8. Before(WantedId(t), WantedId(u))
    BY <1>0, <1>1, <2>4, <2>5, <2>7, PathUpStack
  <2>9. WantedId(u) # WantedId(t)
    BY <1>2, <2>3 DEF NamesApart
  <2> QED
    BY <2>8, <2>9
<1> DEFINE A == {WantedId(t) : t \in S}
<1>4. A \in SUBSET Ids /\ A # {}
  BY <1>1, <1>2
<1>5. \A a \in A : \E b \in A : b # a /\ Before(a, b)
  BY <1>3
<1> QED
  <2> HIDE DEF A
  <2> QED
    BY <1>0, <1>4, <1>5, CycleAmong

(* The variables of the profiler have their types.                          *)
THEOREM ProfilerTyped == ProfilerSpec => []ProfilerTypeOK
<1>1. ProfilerInv => ProfilerTypeOK
  BY DEF ProfilerInv
<1> QED
  BY <1>1, ProfilerInvAlways, PTL

(* Neither MULTIPLE_UNLOCK nor INVALID_UNLOCK stops a program whose guards  *)
(* nest, whoever else takes locks in between, or the same one again         *)
(* (DeadLockProfiler.cpp:52-61).                                            *)
THEOREM UnlocksMatchHolds == ProfilerSpec => []UnlocksMatch
<1>1. ProfilerInv => UnlocksMatch
  BY DEF ProfilerInv
<1> QED
  BY <1>1, ProfilerInvAlways, PTL

(* Of any two guards of a thread the history has the order.                 *)
THEOREM OrderIsRecordedHolds == ProfilerSpec => []OrderIsRecorded
<1>1. ProfilerInv => OrderIsRecorded
  BY PathUpStack DEF ProfilerInv, OrderIsRecorded
<1> QED
  BY <1>1, ProfilerInvAlways, PTL

(* Threads that wait for each other for ever have left a cycle.             *)
THEOREM DeadlockLeavesCycleHolds == ProfilerSpec => []DeadlockLeavesCycle
<1>1. ProfilerInv => DeadlockLeavesCycle
  BY DeadlockIsCycle DEF DeadlockLeavesCycle
<1> QED
  BY <1>1, ProfilerInvAlways, PTL
=============================================================================
