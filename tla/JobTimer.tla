------------------------------ MODULE JobTimer ------------------------------
(***************************************************************************)
(* ServerCore's JobTimer: JobQueue::DoTimer reserves a job for a later     *)
(* tick, and every worker hands the due jobs to their queues in each turn  *)
(* of its loop (ThreadManager::DistributeReservedJobs).  The clock is read *)
(* outside of the lock on both sides, and the jobs are pushed outside of   *)
(* it too, under the flag _distributing only.                              *)
(*                                                                         *)
(* The priority queue is a set: what its order promises is the order in    *)
(* which PushNext takes the collected jobs, least tick first, ties in any  *)
(* order.  What a pushed job does in its queue is JobQueue's subject; here *)
(* it may be run inside Push, by the distributing thread, and may reserve. *)
(***************************************************************************)
EXTENDS Integers, Sequences, FiniteSets, Functions

CONSTANTS Threads,    \* the worker threads
          Queues,     \* the JobQueue objects that own jobs
          Jobs,       \* Job objects, each reserved at most once
          OwnerOf,    \* [Jobs -> Queues]
          BoundJobs,  \* jobs of a member function: they hold their owner
          NoJob,      \* "no job"
          Delays,     \* the values of tickAfter
          MaxTick,    \* bound: the last tick of the clock
          MaxClears   \* bound: calls of Clear in one behaviour

ASSUME OwnersAreQueues == OwnerOf \in [Jobs -> Queues] /\ BoundJobs \subseteq Jobs
ASSUME NoJobIsNone     == NoJob \notin Jobs
ASSUME TicksAreNat     == Delays \subseteq Nat /\ MaxTick \in Nat /\ MaxClears \in Nat

VARIABLES
  clock,         \* GetTickCount64()
  tick,          \* per job: its executeTick
  items,         \* _items
  distributing,  \* _distributing
  at,            \* per thread: where its DistributeReservedJobs stands
  now,           \* per thread: the now it passes to Distribute
  due,           \* per thread: the local vector items, what is left of it
  pushing,       \* per thread: the job its owner->Push has taken over
  reserving,     \* per thread: the job its Reserve has still to put in _items
  destroyed,     \* the queues whose last shared_ptr is gone
  reserved,      \* history: the jobs handed to Reserve
  handed,        \* history: the jobs Distribute has taken, in order
  dropped,       \* history: those whose owner was gone
  missed,        \* history, per job: what had left _items when it got there
  cleared,       \* history: the jobs Clear threw away
  clears         \* history: how often Clear was called

threadVars == <<at, now, due, pushing>>
history    == <<reserved, handed, dropped, missed, cleared, clears>>
vars == <<clock, tick, items, distributing, threadVars, reserving, destroyed,
          history>>

Init == /\ clock = 0
        /\ tick = [j \in Jobs |-> 0]
        /\ items = {}
        /\ distributing = FALSE
        /\ at  = [t \in Threads |-> "idle"]
        /\ now = [t \in Threads |-> 0]
        /\ due = [t \in Threads |-> {}]
        /\ pushing   = [t \in Threads |-> NoJob]
        /\ reserving = [t \in Threads |-> NoJob]
        /\ destroyed = {}
        /\ reserved = {}
        /\ handed = <<>>
        /\ dropped = {}
        /\ missed = [j \in Jobs |-> {}]
        /\ cleared = {}
        /\ clears = 0

-----------------------------------------------------------------------------
(* JobQueue::DoTimer and JobTimer::Reserve *)

\* User code runs: an IOCP handler, or a job that owner->Push executes inline.
InUserCode(t) == at[t] \in {"idle", "push"} /\ reserving[t] = NoJob

\* DoTimer and Reserve, up to executeTick = GetTickCount64() + tickAfter
BeginReserve(t, j, after) ==
  /\ InUserCode(t)
  /\ j \notin reserved /\ OwnerOf[j] \notin destroyed
  /\ clock + after <= MaxTick
  /\ tick' = [tick EXCEPT ![j] = clock + after]
  /\ reserving' = [reserving EXCEPT ![t] = j]
  /\ reserved' = reserved \cup {j}
  /\ UNCHANGED <<clock, items, distributing, threadVars, destroyed, handed,
                 dropped, missed, cleared, clears>>

\* _items.push, under the lock
PutItem(t) ==
  /\ reserving[t] # NoJob
  /\ items' = items \cup {reserving[t]}
  /\ reserving' = [reserving EXCEPT ![t] = NoJob]
  /\ missed' = [missed EXCEPT
       ![reserving[t]] = Range(handed) \cup UNION {due[u] : u \in Threads}]
  /\ UNCHANGED <<clock, tick, distributing, threadVars, destroyed, reserved,
                 handed, dropped, cleared, clears>>

-----------------------------------------------------------------------------
(* ThreadManager::DistributeReservedJobs and JobTimer::Distribute *)

\* now = GetTickCount64(), before Distribute is entered
ReadClock(t) ==
  /\ at[t] = "idle" /\ reserving[t] = NoJob
  /\ at'  = [at EXCEPT ![t] = "read"]
  /\ now' = [now EXCEPT ![t] = clock]
  /\ UNCHANGED <<clock, tick, items, distributing, due, pushing, reserving,
                 destroyed, history>>

\* Mutant: nobody looks at what exchange returns.
EnterUntested(t) ==
  /\ at[t] = "read"
  /\ distributing' = TRUE
  /\ at' = [at EXCEPT ![t] = "collect"]
  /\ UNCHANGED <<clock, tick, items, now, due, pushing, reserving, destroyed,
                 history>>

\* _distributing.exchange(true): the thread that finds true returns
Enter(t) ==
  /\ at[t] = "read"
  /\ distributing' = TRUE
  /\ at' = [at EXCEPT ![t] = IF distributing THEN "idle" ELSE "collect"]
  /\ UNCHANGED <<clock, tick, items, now, due, pushing, reserving, destroyed,
                 history>>

\* Mutant: top() is copied and never popped.
CollectCopies(t) ==
  /\ at[t] = "collect"
  /\ due' = [due EXCEPT ![t] = {j \in items : tick[j] <= now[t]}]
  /\ at' = [at EXCEPT ![t] = "next"]
  /\ UNCHANGED <<clock, tick, items, distributing, now, pushing, reserving,
                 destroyed, history>>

\* Mutant: with nothing due, Distribute returns and leaves the flag set.
CollectOrReturn(t) ==
  /\ at[t] = "collect"
  /\ due' = [due EXCEPT ![t] = {j \in items : tick[j] <= now[t]}]
  /\ items' = {j \in items : tick[j] > now[t]}
  /\ at' = [at EXCEPT ![t] = IF due'[t] = {} THEN "idle" ELSE "next"]
  /\ UNCHANGED <<clock, tick, distributing, now, pushing, reserving, destroyed,
                 history>>

\* under the lock: every item that is due goes to the local vector
Collect(t) ==
  /\ at[t] = "collect"
  /\ due' = [due EXCEPT ![t] = {j \in items : tick[j] <= now[t]}]
  /\ items' = {j \in items : tick[j] > now[t]}
  /\ at' = [at EXCEPT ![t] = "next"]
  /\ UNCHANGED <<clock, tick, distributing, now, pushing, reserving, destroyed,
                 history>>

\* the next item: owner.lock() succeeds and Push begins, or the job goes
PushNext(t, j) ==
  /\ at[t] = "next"
  /\ j \in due[t] /\ \A k \in due[t] : tick[j] <= tick[k]
  /\ due' = [due EXCEPT ![t] = @ \ {j}]
  /\ handed' = Append(handed, j)
  /\ IF OwnerOf[j] \in destroyed
       THEN /\ dropped' = dropped \cup {j}
            /\ UNCHANGED <<at, pushing>>
       ELSE /\ at' = [at EXCEPT ![t] = "push"]
            /\ pushing' = [pushing EXCEPT ![t] = j]
            /\ UNCHANGED dropped
  /\ UNCHANGED <<clock, tick, items, distributing, now, reserving, destroyed,
                 reserved, missed, cleared, clears>>

\* owner->Push returns, with whatever it has run inline, and owner is released
PushReturns(t) ==
  /\ at[t] = "push" /\ reserving[t] = NoJob
  /\ at' = [at EXCEPT ![t] = "next"]
  /\ pushing' = [pushing EXCEPT ![t] = NoJob]
  /\ UNCHANGED <<clock, tick, items, distributing, now, due, reserving,
                 destroyed, history>>

\* _distributing.store(false)
Leave(t) ==
  /\ at[t] = "next" /\ due[t] = {}
  /\ distributing' = FALSE
  /\ at' = [at EXCEPT ![t] = "idle"]
  /\ UNCHANGED <<clock, tick, items, now, due, pushing, reserving, destroyed,
                 history>>

-----------------------------------------------------------------------------
(* The rest of the process *)

\* JobTimer::Clear, from any thread
Clear ==
  /\ clears < MaxClears
  /\ clears' = clears + 1
  /\ cleared' = cleared \cup items
  /\ items' = {}
  /\ UNCHANGED <<clock, tick, distributing, threadVars, reserving, destroyed,
                 reserved, handed, dropped, missed>>

\* the jobs that JobTimer or a thread in it still holds
Pending ==
  items \cup {j \in Jobs : \E t \in Threads : j \in due[t] \/ j = reserving[t]}

(* The last shared_ptr to q goes.  Not while a thread is inside a method of *)
(* q (DoTimer, Push), nor while a pending job of a member function holds q: *)
(* the TimerItem itself has a weak_ptr only.                                *)
Destroy(q) ==
  /\ q \notin destroyed
  /\ \A t \in Threads :
       \A j \in {reserving[t], pushing[t]} \ {NoJob} : OwnerOf[j] # q
  /\ \A j \in Pending \cap BoundJobs : OwnerOf[j] # q
  /\ destroyed' = destroyed \cup {q}
  /\ UNCHANGED <<clock, tick, items, distributing, threadVars, reserving, history>>

Tick ==
  /\ clock < MaxTick
  /\ clock' = clock + 1
  /\ UNCHANGED <<tick, items, distributing, threadVars, reserving, destroyed,
                 history>>

-----------------------------------------------------------------------------
Distribute(t) == \/ ReadClock(t) \/ Enter(t) \/ Collect(t)
                 \/ (\E j \in Jobs : PushNext(t, j))
                 \/ PushReturns(t) \/ Leave(t)

Next == \/ \E t \in Threads :
             \/ \E j \in Jobs, after \in Delays : BeginReserve(t, j, after)
             \/ PutItem(t)
             \/ Distribute(t)
        \/ Clear
        \/ \E q \in Queues : Destroy(q)
        \/ Tick

Spec == Init /\ [][Next]_vars

(* The OS schedules every thread, its loop calls DistributeReservedJobs     *)
(* again and again, and time passes.  Nothing obliges anybody to reserve.   *)
Fairness == /\ \A t \in Threads : WF_vars(PutItem(t)) /\ WF_vars(Distribute(t))
            /\ WF_vars(Tick)

FairSpec == Spec /\ Fairness

-----------------------------------------------------------------------------
(* Properties *)

(* The variables have their types. *)
TypeOK ==
  /\ clock \in 0..MaxTick
  /\ tick \in [Jobs -> 0..MaxTick]
  /\ items \subseteq Jobs
  /\ distributing \in BOOLEAN
  /\ at  \in [Threads -> {"idle", "read", "collect", "next", "push"}]
  /\ now \in [Threads -> 0..MaxTick]
  /\ due \in [Threads -> SUBSET Jobs]
  /\ pushing   \in [Threads -> Jobs \cup {NoJob}]
  /\ reserving \in [Threads -> Jobs \cup {NoJob}]
  /\ destroyed \subseteq Queues
  /\ reserved \subseteq Jobs
  /\ handed \in Seq(Jobs)
  /\ dropped \subseteq Jobs
  /\ missed \in [Jobs -> SUBSET Jobs]
  /\ cleared \subseteq Jobs
  /\ clears \in 0..MaxClears

(* Jobs leave the timer in the order of their ticks, although each worker   *)
(* reads the clock and pushes without the lock: an earlier job comes after  *)
(* a later one only when it reached _items after the later one had left it  *)
(* (JobTimer::Distribute and its flag _distributing).                       *)
InOrder ==
  \A m, n \in 1..Len(handed) :
    m < n /\ tick[handed[m]] > tick[handed[n]] => handed[m] \in missed[handed[n]]

(* A reserved job leaves the timer once: it waits, is being distributed,    *)
(* was handed on, or was cleared, and never two of these; and only a job    *)
(* that does not hold its owner is thrown away with it (JobTimer::Reserve,  *)
(* Distribute, Clear, JobQueue::DoTimer).                                   *)
OnceEach ==
  /\ \A m, n \in 1..Len(handed) : handed[m] = handed[n] => m = n
  /\ Pending \cap (Range(handed) \cup cleared) = {}
  /\ Range(handed) \cap cleared = {}
  /\ reserved = Pending \cup Range(handed) \cup cleared
  /\ dropped \cap BoundJobs = {}

(* Every reserved job is handed on, or cleared, whatever threads find the   *)
(* flag set and return (JobTimer::Distribute).                              *)
TimerFires ==
  \A j \in Jobs : j \in reserved ~> j \in Range(handed) \cup cleared
=============================================================================
