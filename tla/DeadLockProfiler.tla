-------------------------- MODULE DeadLockProfiler --------------------------
(***************************************************************************)
(* The debug build's watch over the order in which locks are taken, and    *)
(* threads that nest write guards of Lock under it.  PushLock and PopLock  *)
(* run under the profiler's own mutex, so each is one step; the lock       *)
(* itself is taken or let go in a step of its own (Lock.cpp:12-70).        *)
(*                                                                         *)
(* An id is a place in names, counted from 1 where the code counts from 0. *)
(* The search for a cycle is module CycleSearch; what is kept here of the  *)
(* order of locks does not depend on what it finds.                        *)
(***************************************************************************)
EXTENDS Integers, Sequences, FiniteSets, SequencesExt

CONSTANTS LockThreads,   \* the threads that take locks
          Locks,
          NameOf,        \* typeid(this).name() of the class each lock belongs to
          MaxDepth,      \* bound: how many guards a thread nests
          NoThread,      \* nobody
          CycleFound(_)  \* does CheckCycle end in a CRASH for this history?

ASSUME NamesGiven == \A l \in Locks : l \in DOMAIN NameOf
ASSUME NoThreadIsNone == NoThread \notin LockThreads

VARIABLES
  names,        \* _nameToId and _idToName
  lockHistory,  \* _lockHistory: the ids taken right after an id
  stacks,       \* LLockStacks of each thread
  guards,       \* the locks of the guards a thread is in, the newest last
  owner,        \* who has each lock
  pc,           \* "run", or between a call to the profiler and the lock itself
  crash         \* what CRASH was called with

profiler == <<names, lockHistory>>
profilerVars == <<profiler, stacks, guards, owner, pc, crash>>

Ids == 1..Len(names)

ProfilerInit ==
  /\ names = <<>>
  /\ lockHistory = <<>>
  /\ stacks = [t \in LockThreads |-> <<>>]
  /\ guards = [t \in LockThreads |-> <<>>]
  /\ owner = [l \in Locks |-> NoThread]
  /\ pc = [t \in LockThreads |-> "run"]
  /\ crash = "none"

-----------------------------------------------------------------------------
(* PushLock and PopLock *)

Known(name) == \E i \in Ids : names[i] = name

\* The names with this one among them, behind the others if it is new.
EnterName(name) == IF Known(name) THEN names ELSE Append(names, name)

IdIn(ns, name) == CHOOSE i \in 1..Len(ns) : ns[i] = name

\* Mutant: the order is taken from the first guard instead of the last.
EdgeFromFirst(stack, id) == IF stack = <<>> THEN {} ELSE {<<Head(stack), id>>}

\* The order that PushLock records, if any: the last guard's lock comes
\* before this one.
Edge(stack, id) == IF stack = <<>> THEN {} ELSE {<<Last(stack), id>>}

\* Mutant: one successor of an id is enough.
RecordOne(edges, edge) ==
  [i \in DOMAIN edges |->
     edges[i] \cup {e[2] : e \in {e \in edge : e[1] = i /\ e[2] # i /\ edges[i] = {}}}]

Record(edges, edge) ==
  [i \in DOMAIN edges |-> edges[i] \cup {e[2] : e \in {e \in edge : e[1] = i /\ e[2] # i}}]

\* WriteLock up to the lock: PushLock, which records a new order and then
\* looks for a cycle
PushLock(t, l) ==
  /\ crash = "none" /\ pc[t] = "run" /\ Len(guards[t]) < MaxDepth
  /\ LET ns  == EnterName(NameOf[l])
         id  == IdIn(ns, NameOf[l])
         old == [i \in 1..Len(ns) |-> IF i \in Ids THEN lockHistory[i] ELSE {}]
         new == Record(old, Edge(stacks[t], id))
     IN  /\ names' = ns
         /\ lockHistory' = new
         /\ IF new # old /\ CycleFound(new)
              THEN crash' = "DEADLOCK_DETECTED" /\ UNCHANGED <<stacks, guards, pc>>
              ELSE /\ stacks' = [stacks EXCEPT ![t] = Append(@, id)]
                   /\ guards' = [guards EXCEPT ![t] = Append(@, l)]
                   /\ pc' = [pc EXCEPT ![t] = "lock"]
                   /\ UNCHANGED crash
  /\ UNCHANGED owner

\* the rest of WriteLock; a thread that owns the lock takes it again
WriteLock(t) ==
  /\ crash = "none" /\ pc[t] = "lock"
  /\ LET l == Last(guards[t])
     IN  owner[l] \in {NoThread, t} /\ owner' = [owner EXCEPT ![l] = t]
  /\ pc' = [pc EXCEPT ![t] = "run"]
  /\ UNCHANGED <<profiler, stacks, guards, crash>>

\* What PopLock calls CRASH with when a guard of this lock ends.
PopFault(stack, l) ==
  IF stack = <<>> THEN "MULTIPLE_UNLOCK"
  ELSE IF Last(stack) # IdIn(names, NameOf[l]) THEN "INVALID_UNLOCK" ELSE "none"

\* WriteUnlock up to the lock, when the newest guard's scope ends
PopLock(t) ==
  /\ crash = "none" /\ pc[t] = "run" /\ guards[t] # <<>>
  /\ LET fault == PopFault(stacks[t], Last(guards[t]))
     IN  /\ crash' = fault
         /\ stacks' = IF fault = "none" THEN [stacks EXCEPT ![t] = Front(@)] ELSE stacks
         /\ pc' = [pc EXCEPT ![t] = "unlock"]
  /\ UNCHANGED <<profiler, guards, owner>>

\* the rest of WriteUnlock: the lock is free when its last guard is gone
WriteUnlock(t) ==
  /\ crash = "none" /\ pc[t] = "unlock"
  /\ LET l    == Last(guards[t])
         rest == Front(guards[t])
     IN  /\ owner' = IF l \in ToSet(rest) THEN owner ELSE [owner EXCEPT ![l] = NoThread]
         /\ guards' = [guards EXCEPT ![t] = rest]
  /\ pc' = [pc EXCEPT ![t] = "run"]
  /\ UNCHANGED <<profiler, stacks, crash>>

ProfilerNext ==
  \E t \in LockThreads : \/ \E l \in Locks : PushLock(t, l)
                         \/ WriteLock(t) \/ PopLock(t) \/ WriteUnlock(t)

ProfilerSpec == ProfilerInit /\ [][ProfilerNext]_profilerVars

-----------------------------------------------------------------------------
(* Properties *)

(* The variables have their types; every id in use has a name.              *)
ProfilerTypeOK ==
  /\ names \in Seq({NameOf[l] : l \in Locks})
  /\ lockHistory \in [Ids -> SUBSET Ids]
  /\ stacks \in [LockThreads -> Seq(Ids)]
  /\ guards \in [LockThreads -> Seq(Locks)]
  /\ owner \in [Locks -> LockThreads \cup {NoThread}]
  /\ pc \in [LockThreads -> {"run", "lock", "unlock"}]
  /\ crash \in {"none", "MULTIPLE_UNLOCK", "INVALID_UNLOCK", "DEADLOCK_DETECTED"}

\* Ids that the recorded orders do not lead out of.
Closed(S) == \A i \in S : lockHistory[i] \subseteq S

\* A path of recorded orders, maybe an empty one, leads from i to j.
Before(i, j) == \A S \in SUBSET Ids : i \in S /\ Closed(S) => j \in S

(* Only neighbours are recorded (DeadLockProfiler.cpp:38), and that is      *)
(* enough: of any two guards of a thread the history has the order, if      *)
(* need be by way of those between them.                                    *)
OrderIsRecorded ==
  \A t \in LockThreads : \A i, j \in DOMAIN stacks[t] :
    i < j => Before(stacks[t][i], stacks[t][j])

\* Threads that wait for each other for ever.
Waits(t, S) == pc[t] = "lock" /\ owner[Last(guards[t])] \in S \ {t}

Deadlocked == \E S \in SUBSET LockThreads : S # {} /\ \A t \in S : Waits(t, S)

\* Locks of one class share a name, and with it an id.
NamesApart == \A l, m \in Locks : NameOf[l] = NameOf[m] => l = m

HistoryHasCycle == \E i, j \in Ids : i # j /\ Before(i, j) /\ Before(j, i)

(* When threads have come to wait for each other, the orders in which they  *)
(* took their locks form a cycle, for locks that do not share a name: what  *)
(* the profiler records is enough to find every deadlock.                   *)
DeadlockLeavesCycle == NamesApart /\ Deadlocked => HistoryHasCycle

(* Orders that form a cycle are a deadlock to be and are reported as soon   *)
(* as the last of them is recorded (DeadLockProfiler.h:43-47).              *)
CycleIsReported == HistoryHasCycle => crash = "DEADLOCK_DETECTED"
=============================================================================
