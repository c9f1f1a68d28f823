------------------------------- MODULE Memory -------------------------------
(***************************************************************************)
(* ServerCore's memory pools: Memory::Allocate and Release over the        *)
(* MemoryPools of its size table, ObjectPool<T>::Pop and Push over a       *)
(* MemoryPool of their own, and the header (MemoryEntry) in front of every *)
(* block that finds a block's way back.  The free list of a pool is a      *)
(* Windows SLIST, whose push and pop are atomic; the counters beside it    *)
(* are changed in steps of their own.                                      *)
(*                                                                         *)
(* A free list is a set: which of its blocks a pop returns does not matter *)
(* to what is said here.  Sizes are those of a block with its header.      *)
(***************************************************************************)
EXTENDS Integers, FiniteSets, FiniteSetsExt

CONSTANTS Workers,
          Blocks,      \* bound: the addresses _aligned_malloc can return
          Requests,    \* the allocSize of the calls of Memory::Allocate
          ObjectSize,  \* the s_allocSize of each ObjectPool<T>, by type
          NoBlock

MAX_ALLOC_SIZE == 4096
Types == DOMAIN ObjectSize

ASSUME SizesPositive == /\ Requests \subseteq Nat \ {0}
                        /\ ObjectSize \in [Types -> Nat \ {0}]
ASSUME NoBlockIsNone == NoBlock \notin Blocks
ASSUME WorkersFinite == IsFiniteSet(Workers)
ASSUME BlocksFinite == IsFiniteSet(Blocks)

-----------------------------------------------------------------------------
(* The size table: Memory::Memory *)

\* the pools of the three loops, by their _allocSize
PoolSizes == {32 * i : i \in 1..31} \cup {1024 + 128 * i : i \in 0..7}
               \cup {2048 + 256 * i : i \in 0..8}

\* Mutant: while (tableIndex < size), a size that fits goes to the next pool.
poolTableStrict(n) == Min({size \in PoolSizes : n < size} \cup {MAX_ALLOC_SIZE})

\* An entry is written by the first pool of the loops with tableIndex <= size.
poolTable(n) == Min({size \in PoolSizes : n <= size})

\* How finely the blocks of a size are graded (the comment at POOL_COUNT).
Grade(n) == CASE n <= 1024 -> 32 [] n \in 1025..2048 -> 128 [] n > 2048 -> 256

\* Every entry of the table has a pool (the check under "DEBUG"), that holds
\* the block and wastes less than one grade.
TableFits == \A n \in 1..MAX_ALLOC_SIZE :
               poolTable(n) \in n .. n + Grade(n) - 1

-----------------------------------------------------------------------------
(* StompAllocator, which Memory uses in place of the pools under _STOMP *)

PAGE_SIZE == 4096

\* Alloc: whole pages from base on, and the data at their end
StompAlloc(base, size) ==
  base + ((size + PAGE_SIZE - 1) \div PAGE_SIZE) * PAGE_SIZE - size

\* Release: the address that it gives to VirtualFree
StompBase(address) == address - (address % PAGE_SIZE)

\* What Release frees is what Alloc got, and one byte past the data is in the
\* next page.
StompFits(base, size) ==
  /\ StompBase(StompAlloc(base, size)) = base
  /\ (StompAlloc(base, size) + size) % PAGE_SIZE = 0

-----------------------------------------------------------------------------
(* The pools *)

\* the MemoryPool objects: those of _poolTable that some request leads to (no
\* call ever touches another one), and one for each ObjectPool<T>
MemoryPools == {<<"memory", poolTable(n)>> : n \in Requests \cap (1..MAX_ALLOC_SIZE)}
ObjectPools == {<<"object", type>> : type \in Types}
Pools       == MemoryPools \cup ObjectPools
PoolSize(p) == IF p[1] = "memory" THEN p[2] ELSE ObjectSize[p[2]]

\* what a call names: a size of Memory::Allocate, a type of ObjectPool::Pop
Callers   == {<<"memory", n>> : n \in Requests} \cup ObjectPools
Asked(c)  == IF c[1] = "memory" THEN c[2] ELSE ObjectSize[c[2]]
Pooled(c) == IF c[1] = "object" THEN TRUE ELSE c[2] <= MAX_ALLOC_SIZE
PoolOf(c) == IF c[1] = "object" THEN c ELSE <<"memory", poolTable(c[2])>>

VARIABLES
  list,           \* per pool: the blocks on its SLIST _header
  useCount,       \* per pool: _useCount
  reservedCount,  \* per pool: _reservedCount
  header,         \* per block: allocSize in its MemoryEntry
  capacity,       \* per block: what was asked of _aligned_malloc, 0 if free
  lent,           \* per block: the caller that has it, or NoCaller
  call,           \* per thread: its call of pop or Push under way
  crashed         \* ASSERT_CRASH has fired

memoryVars == <<list, useCount, reservedCount, header, capacity, lent, call, crashed>>

NoCaller == <<"none", 0>>
NoCall   == [at |-> "none", block |-> NoBlock, pool |-> NoCaller, by |-> NoCaller]

MemoryInit ==
  /\ list = [p \in Pools |-> {}]
  /\ useCount = [p \in Pools |-> 0]
  /\ reservedCount = [p \in Pools |-> 0]
  /\ header = [b \in Blocks |-> 0]
  /\ capacity = [b \in Blocks |-> 0]
  /\ lent = [b \in Blocks |-> NoCaller]
  /\ call = [t \in Workers |-> NoCall]
  /\ crashed = FALSE

\* AttachEntry: the caller gets the block, its size is in the header
Attach(b, c) == /\ header' = [header EXCEPT ![b] = Asked(c)]
                /\ lent' = [lent EXCEPT ![b] = c]

-----------------------------------------------------------------------------
(* Allocate, and ObjectPool::Pop *)

\* larger than any pool: _aligned_malloc and AttachEntry
AllocateLarge(t, c, b) ==
  /\ call[t] = NoCall /\ ~Pooled(c)
  /\ capacity[b] = 0
  /\ capacity' = [capacity EXCEPT ![b] = Asked(c)]
  /\ Attach(b, c)
  /\ UNCHANGED <<list, useCount, reservedCount, call, crashed>>

\* MemoryPool::pop, the list is empty: malloc; the memory holds anything
PopNew(t, c, b) ==
  /\ call[t] = NoCall /\ Pooled(c)
  /\ list[PoolOf(c)] = {} /\ capacity[b] = 0
  /\ capacity' = [capacity EXCEPT ![b] = PoolSize(PoolOf(c))]
  /\ \E garbage \in {0, 1} : header' = [header EXCEPT ![b] = garbage]
  /\ call' = [call EXCEPT ![t] =
                [at |-> "popped", block |-> b, pool |-> PoolOf(c), by |-> c]]
  /\ UNCHANGED <<list, useCount, reservedCount, lent, crashed>>

\* Mutant: a block of the list is not taken off _reservedCount.
PopUncounted(t, c, b) ==
  /\ call[t] = NoCall /\ Pooled(c)
  /\ b \in list[PoolOf(c)]
  /\ list' = [list EXCEPT ![PoolOf(c)] = @ \ {b}]
  /\ crashed' = (crashed \/ header[b] # 0)
  /\ call' = [call EXCEPT ![t] =
                [at |-> "popped", block |-> b, pool |-> PoolOf(c), by |-> c]]
  /\ UNCHANGED <<useCount, reservedCount, header, capacity, lent>>

\* MemoryPool::pop, with a block of the list: ASSERT_CRASH(allocSize == 0)
PopOld(t, c, b) ==
  /\ call[t] = NoCall /\ Pooled(c)
  /\ b \in list[PoolOf(c)]
  /\ list' = [list EXCEPT ![PoolOf(c)] = @ \ {b}]
  /\ crashed' = (crashed \/ header[b] # 0)
  /\ call' = [call EXCEPT ![t] =
                [at |-> "reused", block |-> b, pool |-> PoolOf(c), by |-> c]]
  /\ UNCHANGED <<useCount, reservedCount, header, capacity, lent>>

Goto(t, at) == call' = [call EXCEPT ![t].at = at]

\* _reservedCount.fetch_sub(1), after a block of the list only
CountReused(t) ==
  /\ call[t].at = "reused"
  /\ reservedCount' = [reservedCount EXCEPT ![call[t].pool] = @ - 1]
  /\ Goto(t, "popped")
  /\ UNCHANGED <<list, useCount, header, capacity, lent, crashed>>

\* _useCount.fetch_add(1), and AttachEntry
CountUsed(t) ==
  /\ call[t].at = "popped"
  /\ useCount' = [useCount EXCEPT ![call[t].pool] = @ + 1]
  /\ Attach(call[t].block, call[t].by)
  /\ call' = [call EXCEPT ![t] = NoCall]
  /\ UNCHANGED <<list, reservedCount, capacity, crashed>>

-----------------------------------------------------------------------------
(* Release, and ObjectPool::Push: any thread may release what another got *)

\* Memory::Release of a block larger than any pool: _aligned_free
ReleaseLarge(t, b) ==
  /\ call[t] = NoCall
  /\ lent[b][1] = "memory" /\ header[b] > MAX_ALLOC_SIZE
  /\ lent' = [lent EXCEPT ![b] = NoCaller]
  /\ capacity' = [capacity EXCEPT ![b] = 0]
  /\ UNCHANGED <<list, useCount, reservedCount, header, call, crashed>>

\* the pool a block goes back to: its type's, or the table's for its header
WayBack(b) == IF lent[b][1] = "object" THEN lent[b]
                                      ELSE <<"memory", poolTable(header[b])>>

\* DetachEntry; Memory::Release crashes when the header holds no size
BeginRelease(t, b) ==
  /\ call[t] = NoCall
  /\ \/ lent[b][1] = "object"
     \/ lent[b][1] = "memory" /\ header[b] <= MAX_ALLOC_SIZE
  /\ crashed' = (crashed \/ (lent[b][1] = "memory" /\ ~(header[b] > 0)))
  /\ call' = [call EXCEPT ![t] =
                [at |-> "clear", block |-> b, pool |-> WayBack(b), by |-> lent[b]]]
  /\ lent' = [lent EXCEPT ![b] = NoCaller]
  /\ UNCHANGED <<list, useCount, reservedCount, header, capacity>>

\* Mutant: the header keeps its size in the free list.
KeepHeader(t) ==
  /\ call[t].at = "clear"
  /\ Goto(t, "push")
  /\ UNCHANGED <<list, useCount, reservedCount, header, capacity, lent, crashed>>

\* MemoryPool::Push: ptr->allocSize = 0, ahead of the list
ClearHeader(t) ==
  /\ call[t].at = "clear"
  /\ header' = [header EXCEPT ![call[t].block] = 0]
  /\ Goto(t, "push")
  /\ UNCHANGED <<list, useCount, reservedCount, capacity, lent, crashed>>

\* InterlockedPushEntrySList
PushEntry(t) ==
  /\ call[t].at = "push"
  /\ list' = [list EXCEPT ![call[t].pool] = @ \cup {call[t].block}]
  /\ Goto(t, "pushed")
  /\ UNCHANGED <<useCount, reservedCount, header, capacity, lent, crashed>>

CountUnused(t) ==
  /\ call[t].at = "pushed"
  /\ useCount' = [useCount EXCEPT ![call[t].pool] = @ - 1]
  /\ Goto(t, "unused")
  /\ UNCHANGED <<list, reservedCount, header, capacity, lent, crashed>>

CountReserved(t) ==
  /\ call[t].at = "unused"
  /\ reservedCount' = [reservedCount EXCEPT ![call[t].pool] = @ + 1]
  /\ call' = [call EXCEPT ![t] = NoCall]
  /\ UNCHANGED <<list, useCount, header, capacity, lent, crashed>>

-----------------------------------------------------------------------------
Allocate(t) == \/ \E c \in Callers, b \in Blocks :
                    AllocateLarge(t, c, b) \/ PopNew(t, c, b) \/ PopOld(t, c, b)
               \/ CountReused(t) \/ CountUsed(t)
Release(t)  == \/ \E b \in Blocks : ReleaseLarge(t, b) \/ BeginRelease(t, b)
               \/ ClearHeader(t) \/ PushEntry(t) \/ CountUnused(t) \/ CountReserved(t)

MemoryNext == \E t \in Workers : Allocate(t) \/ Release(t)

MemorySpec == MemoryInit /\ [][MemoryNext]_memoryVars

-----------------------------------------------------------------------------
(* Properties *)

Calls == [at : {"none", "reused", "popped", "clear", "push", "pushed", "unused"},
          block : Blocks \cup {NoBlock}, pool : Pools \cup {NoCaller},
          by : Callers \cup {NoCaller}]

(* The variables have their types. *)
MemoryTypeOK ==
  /\ list \in [Pools -> SUBSET Blocks]
  /\ useCount \in [Pools -> Int]
  /\ reservedCount \in [Pools -> Int]
  /\ header \in [Blocks -> Nat]
  /\ capacity \in [Blocks -> Nat]
  /\ lent \in [Blocks -> Callers \cup {NoCaller}]
  /\ call \in [Workers -> Calls]
  /\ crashed \in BOOLEAN

(* Neither the assertion on a block of the free list nor the one on a block *)
(* that is released fires, when every block is released once and by the way *)
(* it came (MemoryPool::pop, Memory::Release).                              *)
AssertionsHold == ~crashed

(* Who asks for a size gets a block of that size at least, new or used,     *)
(* that is in nobody else's hands, and a block waits in the list of a pool  *)
(* of its own size: the size table, the headers and the ways back fit       *)
(* together (Memory::Memory, Allocate, Release, ObjectPool).                *)
RequestFits ==
  /\ TableFits
  /\ \A b \in Blocks : lent[b] # NoCaller =>
       /\ capacity[b] >= Asked(lent[b])
       /\ \A p \in Pools : b \notin list[p]
       /\ \A t \in Workers : call[t].at \in {"reused", "popped"} => call[t].block # b
  /\ \A p \in Pools : \A b \in list[p] : capacity[b] = PoolSize(p)

\* what a pool has in use: the blocks lent to its callers
LentTo(p) == {b \in Blocks : lent[b] # NoCaller /\ Pooled(lent[b]) /\ PoolOf(lent[b]) = p}

\* the threads that are at one of places in a call on a pool
At(p, places) == {t \in Workers : call[t].pool = p /\ call[t].at \in places}

(* The counters of a pool tell its blocks, up to the calls under way: what  *)
(* nobody is pushing or popping is counted once, free or in use             *)
(* (MemoryPool::Push, pop).                                                 *)
CountersSettle ==
  \A p \in Pools :
    /\ reservedCount[p] = Cardinality(list[p]) + Cardinality(At(p, {"reused"}))
                            - Cardinality(At(p, {"pushed", "unused"}))
    /\ useCount[p] = Cardinality(LentTo(p))
                       + Cardinality(At(p, {"clear", "push", "pushed"}))
=============================================================================
