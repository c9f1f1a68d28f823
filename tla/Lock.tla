-------------------------------- MODULE Lock --------------------------------
(***************************************************************************)
(* ServerCore's reader-writer spin lock (Lock.cpp) under the guards of     *)
(* Lock.h: one atomic word _lockFlag = owner's thread id << 16 | readers,  *)
(* and the plain uint16 _writeCount that counts the owner's nested write   *)
(* locks.  A thread may be preempted between any two accesses to either.   *)
(***************************************************************************)
EXTENDS Integers, Sequences, FiniteSets

CONSTANTS Threads,   \* the threads, each as its LThreadId
          Uses,      \* how classes use the lock they own: see use
          MaxDepth   \* bound: guards one thread holds at a time

\* LThreadId is 0 in a thread that ThreadManager did not launch; it counts
\* up from 1 in the others, and 16 bits of it fit in the word.
Width  == 65536
UInt16 == 0..(Width - 1)

ASSUME ThreadIds == Threads \subseteq UInt16
ASSUME KnownUses == Uses \subseteq {"write", "read", "both"}
ASSUME DepthBound == MaxDepth \in Nat

VARIABLES
  flag,        \* _lockFlag: its two halves
  writeCount,  \* _writeCount
  pc,          \* per thread: where its call on the lock stands
  expected,    \* per thread: the local of ReadLock
  hold,        \* per thread: the stack of its guards, "w" or "r"
  use,         \* which guards the class that owns the lock takes from outside
  crashed      \* why the process was CRASHed, or "no"

vars == <<flag, writeCount, pc, expected, hold, use, crashed>>

EMPTY_FLAG == [owner |-> 0, readers |-> 0]

Init == /\ flag       = EMPTY_FLAG
        /\ writeCount = 0
        /\ pc         = [t \in Threads |-> "idle"]
        /\ expected   = [t \in Threads |-> EMPTY_FLAG]
        /\ hold       = [t \in Threads |-> <<>>]
        /\ use        \in Uses
        /\ crashed    = "no"

Goto(t, l) == pc' = [pc EXCEPT ![t] = l]

Running(t, l) == crashed = "no" /\ pc[t] = l

Has(t, kind) == \E i \in 1..Len(hold[t]) : hold[t][i] = kind

Top(t) == hold[t][Len(hold[t])]

Pop(t) == hold' = [hold EXCEPT ![t] = SubSeq(@, 1, Len(@) - 1)]

MayNest(t) == Len(hold[t]) < MaxDepth

\* A class that takes write guards may still take a read guard inside one.
MayWrite(t) == MayNest(t) /\ use # "read"
MayRead(t)  == MayNest(t) /\ (use # "write" \/ Has(t, "w"))

-----------------------------------------------------------------------------
(* WriteLock *)

\* Mutant: the owner is not recognised by its id but by _writeCount > 0.
WriteLockByCount(t) ==
  /\ Running(t, "idle") /\ MayWrite(t)
  /\ Goto(t, IF writeCount > 0 THEN "wl_count" ELSE "wl_spin")
  /\ UNCHANGED <<flag, writeCount, expected, hold, crashed, use>>

\* the owner goes straight on, anybody else has to win the word
WriteLock(t) ==
  /\ Running(t, "idle") /\ MayWrite(t)
  /\ Goto(t, IF flag.owner = t THEN "wl_count" ELSE "wl_spin")
  /\ UNCHANGED <<flag, writeCount, expected, hold, crashed, use>>

\* compare_exchange_strong(EMPTY_FLAG, LThreadId << 16)
AcquireWrite(t) ==
  /\ Running(t, "wl_spin")
  /\ flag = EMPTY_FLAG
  /\ flag' = [owner |-> t, readers |-> 0]
  /\ Goto(t, "wl_count")
  /\ UNCHANGED <<writeCount, expected, hold, crashed, use>>

CountWrite(t) ==
  /\ Running(t, "wl_count")
  /\ writeCount' = (writeCount + 1) % Width
  /\ hold' = [hold EXCEPT ![t] = Append(@, "w")]
  /\ Goto(t, "idle")
  /\ UNCHANGED <<flag, expected, crashed, use>>

\* ten seconds of failed exchanges
WriteTimeout(t) ==
  /\ Running(t, "wl_spin")
  /\ flag # EMPTY_FLAG
  /\ crashed' = "LOCK_TIME_OUT_IN_WRITE"
  /\ UNCHANGED <<flag, writeCount, pc, expected, hold, use>>

-----------------------------------------------------------------------------
(* WriteUnlock *)

WriteUnlock(t) ==
  /\ Running(t, "idle")
  /\ hold[t] # <<>> /\ Top(t) = "w"
  /\ IF flag.readers # 0
       THEN /\ crashed' = "INVALID_UNLOCK_ORDER"
            /\ UNCHANGED <<pc, hold>>
       ELSE /\ Goto(t, "wu_count")
            /\ Pop(t)
            /\ UNCHANGED crashed
  /\ UNCHANGED <<flag, writeCount, expected, use>>

\* Mutant: an inner unlock is taken for the outermost one.
UncountWriteLate(t) ==
  /\ Running(t, "wu_count")
  /\ writeCount' = (writeCount - 1) % Width
  /\ Goto(t, IF writeCount' = 1 THEN "wu_store" ELSE "idle")
  /\ UNCHANGED <<flag, expected, hold, crashed, use>>

\* Mutant: _writeCount goes down, the word is never given back.
UncountWriteKeeps(t) ==
  /\ Running(t, "wu_count")
  /\ writeCount' = (writeCount - 1) % Width
  /\ Goto(t, "idle")
  /\ UNCHANGED <<flag, expected, hold, crashed, use>>

UncountWrite(t) ==
  /\ Running(t, "wu_count")
  /\ writeCount' = (writeCount - 1) % Width
  /\ Goto(t, IF writeCount' = 0 THEN "wu_store" ELSE "idle")
  /\ UNCHANGED <<flag, expected, hold, crashed, use>>

ReleaseWrite(t) ==
  /\ Running(t, "wu_store")
  /\ flag' = EMPTY_FLAG
  /\ Goto(t, "idle")
  /\ UNCHANGED <<writeCount, expected, hold, crashed, use>>

-----------------------------------------------------------------------------
(* ReadLock and ReadUnlock *)

ReadLock(t) ==
  /\ Running(t, "idle") /\ MayRead(t)
  /\ Goto(t, IF flag.owner = t THEN "rl_own" ELSE "rl_load")
  /\ UNCHANGED <<flag, writeCount, expected, hold, crashed, use>>

\* The word after fetch_add(1) and after fetch_sub(1)
Reads(n) == flag' = [flag EXCEPT !.readers = @ + n]

TakeRead(t) == /\ Reads(1)
               /\ hold' = [hold EXCEPT ![t] = Append(@, "r")]
               /\ Goto(t, "idle")
               /\ UNCHANGED <<writeCount, expected, crashed, use>>

ReadOwned(t) == Running(t, "rl_own") /\ TakeRead(t)

LoadExpected(t) ==
  /\ Running(t, "rl_load")
  /\ expected' = [expected EXCEPT ![t] = flag]
  /\ Goto(t, "rl_cas")
  /\ UNCHANGED <<flag, writeCount, hold, crashed, use>>

\* compare_exchange_strong(expected, expected + 1), whoever owns the word
AcquireRead(t) == Running(t, "rl_cas") /\ flag = expected[t] /\ TakeRead(t)

\* another turn of the loop, or the end of the ten seconds
AcquireReadFails(t) ==
  /\ Running(t, "rl_cas") /\ flag # expected[t]
  /\ \/ Goto(t, "rl_load") /\ UNCHANGED crashed
     \/ crashed' = "LOCK_TIMEOUT_IN_READ" /\ UNCHANGED pc
  /\ UNCHANGED <<flag, writeCount, expected, hold, use>>

ReadUnlock(t) ==
  /\ Running(t, "idle")
  /\ hold[t] # <<>> /\ Top(t) = "r"
  /\ IF flag.readers = 0
       THEN /\ crashed' = "MULTIPLE_UNLOCK"
            /\ UNCHANGED <<flag, hold>>
       ELSE /\ Reads(-1)
            /\ Pop(t)
            /\ UNCHANGED crashed
  /\ UNCHANGED <<writeCount, pc, expected, use>>

-----------------------------------------------------------------------------
WriteStep(t) == \/ WriteLock(t) \/ AcquireWrite(t) \/ CountWrite(t) \/ WriteTimeout(t)
                \/ WriteUnlock(t) \/ UncountWrite(t) \/ ReleaseWrite(t)
ReadStep(t) == \/ ReadLock(t) \/ ReadOwned(t) \/ LoadExpected(t) \/ AcquireRead(t)
               \/ AcquireReadFails(t) \/ ReadUnlock(t)

Next == \E t \in Threads : WriteStep(t) \/ ReadStep(t)

Spec == Init /\ [][Next]_vars

-----------------------------------------------------------------------------
(* Properties *)

(* The variables have their types.                                          *)
TypeOK ==
  /\ flag \in [owner : Threads \cup {0}, readers : Nat]
  /\ writeCount \in UInt16
  /\ pc \in [Threads -> {"idle", "wl_spin", "wl_count", "wu_count", "wu_store",
                         "rl_own", "rl_load", "rl_cas"}]
  /\ expected \in [Threads -> [owner : Threads \cup {0}, readers : Nat]]
  /\ hold \in [Threads -> Seq({"w", "r"})]
  /\ use \in Uses
  /\ crashed \in {"no", "LOCK_TIME_OUT_IN_WRITE", "LOCK_TIMEOUT_IN_READ",
                  "INVALID_UNLOCK_ORDER", "MULTIPLE_UNLOCK"}

(* While a thread holds a write guard, no other thread holds one            *)
(* (Lock.cpp:18 and :27: a write lock is had by the thread that owns the    *)
(* word, or by winning it when nobody does).                                *)
WritersExclusive ==
  \A t, u \in Threads : Has(t, "w") /\ Has(u, "w") => t = u

(* While a thread holds a write guard, no other thread gets a read guard    *)
(* (Lock.cpp:87: readers compete when nobody owns the lock).                *)
ReadersExcluded ==
  \A t, u \in Threads : Has(t, "w") /\ Has(u, "r") => t = u

(* _writeCount is a plain uint16: that is sound only if no two threads are  *)
(* ever about to change it, and whoever is owns the word (Lock.cpp:22, 38   *)
(* and 64).                                                                 *)
AtWriteCount(t) == pc[t] \in {"wl_count", "wu_count"}

WriteCountOwned ==
  \A t \in Threads :
    AtWriteCount(t) => flag.owner = t /\ \A u \in Threads : AtWriteCount(u) => u = t

Guards(kind) ==
  Cardinality({g \in Threads \X (1..MaxDepth) :
                 g[2] <= Len(hold[g[1]]) /\ hold[g[1]][g[2]] = kind})

\* The two unlock checks stop no program that nests its guards and takes no
\* write guard on top of its own read guard.
CrashOnlyOnMisuse ==
  /\ crashed # "MULTIPLE_UNLOCK"
  /\ crashed = "INVALID_UNLOCK_ORDER" =>
       \E t \in Threads : Has(t, "r") /\ Top(t) = "w"

(* Between calls the word and _writeCount say what is held: all write       *)
(* guards are counted, all read guards are, and the word has an owner only  *)
(* while there is a write guard, so that no lock is left taken              *)
(* (Lock.cpp:64-69 and the guards of Lock.h); and so the checks at          *)
(* Lock.cpp:58 and :116 crash only on the one misuse they are for.          *)
CountsMatch ==
  /\ (\A t \in Threads : pc[t] \notin {"wl_count", "wu_count", "wu_store"}) =>
       /\ flag.readers = Guards("r")
       /\ writeCount = Guards("w")
       /\ \A t \in Threads : flag.owner = t <=> Has(t, "w")
  /\ CrashOnlyOnMisuse

RW == INSTANCE ReadWriteLock WITH guards <- hold

(* The word, the plain counter and the two loops come to a lock that is     *)
(* taken and given back in one step each, at the end of WriteLock and       *)
(* ReadLock and at the start of WriteUnlock and ReadUnlock (Lock.cpp:12-126 *)
(* and the guards of Lock.h): classes may be reasoned about as if it were.  *)
ImplementsReadWriteLock == RW!ReadWriteSpec
=============================================================================
