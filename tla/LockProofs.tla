----------------------------- MODULE LockProofs -----------------------------
(***************************************************************************)
(* Proofs about Lock, for any set of launched threads (every LThreadId is  *)
(* positive), any use of the lock and any depth of nesting that the uint16 *)
(* _writeCount can count.                                                  *)
(***************************************************************************)
EXTENDS Lock, FiniteSetTheorems, SequenceTheorems, TLAPS

\* The threads of ThreadManager: InitTLS counts their ids up from 1.
Launched == 0 \notin Threads

\* The nesting that a uint16 can count.
Countable == MaxDepth \in UInt16

-----------------------------------------------------------------------------
(* A uint16 has room for something.                                         *)
LEMMA WidthNat == Width \in Nat /\ Width > 0
BY Z3 DEF Width

-----------------------------------------------------------------------------
(* Counting the write guards in a stack                                    *)

Places(s) == {i \in 1..Len(s) : s[i] = "w"}

Count(s) == Cardinality(Places(s))

Stacks == Seq({"w", "r"})

(* A stack has finitely many write guards, at most as many as guards.       *)
LEMMA CountType ==
  ASSUME NEW s \in Stacks
  PROVE  IsFiniteSet(Places(s)) /\ Count(s) \in Nat /\ Count(s) <= Len(s)
<1>1. Len(s) \in Nat
  BY DEF Stacks
<1>2. IsFiniteSet(1..Len(s)) /\ Cardinality(1..Len(s)) = Len(s)
  <2>1. 1 \in Int /\ Len(s) \in Int
    BY <1>1
  <2>2. /\ IsFiniteSet(1..Len(s))
        /\ Cardinality(1..Len(s)) = IF 1 > Len(s) THEN 0 ELSE Len(s) - 1 + 1
    BY <2>1, FS_Interval
  <2>3. QED
    BY <1>1, <2>2
<1>3. Places(s) \subseteq 1..Len(s)
  BY DEF Places
<1>4. QED
  BY <1>2, <1>3, FS_Subset, FS_CardinalityType DEF Count

(* A stack without write guards counts 0, and only such a stack does.       *)
LEMMA CountZero ==
  ASSUME NEW s \in Stacks
  PROVE  Count(s) = 0 <=> ~\E i \in 1..Len(s) : s[i] = "w"
BY CountType, FS_EmptySet DEF Count, Places

(* A guard pushed on the stack counts if it is a write guard.               *)
LEMMA CountAppend ==
  ASSUME NEW s \in Stacks, NEW g \in {"w", "r"}
  PROVE  Count(Append(s, g)) = Count(s) + (IF g = "w" THEN 1 ELSE 0)
<1>1. /\ Len(s) \in Nat /\ Len(Append(s, g)) = Len(s) + 1
      /\ \A i \in 1..Len(s) : Append(s, g)[i] = s[i]
      /\ Append(s, g)[Len(s) + 1] = g
  BY DEF Stacks
<1>2. CASE g = "w"
  <2>1. Places(Append(s, g)) = Places(s) \cup {Len(s) + 1} /\ Len(s) + 1 \notin Places(s)
    BY <1>1, <1>2 DEF Places
  <2>2. QED
    BY <1>2, <2>1, CountType, FS_AddElement DEF Count
<1>3. CASE g = "r"
  <2>1. Places(Append(s, g)) = Places(s)
    BY <1>1, <1>3 DEF Places
  <2>2. QED
    BY <1>3, <2>1, CountType DEF Count
<1>4. QED
  BY <1>2, <1>3

(* The stack without its top.                                               *)
LEMMA CountPop ==
  ASSUME NEW s \in Stacks, s # <<>>
  PROVE  /\ SubSeq(s, 1, Len(s) - 1) \in Stacks
         /\ Len(SubSeq(s, 1, Len(s) - 1)) = Len(s) - 1
         /\ Count(s) = Count(SubSeq(s, 1, Len(s) - 1))
                         + (IF s[Len(s)] = "w" THEN 1 ELSE 0)
<1> DEFINE r == SubSeq(s, 1, Len(s) - 1)
<1>1. /\ r \in Stacks /\ Len(r) = Len(s) - 1 /\ Len(s) \in Nat \ {0}
      /\ \A i \in 1..Len(r) : r[i] = s[i]
      /\ s[Len(s)] \in {"w", "r"}
  <2>1. Len(s) \in Nat \ {0} /\ Len(s) - 1 + 1 = Len(s)
    BY DEF Stacks
  <2>2. /\ Len(s) - 1 \in 1 - 1 .. Len(s)
        /\ \A i \in 1..(Len(s) - 1) : i \in 1..Len(s)
    BY <2>1
  <2>3. QED
    BY <2>1, <2>2, SubSeqProperties DEF Stacks
<1>2. r \in Stacks /\ Len(r) \in Nat /\ Len(s) = Len(r) + 1 /\ Len(s) \notin Places(r)
  BY <1>1 DEF Places
<1>3. CASE s[Len(s)] = "w"
  <2>1. Places(s) = Places(r) \cup {Len(s)}
    BY <1>1, <1>2, <1>3 DEF Places
  <2>2. QED
    BY <1>1, <1>2, <1>3, <2>1, CountType, FS_AddElement DEF Count
<1>4. CASE s[Len(s)] = "r"
  <2>1. Places(s) = Places(r)
    BY <1>1, <1>2, <1>4 DEF Places
  <2>2. QED
    BY <1>1, <1>4, <2>1, CountType DEF Count
<1>5. QED
  BY <1>1, <1>3, <1>4

-----------------------------------------------------------------------------
(* The inductive invariant.                                                *)

\* The steps at which a thread has the word, with or without a guard.
AtWrite(t) == pc[t] \in {"wl_count", "wu_count", "wu_store"}

\* Whoever holds or is taking or giving back a write guard owns the word.
Owning == \A t \in Threads : Has(t, "w") \/ AtWrite(t) => flag.owner = t

\* _writeCount counts the owner's write guards, and the one being given back.
Counting ==
  /\ \A t \in Threads :
       /\ flag.owner = t =>
            writeCount = Count(hold[t]) + (IF pc[t] = "wu_count" THEN 1 ELSE 0)
       /\ pc[t] = "wu_store" => writeCount = 0
  /\ flag.owner \notin Threads => writeCount = 0

\* A thread that waits for a guard or is about to have one has room for it.
Depth ==
  \A t \in Threads :
    /\ Len(hold[t]) <= MaxDepth
    /\ pc[t] \notin {"idle", "wu_store"} => Len(hold[t]) < MaxDepth

IInv == TypeOK /\ Owning /\ Counting /\ Depth

\* The initial states satisfy the invariant.
LEMMA InitInvariant == ASSUME Launched PROVE Init => IInv
<1> SUFFICES ASSUME Init PROVE IInv
  OBVIOUS
<1>1. TypeOK
  BY WidthNat DEF Init, TypeOK, EMPTY_FLAG, UInt16
<1>2. Owning /\ Depth
  BY DepthBound DEF Init, Owning, AtWrite, Has, Depth
<1>3. Counting
  BY DEF Init, Counting, Launched, EMPTY_FLAG
<1> QED
  BY <1>1, <1>2, <1>3 DEF IInv

(* One lemma per kind of step: first those that leave the word's owner,     *)
(* _writeCount and the stacks alone.                                        *)
LEMMA MoveInvariant ==
  ASSUME IInv, NEW t \in Threads,
         \/ WriteLock(t) \/ WriteTimeout(t)
         \/ ReadLock(t) \/ LoadExpected(t) \/ AcquireReadFails(t)
  PROVE  IInv'
<1> USE DEF IInv
<1>1. PICK l \in {"wl_spin", "wl_count", "rl_own", "rl_load", "rl_cas", pc[t]} :
        /\ pc' = [pc EXCEPT ![t] = l]
        /\ l = "wl_count" => flag.owner = t \/ pc[t] = l
        /\ l # pc[t] => pc[t] \notin {"wl_count", "wu_count", "wu_store"}
                          /\ (pc[t] = "idle" => MayNest(t))
        /\ UNCHANGED <<flag, writeCount, hold>>
  BY DEF WriteLock, WriteTimeout, ReadLock, LoadExpected, AcquireReadFails,
         Goto, Running, MayWrite, MayRead, TypeOK
<1>2. TypeOK'
  <2>1. pc[t] \in {"idle", "wl_spin", "wl_count", "wu_count", "wu_store",
                    "rl_own", "rl_load", "rl_cas"}
    BY DEF TypeOK
  <2>2. /\ expected' \in [Threads -> [owner : Threads \cup {0}, readers : Nat]]
        /\ crashed' \in {"no", "LOCK_TIME_OUT_IN_WRITE", "LOCK_TIMEOUT_IN_READ",
                         "INVALID_UNLOCK_ORDER", "MULTIPLE_UNLOCK"}
    <3>1. CASE LoadExpected(t)
      BY <3>1 DEF TypeOK, LoadExpected
    <3>2. CASE WriteLock(t) \/ ReadLock(t)
      BY <3>2 DEF TypeOK, WriteLock, ReadLock
    <3>3. CASE WriteTimeout(t) \/ AcquireReadFails(t)
      BY <3>3 DEF TypeOK, WriteTimeout, AcquireReadFails
    <3>4. QED
      BY <3>1, <3>2, <3>3
  <2>3. use' = use
    BY DEF WriteLock, WriteTimeout, ReadLock, LoadExpected, AcquireReadFails
  <2>4. pc' \in [Threads -> {"idle", "wl_spin", "wl_count", "wu_count", "wu_store",
                             "rl_own", "rl_load", "rl_cas"}]
    BY <1>1, <2>1 DEF TypeOK
  <2>5. UNCHANGED <<flag, writeCount, hold, use>>
    BY <1>1, <2>3
  <2>6. /\ flag' \in [owner : Threads \cup {0}, readers : Nat]
        /\ writeCount' \in UInt16
        /\ hold' \in [Threads -> Seq({"w", "r"})]
        /\ use' \in Uses
    BY <2>5 DEF TypeOK
  <2>7. QED
    BY <2>2, <2>4, <2>6 DEF TypeOK
<1>3. \A u \in Threads : pc'[u] = IF u = t THEN l ELSE pc[u]
  BY <1>1 DEF TypeOK
<1>4. Owning'
  BY <1>1, <1>3 DEF Owning, AtWrite, Has
<1>5. Counting'
  BY <1>1, <1>3 DEF Counting
<1>6. Depth'
  BY <1>1, <1>3 DEF Depth, MayNest
<1> QED
  BY <1>2, <1>4, <1>5, <1>6

\* A thread wins the empty word: nobody had a write guard.
LEMMA AcquireWriteInvariant ==
  ASSUME Launched, IInv, NEW t \in Threads, AcquireWrite(t)
  PROVE  IInv'
<1> USE DEF IInv
<1>0. /\ pc[t] = "wl_spin" /\ flag.owner \notin Threads
      /\ flag' = [owner |-> t, readers |-> 0]
      /\ pc' = [pc EXCEPT ![t] = "wl_count"]
      /\ UNCHANGED <<writeCount, expected, hold, crashed, use>>
  BY DEF AcquireWrite, Running, Goto, EMPTY_FLAG, Launched
<1>1. TypeOK'
  BY <1>0 DEF TypeOK
<1>2. \A u \in Threads : ~Has(u, "w") /\ ~AtWrite(u)
  BY <1>0 DEF Owning
<1>3. flag'.owner = t /\ \A u \in Threads : pc'[u] = IF u = t THEN "wl_count" ELSE pc[u]
  BY <1>0 DEF TypeOK
<1>4. Owning'
  BY <1>0, <1>2, <1>3 DEF Owning, Has, AtWrite
<1>5. Counting'
  <2>1. writeCount = 0
    BY <1>0 DEF Counting
  <2>2. Count(hold[t]) = 0
    BY <1>2, CountZero DEF Has, TypeOK, Stacks
  <2>3. \A u \in Threads : pc'[u] # "wu_store"
    BY <1>2, <1>3 DEF AtWrite
  <2>4. QED
    BY <1>0, <1>3, <2>1, <2>2, <2>3 DEF Counting
<1>6. Depth'
  BY <1>0, <1>3 DEF Depth
<1> QED
  BY <1>1, <1>4, <1>5, <1>6

\* The owner counts its new write guard.
LEMMA CountWriteInvariant ==
  ASSUME Countable, IInv, NEW t \in Threads, CountWrite(t)
  PROVE  IInv'
<1> USE DEF IInv
<1>0. /\ pc[t] = "wl_count" /\ flag.owner = t
      /\ writeCount' = (writeCount + 1) % Width
      /\ hold' = [hold EXCEPT ![t] = Append(@, "w")]
      /\ pc' = [pc EXCEPT ![t] = "idle"]
      /\ UNCHANGED <<flag, expected, crashed, use>>
  BY DEF CountWrite, Running, Goto, Owning, AtWrite
<1>1. hold[t] \in Stacks /\ Len(hold[t]) \in Nat /\ Len(hold[t]) < MaxDepth
  BY <1>0 DEF Depth, TypeOK, Stacks
<1>2. /\ \A u \in Threads : pc'[u] = IF u = t THEN "idle" ELSE pc[u]
      /\ \A u \in Threads : hold'[u] = IF u = t THEN Append(hold[t], "w") ELSE hold[u]
  BY <1>0 DEF TypeOK
<1>3. writeCount = Count(hold[t]) /\ Count(hold[t]) \in Nat /\ Count(hold[t]) < MaxDepth
  BY <1>0, <1>1, CountType, DepthBound DEF Counting
<1>4. writeCount' = writeCount + 1 /\ writeCount' \in UInt16
  <2>1. writeCount + 1 \in UInt16
    BY <1>3, WidthNat, DepthBound DEF Countable, UInt16
  <2>2. \A n \in UInt16 : n % Width = n
    BY WidthNat DEF UInt16
  <2>3. QED
    BY <1>0, <2>1, <2>2
<1>5. TypeOK'
  <2>1. hold' \in [Threads -> Seq({"w", "r"})]
    BY <1>0, <1>1 DEF TypeOK, Stacks
  <2>2. pc' \in [Threads -> {"idle", "wl_spin", "wl_count", "wu_count", "wu_store",
                             "rl_own", "rl_load", "rl_cas"}]
    BY <1>0 DEF TypeOK
  <2>3. QED
    BY <1>0, <1>4, <2>1, <2>2 DEF TypeOK
<1>6. Owning'
  BY <1>0, <1>2 DEF Owning, Has, AtWrite
<1>7. Counting'
  <2>1. Count(hold'[t]) = Count(hold[t]) + 1
    BY <1>1, <1>2, CountAppend
  <2>2. \A u \in Threads : u # t => flag.owner # u /\ pc[u] # "wu_store"
    BY <1>0 DEF Owning, AtWrite
  <2>3. QED
    BY <1>0, <1>2, <1>3, <1>4, <2>1, <2>2 DEF Counting
<1>8. Depth'
  <2>1. Len(hold'[t]) = Len(hold[t]) + 1
    <3>1. Len(Append(hold[t], "w")) = Len(hold[t]) + 1
      BY <1>1 DEF Stacks
    <3>2. QED
      BY <1>2, <3>1
  <2>2. QED
    BY <1>1, <1>2, <2>1, DepthBound DEF Depth
<1> QED
  BY <1>5, <1>6, <1>7, <1>8

\* The guard is gone from the stack, _writeCount still counts it.
LEMMA WriteUnlockInvariant ==
  ASSUME IInv, NEW t \in Threads, WriteUnlock(t)
  PROVE  IInv'
<1> USE DEF IInv
<1>1. CASE UNCHANGED <<flag, writeCount, pc, expected, hold, use>>
  <2>1. crashed' = "INVALID_UNLOCK_ORDER" \/ crashed' = crashed
    BY DEF WriteUnlock
  <2>2. TypeOK'
    BY <1>1, <2>1 DEF TypeOK
  <2>3. Owning' /\ Counting' /\ Depth'
    BY <1>1 DEF Owning, Has, AtWrite, Counting, Depth
  <2>4. QED
    BY <2>2, <2>3
<1>2. CASE /\ pc' = [pc EXCEPT ![t] = "wu_count"]
           /\ hold' = [hold EXCEPT ![t] = SubSeq(@, 1, Len(@) - 1)]
           /\ UNCHANGED <<flag, writeCount, expected, crashed, use>>
  <2> DEFINE r == SubSeq(hold[t], 1, Len(hold[t]) - 1)
  <2>1. /\ hold[t] \in Stacks /\ hold[t] # <<>> /\ pc[t] = "idle"
        /\ hold[t][Len(hold[t])] = "w" /\ Len(hold[t]) \in Nat \ {0}
    BY DEF WriteUnlock, Running, Top, TypeOK, Stacks
  <2>2. r \in Stacks /\ Len(r) = Len(hold[t]) - 1 /\ Count(hold[t]) = Count(r) + 1
    BY <2>1, CountPop
  <2>3. /\ \A u \in Threads : pc'[u] = IF u = t THEN "wu_count" ELSE pc[u]
        /\ \A u \in Threads : hold'[u] = IF u = t THEN r ELSE hold[u]
    BY <1>2 DEF TypeOK
  <2>4. flag.owner = t
    BY <2>1 DEF Owning, Has
  <2>5. TypeOK'
    <3>1. hold' \in [Threads -> Seq({"w", "r"})]
      BY <1>2, <2>2 DEF TypeOK, Stacks
    <3>2. pc' \in [Threads -> {"idle", "wl_spin", "wl_count", "wu_count", "wu_store",
                               "rl_own", "rl_load", "rl_cas"}]
      BY <1>2 DEF TypeOK
    <3>3. QED
      BY <1>2, <3>1, <3>2 DEF TypeOK
  <2>6. Owning'
    BY <1>2, <2>3, <2>4 DEF Owning, Has, AtWrite
  <2>7. Counting'
    <3>1. writeCount = Count(hold[t])
      BY <2>1, <2>4, CountType DEF Counting
    <3>2. \A u \in Threads : pc'[u] = "wu_store" => writeCount = 0
      BY <2>3 DEF Counting
    <3>3. \A u \in Threads : flag.owner = u => u = t
      BY <2>4
    <3>4. QED
      BY <1>2, <2>2, <2>3, <2>4, <3>1, <3>2, <3>3 DEF Counting
  <2>8. Depth'
    <3>1. /\ Len(hold'[t]) = Len(hold[t]) - 1 /\ Len(hold[t]) <= MaxDepth
          /\ \A u \in Threads : u # t => hold'[u] = hold[u] /\ pc'[u] = pc[u]
      BY <2>2, <2>3 DEF Depth
    <3>2. Len(hold'[t]) <= MaxDepth /\ Len(hold'[t]) < MaxDepth
      BY <2>1, <3>1, DepthBound
    <3>3. QED
      BY <3>1, <3>2 DEF Depth
  <2>9. QED
    BY <2>5, <2>6, <2>7, <2>8
<1>3. QED
  BY <1>1, <1>2 DEF WriteUnlock, Goto, Pop

\* The owner takes off the guard it has popped: 0 if it was the last.
LEMMA UncountWriteInvariant ==
  ASSUME IInv, NEW t \in Threads, UncountWrite(t)
  PROVE  IInv'
<1> USE DEF IInv
<1>0. PICK l \in {"wu_store", "idle"} :
      /\ pc[t] = "wu_count" /\ flag.owner = t
      /\ writeCount' = (writeCount - 1) % Width
      /\ l = "wu_store" <=> writeCount' = 0
      /\ pc' = [pc EXCEPT ![t] = l]
      /\ UNCHANGED <<flag, expected, hold, crashed, use>>
  BY DEF UncountWrite, Running, Goto, Owning, AtWrite
<1>1. hold[t] \in Stacks /\ Count(hold[t]) \in Nat /\ Len(hold[t]) \in Nat
  BY CountType DEF TypeOK, Stacks
<1>2. \A u \in Threads : pc'[u] = IF u = t THEN l ELSE pc[u]
  BY <1>0 DEF TypeOK
<1>3. writeCount = Count(hold[t]) + 1 /\ writeCount \in UInt16
  BY <1>0 DEF Counting, TypeOK
<1>4. writeCount' = Count(hold[t]) /\ writeCount' \in UInt16
  <2>1. writeCount - 1 = Count(hold[t]) /\ writeCount - 1 \in UInt16
    BY <1>1, <1>3, WidthNat DEF UInt16
  <2>2. \A n \in UInt16 : n % Width = n
    BY WidthNat DEF UInt16
  <2>3. QED
    BY <1>0, <2>1, <2>2
<1>5. TypeOK'
  <2>1. pc' \in [Threads -> {"idle", "wl_spin", "wl_count", "wu_count", "wu_store",
                             "rl_own", "rl_load", "rl_cas"}]
    BY <1>0 DEF TypeOK
  <2>2. QED
    BY <1>0, <1>4, <2>1 DEF TypeOK
<1>6. Owning'
  BY <1>0, <1>2 DEF Owning, Has, AtWrite
<1>7. Counting'
  <2>1. \A u \in Threads : u # t => flag.owner # u /\ pc[u] # "wu_store"
    BY <1>0 DEF Owning, AtWrite
  <2>2. l = "idle" => writeCount' = Count(hold'[t]) + 0
    BY <1>0, <1>1, <1>4
  <2>3. l = "wu_store" => writeCount' = 0 /\ writeCount' = Count(hold'[t]) + 0
    BY <1>0, <1>1, <1>4
  <2>4. QED
    BY <1>0, <1>2, <2>1, <2>2, <2>3 DEF Counting
<1>8. Depth'
  BY <1>0, <1>1, <1>2, DepthBound DEF Depth
<1> QED
  BY <1>5, <1>6, <1>7, <1>8

\* The owner gives the word back: it has no write guard left.
LEMMA ReleaseWriteInvariant ==
  ASSUME Launched, IInv, NEW t \in Threads, ReleaseWrite(t)
  PROVE  IInv'
<1> USE DEF IInv
<1>0. /\ pc[t] = "wu_store" /\ flag.owner = t /\ writeCount = 0
      /\ flag' = EMPTY_FLAG
      /\ pc' = [pc EXCEPT ![t] = "idle"]
      /\ UNCHANGED <<writeCount, expected, hold, crashed, use>>
  BY DEF ReleaseWrite, Running, Goto, Owning, AtWrite, Counting
<1>1. TypeOK'
  <2>1. flag' \in [owner : Threads \cup {0}, readers : Nat]
    BY <1>0 DEF EMPTY_FLAG
  <2>2. QED
    BY <1>0, <2>1 DEF TypeOK
<1>2. \A u \in Threads : pc'[u] = IF u = t THEN "idle" ELSE pc[u]
  BY <1>0 DEF TypeOK
<1>3. flag'.owner \notin Threads
  BY <1>0 DEF EMPTY_FLAG, Launched
<1>4. ~Has(t, "w")
  <2>1. hold[t] \in Stacks /\ Count(hold[t]) \in Nat
    BY CountType DEF TypeOK, Stacks
  <2>2. Count(hold[t]) + 0 = 0
    BY <1>0 DEF Counting
  <2>3. QED
    BY <2>1, <2>2, CountZero DEF Has
<1>5. Owning'
  <2>1. \A u \in Threads : u # t => ~Has(u, "w") /\ ~AtWrite(u)
    BY <1>0 DEF Owning
  <2>2. QED
    BY <1>0, <1>2, <1>4, <2>1 DEF Owning, Has, AtWrite
<1>6. Counting'
  BY <1>0, <1>2, <1>3 DEF Counting
<1>7. Depth'
  BY <1>0, <1>2 DEF Depth
<1> QED
  BY <1>1, <1>5, <1>6, <1>7

\* A read guard is no write guard: the stack counts the same.
LEMMA TakeReadInvariant ==
  ASSUME IInv, NEW t \in Threads, ReadOwned(t) \/ AcquireRead(t)
  PROVE  IInv'
<1> USE DEF IInv
<1>0. /\ pc[t] \in {"rl_own", "rl_cas"}
      /\ flag' = [flag EXCEPT !.readers = @ + 1]
      /\ hold' = [hold EXCEPT ![t] = Append(@, "r")]
      /\ pc' = [pc EXCEPT ![t] = "idle"]
      /\ UNCHANGED <<writeCount, expected, crashed, use>>
  BY DEF ReadOwned, AcquireRead, TakeRead, Reads, Running, Goto
<1>1. /\ hold[t] \in Stacks /\ Len(hold[t]) \in Nat
      /\ Append(hold[t], "r") \in Stacks
      /\ Len(Append(hold[t], "r")) = Len(hold[t]) + 1
  BY DEF TypeOK, Stacks
<1>2. /\ \A u \in Threads : pc'[u] = IF u = t THEN "idle" ELSE pc[u]
      /\ \A u \in Threads : hold'[u] = IF u = t THEN Append(hold[t], "r") ELSE hold[u]
  BY <1>0 DEF TypeOK
<1>3. flag'.owner = flag.owner /\ flag' \in [owner : Threads \cup {0}, readers : Nat]
  <2>1. flag \in [owner : Threads \cup {0}, readers : Nat]
    BY DEF TypeOK
  <2>2. flag' = [flag EXCEPT !.readers = @ + 1]
    BY <1>0
  <2>3. QED
    BY <2>1, <2>2
<1>4. Count(hold'[t]) = Count(hold[t])
  BY <1>1, <1>2, CountAppend, CountType
<1>5. TypeOK'
  <2>1. hold' \in [Threads -> Seq({"w", "r"})]
    BY <1>0, <1>1 DEF TypeOK, Stacks
  <2>2. pc' \in [Threads -> {"idle", "wl_spin", "wl_count", "wu_count", "wu_store",
                             "rl_own", "rl_load", "rl_cas"}]
    BY <1>0 DEF TypeOK
  <2>3. QED
    BY <1>0, <1>3, <2>1, <2>2 DEF TypeOK
<1>6. Owning'
  <2>1. Has(t, "w")' <=> Has(t, "w")
    <3>1. hold'[t] = Append(hold[t], "r") /\ Append(hold[t], "r") \in Stacks
      BY <1>1, <1>2
    <3>2. Has(t, "w")' <=> Count(hold'[t]) # 0
      BY <3>1, CountZero DEF Has
    <3>3. Has(t, "w") <=> Count(hold[t]) # 0
      BY <1>1, CountZero DEF Has
    <3>4. QED
      BY <1>4, <3>2, <3>3
  <2>2. \A u \in Threads : Has(u, "w")' <=> Has(u, "w")
    BY <1>2, <2>1 DEF Has
  <2>3. QED
    BY <1>0, <1>2, <1>3, <2>2 DEF Owning, AtWrite
<1>7. Counting'
  BY <1>0, <1>2, <1>3, <1>4 DEF Counting
<1>8. Depth'
  <2>1. Len(hold[t]) < MaxDepth
    BY <1>0 DEF Depth
  <2>2. Len(hold'[t]) <= MaxDepth /\ pc'[t] = "idle"
    <3>1. Len(hold'[t]) = Len(hold[t]) + 1
      BY <1>1, <1>2
    <3>2. QED
      BY <1>1, <1>2, <2>1, <3>1, DepthBound
  <2>3. QED
    BY <1>2, <2>2 DEF Depth
<1> QED
  BY <1>5, <1>6, <1>7, <1>8

\* The top guard is a read guard: without it the stack counts the same.
LEMMA ReadUnlockInvariant ==
  ASSUME IInv, NEW t \in Threads, ReadUnlock(t)
  PROVE  IInv'
<1> USE DEF IInv
<1>1. CASE UNCHANGED <<flag, hold>>
  <2>1. UNCHANGED <<flag, hold, writeCount, pc, expected, use>>
    BY <1>1 DEF ReadUnlock
  <2>2. crashed' = "MULTIPLE_UNLOCK" \/ crashed' = crashed
    BY DEF ReadUnlock
  <2>3. TypeOK'
    BY <2>1, <2>2 DEF TypeOK
  <2>4. Owning' /\ Counting' /\ Depth'
    BY <2>1 DEF Owning, Has, AtWrite, Counting, Depth
  <2>5. QED
    BY <2>3, <2>4
<1>2. CASE /\ flag' = [flag EXCEPT !.readers = @ + (-1)]
           /\ flag.readers # 0
           /\ hold' = [hold EXCEPT ![t] = SubSeq(@, 1, Len(@) - 1)]
           /\ UNCHANGED <<writeCount, pc, expected, crashed, use>>
  <2> DEFINE r == SubSeq(hold[t], 1, Len(hold[t]) - 1)
  <2>1. /\ hold[t] \in Stacks /\ hold[t] # <<>> /\ pc[t] = "idle"
        /\ hold[t][Len(hold[t])] = "r" /\ Len(hold[t]) \in Nat \ {0}
    BY DEF ReadUnlock, Running, Top, TypeOK, Stacks
  <2>2. r \in Stacks /\ Len(r) = Len(hold[t]) - 1 /\ Count(hold[t]) = Count(r)
    BY <2>1, CountPop, CountType
  <2>3. \A u \in Threads : hold'[u] = IF u = t THEN r ELSE hold[u]
    BY <1>2 DEF TypeOK
  <2>4. flag'.owner = flag.owner /\ flag' \in [owner : Threads \cup {0}, readers : Nat]
    BY <1>2 DEF TypeOK
  <2>5. TypeOK'
    <3>1. hold' \in [Threads -> Seq({"w", "r"})]
      BY <1>2, <2>2 DEF TypeOK, Stacks
    <3>2. QED
      BY <1>2, <2>4, <3>1 DEF TypeOK
  <2>6. Owning'
    <3>1. Has(t, "w")' => Has(t, "w")
      BY <2>1, <2>2, <2>3, CountZero DEF Has
    <3>2. \A u \in Threads : Has(u, "w")' => Has(u, "w")
      BY <2>3, <3>1 DEF Has
    <3>3. QED
      BY <1>2, <2>4, <3>2 DEF Owning, AtWrite
  <2>7. Counting'
    BY <1>2, <2>2, <2>3, <2>4 DEF Counting
  <2>8. Depth'
    <3>1. /\ Len(hold'[t]) = Len(hold[t]) - 1 /\ Len(hold[t]) <= MaxDepth
          /\ \A u \in Threads : u # t => hold'[u] = hold[u]
      BY <2>2, <2>3 DEF Depth
    <3>2. Len(hold'[t]) <= MaxDepth /\ Len(hold'[t]) < MaxDepth
      BY <2>1, <3>1, DepthBound
    <3>3. QED
      BY <1>2, <3>1, <3>2 DEF Depth
  <2>9. QED
    BY <2>5, <2>6, <2>7, <2>8
<1>3. QED
  BY <1>1, <1>2 DEF ReadUnlock, Reads, Pop

-----------------------------------------------------------------------------
(* The theorems                                                            *)

(* IInv is an invariant of a lock used by launched threads.                 *)
THEOREM Invariance == ASSUME Launched, Countable PROVE Spec => []IInv
<1>1. IInv /\ [Next]_vars => IInv'
  <2> SUFFICES ASSUME IInv, [Next]_vars PROVE IInv'
    OBVIOUS
  <2>1. ASSUME NEW t \in Threads, WriteStep(t) PROVE IInv'
    BY <2>1, MoveInvariant, AcquireWriteInvariant, CountWriteInvariant,
       WriteUnlockInvariant, UncountWriteInvariant, ReleaseWriteInvariant
    DEF WriteStep
  <2>2. ASSUME NEW t \in Threads, ReadStep(t) PROVE IInv'
    BY <2>2, MoveInvariant, TakeReadInvariant, ReadUnlockInvariant DEF ReadStep
  <2>3. CASE UNCHANGED vars
    <3> USE <2>3 DEF vars, IInv
    <3>1. TypeOK'
      BY DEF TypeOK
    <3>2. Owning' /\ Counting' /\ Depth'
      BY DEF Owning, Has, AtWrite, Counting, Depth
    <3>3. QED
      BY <3>1, <3>2
  <2>4. QED
    BY <2>1, <2>2, <2>3 DEF Next
<1>2. QED
  BY InitInvariant, <1>1, PTL DEF Spec

(* Whatever guards the threads nest, and although readers may enter beside  *)
(* a writer, no two threads hold write guards (Lock::WriteLock and          *)
(* WriteUnlock), if ThreadManager launched them all.                        *)
THEOREM MutualExclusion ==
  ASSUME Launched, Countable PROVE Spec => []WritersExclusive
<1>1. IInv => WritersExclusive
  BY DEF IInv, Owning, WritersExclusive
<1>2. QED
  BY Invariance, <1>1, PTL

(* The plain uint16 _writeCount is touched by one thread at a time, the     *)
(* owner of the word: there is no data race on it, and it never wraps.      *)
THEOREM NoRaceOnWriteCount ==
  ASSUME Launched, Countable PROVE Spec => []WriteCountOwned
<1>1. IInv => WriteCountOwned
  BY DEF IInv, Owning, WriteCountOwned, AtWriteCount, AtWrite
<1>2. QED
  BY Invariance, <1>1, PTL
-----------------------------------------------------------------------------
(* Counting the guards of all threads *)

\* The classes that own a lock take guards of one kind from outside.
OneKind == "both" \notin Uses

GuardSet(kind) == {g \in Threads \X (1..MaxDepth) :
                     g[2] <= Len(hold[g[1]]) /\ hold[g[1]][g[2]] = kind}

(* The guards there are can be counted: 16 bits number the threads.         *)
LEMMA GuardsFinite ==
  ASSUME NEW kind
  PROVE  IsFiniteSet(GuardSet(kind)) /\ Guards(kind) = Cardinality(GuardSet(kind))
         /\ Guards(kind) \in Nat
<1>1. IsFiniteSet(Threads)
  <2>1. 0 \in Int /\ Width - 1 \in Int
    BY WidthNat
  <2>2. IsFiniteSet(UInt16)
    BY <2>1, FS_Interval DEF UInt16
  <2> QED BY <2>2, ThreadIds, FS_Subset
<1>2. IsFiniteSet(1..MaxDepth)
  BY DepthBound, FS_Interval
<1>3. IsFiniteSet(Threads \X (1..MaxDepth))
  BY <1>1, <1>2, FS_Product
<1>4. IsFiniteSet(GuardSet(kind))
  BY <1>3, FS_Subset DEF GuardSet
<1>5. Guards(kind) = Cardinality(GuardSet(kind))
  BY DEF Guards, GuardSet
<1> QED BY <1>4, <1>5, FS_CardinalityType

(* No guard of a kind is counted only when no thread has one.               *)
LEMMA NoGuards ==
  ASSUME TypeOK, Depth, NEW kind
  PROVE  Guards(kind) = 0 <=> \A t \in Threads : ~Has(t, kind)
<1>1. Guards(kind) = 0 <=> GuardSet(kind) = {}
  BY GuardsFinite, FS_EmptySet
<1>2. ASSUME NEW t \in Threads, Has(t, kind) PROVE GuardSet(kind) # {}
  <2>1. PICK i \in 1..Len(hold[t]) : hold[t][i] = kind
    BY <1>2 DEF Has
  <2>2. Len(hold[t]) \in Nat /\ Len(hold[t]) <= MaxDepth
    BY DEF TypeOK, Depth
  <2>3. i \in 1..MaxDepth /\ i <= Len(hold[t])
    BY <2>2, DepthBound
  <2>4. <<t, i>> \in GuardSet(kind)
    BY <2>1, <2>3 DEF GuardSet
  <2> QED BY <2>4
<1>3. ASSUME NEW g \in GuardSet(kind) PROVE \E t \in Threads : Has(t, kind)
  <2>1. /\ g[1] \in Threads /\ g[2] \in 1..MaxDepth
        /\ g[2] <= Len(hold[g[1]]) /\ hold[g[1]][g[2]] = kind
    BY <1>3 DEF GuardSet
  <2>2. Len(hold[g[1]]) \in Nat
    BY <2>1 DEF TypeOK
  <2>3. g[2] \in 1..Len(hold[g[1]])
    BY <2>1, <2>2, DepthBound
  <2> QED BY <2>1, <2>3 DEF Has
<1> QED BY <1>1, <1>2, <1>3

(* A guard that is pushed is one more of its kind.                          *)
LEMMA GuardsPushed ==
  ASSUME TypeOK, NEW t \in Threads, NEW g \in {"w", "r"}, Len(hold[t]) < MaxDepth,
         hold' = [hold EXCEPT ![t] = Append(@, g)]
  PROVE  Guards("r")' = Guards("r") + (IF g = "r" THEN 1 ELSE 0)
<1>1. /\ hold[t] \in Stacks /\ Len(hold[t]) \in Nat
      /\ Append(hold[t], g) \in Stacks /\ Len(Append(hold[t], g)) = Len(hold[t]) + 1
      /\ \A i \in 1..Len(hold[t]) : Append(hold[t], g)[i] = hold[t][i]
      /\ Append(hold[t], g)[Len(hold[t]) + 1] = g
  BY DEF TypeOK, Stacks
<1>2. \A u \in Threads : hold'[u] = IF u = t THEN Append(hold[t], g) ELSE hold[u]
  BY DEF TypeOK
<1> DEFINE top == <<t, Len(hold[t]) + 1>>
<1>3. top \in Threads \X (1..MaxDepth) /\ top \notin GuardSet("r")
  BY <1>1, DepthBound DEF GuardSet
<1>4. ASSUME NEW u \in Threads, NEW i \in 1..MaxDepth
      PROVE  <<u, i>> \in GuardSet("r")' <=>
               <<u, i>> \in GuardSet("r") \/ (g = "r" /\ <<u, i>> = top)
  <2>1. CASE u # t
    BY <1>2, <2>1 DEF GuardSet
  <2>2. CASE u = t
    <3>1. hold'[u] = Append(hold[t], g)
      BY <1>2, <2>2
    <3>2. CASE i <= Len(hold[t])
      <4>1. i \in 1..Len(hold[t]) /\ i <= Len(hold'[u]) /\ i # Len(hold[t]) + 1
        BY <1>1, <3>1, <3>2
      <4> QED BY <1>1, <2>2, <3>1, <3>2, <4>1 DEF GuardSet
    <3>3. CASE i = Len(hold[t]) + 1
      <4>1. i <= Len(hold'[u]) /\ hold'[u][i] = g /\ ~(i <= Len(hold[t]))
        BY <1>1, <3>1, <3>3
      <4> QED BY <2>2, <3>3, <4>1 DEF GuardSet
    <3>4. CASE ~(i <= Len(hold[t])) /\ i # Len(hold[t]) + 1
      <4>1. ~(i <= Len(hold'[u])) /\ <<u, i>> # top
        BY <1>1, <3>1, <3>4
      <4> QED BY <2>2, <3>4, <4>1 DEF GuardSet
    <3> QED BY <3>2, <3>3, <3>4
  <2> QED BY <2>1, <2>2
<1>5. /\ GuardSet("r") \subseteq Threads \X (1..MaxDepth)
      /\ GuardSet("r")' \subseteq Threads \X (1..MaxDepth)
  BY DEF GuardSet
<1>6. GuardSet("r")' = IF g = "r" THEN GuardSet("r") \cup {top} ELSE GuardSet("r")
  <2> HIDE DEF top
  <2>1. \A p \in Threads \X (1..MaxDepth) :
          p \in GuardSet("r")' <=> p \in GuardSet("r") \/ (g = "r" /\ p = top)
    BY <1>4
  <2> QED BY <1>3, <1>5, <2>1
<1>7. Guards("r")' = Cardinality(GuardSet("r")')
  BY DEF Guards, GuardSet
<1> HIDE DEF top
<1>8. IsFiniteSet(GuardSet("r")) /\ Guards("r") = Cardinality(GuardSet("r"))
  BY GuardsFinite
<1>9. Cardinality(GuardSet("r") \cup {top}) = Cardinality(GuardSet("r")) + 1
  BY <1>3, <1>8, FS_AddElement
<1>10. Guards("r") \in Nat
  BY GuardsFinite
<1>11. PICK after : after = GuardSet("r")'
  OBVIOUS
<1>12. Cardinality(after) = Cardinality(GuardSet("r")) + (IF g = "r" THEN 1 ELSE 0)
  <2>1. CASE g = "r"
    BY <1>6, <1>9, <1>11, <2>1
  <2>2. CASE g # "r"
    <3>1. after = GuardSet("r")
      BY <1>6, <1>11, <2>2
    <3> QED BY <1>8, <1>10, <2>2, <3>1
  <2> QED BY <2>1, <2>2
<1> QED BY <1>7, <1>8, <1>11, <1>12

(* A guard that is popped is one less of its kind.                          *)
LEMMA GuardsPopped ==
  ASSUME TypeOK, Depth, NEW t \in Threads, hold[t] # <<>>,
         hold' = [hold EXCEPT ![t] = SubSeq(@, 1, Len(@) - 1)]
  PROVE  Guards("r")' = Guards("r") - (IF Top(t) = "r" THEN 1 ELSE 0)
<1> DEFINE s == SubSeq(hold[t], 1, Len(hold[t]) - 1)
<1>1. /\ hold[t] \in Stacks /\ Len(hold[t]) \in Nat \ {0} /\ Len(hold[t]) <= MaxDepth
      /\ s \in Stacks /\ Len(s) = Len(hold[t]) - 1
      /\ \A i \in 1..Len(s) : s[i] = hold[t][i]
  <2>1. hold[t] \in Stacks /\ Len(hold[t]) \in Nat \ {0} /\ Len(hold[t]) <= MaxDepth
    BY DEF TypeOK, Stacks, Depth
  <2>2. Len(hold[t]) - 1 \in 1 - 1 .. Len(hold[t])
        /\ \A i \in 1..(Len(hold[t]) - 1) : i \in 1..Len(hold[t])
    BY <2>1
  <2> QED BY <2>1, <2>2, SubSeqProperties DEF Stacks
<1>2. \A u \in Threads : hold'[u] = IF u = t THEN s ELSE hold[u]
  BY DEF TypeOK
<1> DEFINE top == <<t, Len(hold[t])>>
<1> HIDE DEF s
<1>3. top \in Threads \X (1..MaxDepth) /\ (top \in GuardSet("r") <=> Top(t) = "r")
  BY <1>1, DepthBound DEF GuardSet, Top
<1>4. ASSUME NEW u \in Threads, NEW i \in 1..MaxDepth
      PROVE  <<u, i>> \in GuardSet("r")' <=> <<u, i>> \in GuardSet("r") /\ <<u, i>> # top
  <2>1. CASE u # t
    BY <1>2, <2>1 DEF GuardSet
  <2>2. CASE u = t
    <3>1. hold'[u] = s
      BY <1>2, <2>2
    <3>2. CASE i <= Len(s)
      <4>1. i \in 1..Len(s) /\ i <= Len(hold[t]) /\ i # Len(hold[t])
        BY <1>1, <3>2
      <4> QED BY <1>1, <2>2, <3>1, <3>2, <4>1 DEF GuardSet
    <3>3. CASE ~(i <= Len(s))
      <4>1. i = Len(hold[t]) \/ ~(i <= Len(hold[t]))
        BY <1>1, <3>3
      <4> QED BY <2>2, <3>1, <3>3, <4>1 DEF GuardSet
    <3> QED BY <3>2, <3>3
  <2> QED BY <2>1, <2>2
<1>5. /\ GuardSet("r") \subseteq Threads \X (1..MaxDepth)
      /\ GuardSet("r")' \subseteq Threads \X (1..MaxDepth)
  BY DEF GuardSet
<1> HIDE DEF top
<1>6. GuardSet("r")' = GuardSet("r") \ {top}
  <2>1. \A p \in Threads \X (1..MaxDepth) :
          p \in GuardSet("r")' <=> p \in GuardSet("r") /\ p # top
    BY <1>4
  <2> QED BY <1>5, <2>1
<1>7. Guards("r")' = Cardinality(GuardSet("r")')
  BY DEF Guards, GuardSet
<1>8. IsFiniteSet(GuardSet("r")) /\ Guards("r") = Cardinality(GuardSet("r")) /\ Guards("r") \in Nat
  BY GuardsFinite
<1>9. Cardinality(GuardSet("r") \ {top}) =
        IF top \in GuardSet("r") THEN Cardinality(GuardSet("r")) - 1 ELSE Cardinality(GuardSet("r"))
  BY <1>8, FS_RemoveElement
<1>10. PICK after : after = GuardSet("r")'
  OBVIOUS
<1>11. Cardinality(after) = Cardinality(GuardSet("r")) - (IF Top(t) = "r" THEN 1 ELSE 0)
  <2>1. CASE Top(t) = "r"
    BY <1>3, <1>6, <1>9, <1>10, <2>1
  <2>2. CASE Top(t) # "r"
    <3>1. Cardinality(after) = Cardinality(GuardSet("r"))
      BY <1>3, <1>6, <1>9, <1>10, <2>2
    <3> QED BY <1>8, <2>2, <3>1
  <2> QED BY <2>1, <2>2
<1> QED BY <1>7, <1>8, <1>10, <1>11

(* The write guards of the one thread that has any.                         *)
LEMMA OwnersGuards ==
  ASSUME TypeOK, Depth, NEW t \in Threads, \A u \in Threads \ {t} : ~Has(u, "w")
  PROVE  Guards("w") = Count(hold[t])
<1>1. hold[t] \in Stacks /\ Len(hold[t]) \in Nat /\ Len(hold[t]) <= MaxDepth
  BY DEF TypeOK, Stacks, Depth
<1>2. ASSUME NEW u \in Threads, NEW i \in 1..MaxDepth
      PROVE  <<u, i>> \in GuardSet("w") <=> u = t /\ i \in Places(hold[t])
  <2>1. CASE u # t
    <3>1. Len(hold[u]) \in Nat
      BY DEF TypeOK
    <3>2. i <= Len(hold[u]) => i \in 1..Len(hold[u])
      BY <3>1, DepthBound
    <3> QED BY <2>1, <3>2 DEF GuardSet, Has
  <2>2. CASE u = t
    <3>1. i <= Len(hold[t]) <=> i \in 1..Len(hold[t])
      BY <1>1, DepthBound
    <3> QED BY <2>2, <3>1 DEF GuardSet, Places
  <2> QED BY <2>1, <2>2
<1>3. Places(hold[t]) \subseteq 1..MaxDepth
  BY <1>1, DepthBound DEF Places
<1>4. GuardSet("w") = {t} \X Places(hold[t])
  <2>1. GuardSet("w") \subseteq Threads \X (1..MaxDepth)
    BY DEF GuardSet
  <2> QED BY <1>2, <1>3, <2>1
<1>5. IsFiniteSet(Places(hold[t])) /\ Count(hold[t]) \in Nat
  BY <1>1, CountType
<1>6. Cardinality({t} \X Places(hold[t])) = 1 * Cardinality(Places(hold[t]))
  <2>1. IsFiniteSet({t}) /\ Cardinality({t}) = 1
    BY FS_Singleton
  <2>2. Cardinality({t} \X Places(hold[t])) = Cardinality({t}) * Cardinality(Places(hold[t]))
    BY <1>5, <2>1, FS_Product
  <2> QED BY <2>1, <2>2
<1> QED BY <1>4, <1>5, <1>6, GuardsFinite DEF Count
-----------------------------------------------------------------------------
(* The invariant behind CountsMatch.                                       *)

WritePcs == {"wl_spin", "wl_count", "wu_count", "wu_store"}
ReadPcs  == {"rl_own", "rl_load", "rl_cas"}

\* The word counts the read guards at every step.
ReadersCounted == flag.readers = Guards("r")

\* Whoever owns the word holds, takes or gives back a write guard.
OwnerBusy == \A t \in Threads : flag.owner = t => Has(t, "w") \/ AtWrite(t)

\* A class that takes read guards takes no others; one that takes write
\* guards has one below all its others.
Nesting ==
  \A t \in Threads :
    /\ use = "read" => ~Has(t, "w") /\ pc[t] \notin WritePcs
    /\ use = "write" => /\ hold[t] # <<>> => hold[t][1] = "w"
                        /\ pc[t] \in ReadPcs => hold[t] # <<>>

\* Nobody has a read guard while a write guard is given back.
NoReaders == \A t \in Threads : pc[t] \in {"wu_count", "wu_store"} => flag.readers = 0

Settled == ReadersCounted /\ OwnerBusy /\ Nesting /\ NoReaders /\ CrashOnlyOnMisuse

(* Under a class that takes write guards, only the owner has any guard.     *)
LEMMA OnlyOwner ==
  ASSUME IInv, Nesting, use = "write", NEW t \in Threads,
         hold[t] # <<>> \/ pc[t] \in ReadPcs
  PROVE  Has(t, "w") /\ flag.owner = t
<1>1. hold[t] # <<>> /\ hold[t][1] = "w"
  BY DEF Nesting
<1>2. hold[t] \in Stacks /\ Len(hold[t]) \in Nat \ {0}
  BY <1>1 DEF IInv, TypeOK, Stacks
<1>3. 1 \in 1..Len(hold[t])
  BY <1>2
<1> QED BY <1>1, <1>3 DEF Has, IInv, Owning

(* What a stack without its top still has.                                  *)
LEMMA LeftOver ==
  ASSUME NEW s \in Stacks, s # <<>>
  PROVE  LET r == SubSeq(s, 1, Len(s) - 1)
         IN  /\ r \in Stacks /\ Len(r) = Len(s) - 1
             /\ \A i \in 1..Len(r) : r[i] = s[i]
             /\ r # <<>> => r[1] = s[1]
<1> DEFINE r == SubSeq(s, 1, Len(s) - 1)
<1>1. Len(s) \in Nat \ {0} /\ Len(s) - 1 + 1 = Len(s)
  BY DEF Stacks
<1>2. Len(s) - 1 \in 1 - 1 .. Len(s) /\ \A i \in 1..(Len(s) - 1) : i \in 1..Len(s)
  BY <1>1
<1>3. r \in Stacks /\ Len(r) = Len(s) - 1 /\ \A i \in 1..Len(r) : r[i] = s[i]
  BY <1>1, <1>2, SubSeqProperties DEF Stacks
<1> HIDE DEF r
<1>4. r # <<>> => 1 \in 1..Len(r)
  BY <1>3 DEF Stacks
<1> QED BY <1>3, <1>4 DEF r

(* In the beginning nothing is held.                                        *)
LEMMA InitSettled == ASSUME Launched PROVE Init => Settled
<1> SUFFICES ASSUME Init PROVE Settled
  OBVIOUS
<1>1. IInv
  BY InitInvariant
<1>2. \A t \in Threads : hold[t] = <<>> /\ pc[t] = "idle"
  BY DEF Init
<1>3. \A t \in Threads : \A kind : ~Has(t, kind)
  BY <1>2 DEF Has
<1>4. Guards("r") = 0
  BY <1>1, <1>3, NoGuards DEF IInv
<1>5. flag.readers = 0 /\ flag.owner = 0 /\ crashed = "no"
  BY DEF Init, EMPTY_FLAG
<1> QED BY <1>2, <1>3, <1>4, <1>5 DEF Settled, ReadersCounted, OwnerBusy, Nesting, NoReaders,
           CrashOnlyOnMisuse, WritePcs, ReadPcs, Launched

(* The steps that change neither the word nor the stacks.                   *)
LEMMA MoveSettled ==
  ASSUME OneKind, IInv, Settled, NEW t \in Threads,
         \/ WriteLock(t) \/ WriteTimeout(t)
         \/ ReadLock(t) \/ LoadExpected(t) \/ AcquireReadFails(t)
  PROVE  Settled'
<1>1. UNCHANGED <<flag, hold, use>>
  BY DEF WriteLock, WriteTimeout, ReadLock, LoadExpected, AcquireReadFails
<1>2. PICK l : /\ \A u \in Threads : pc'[u] = IF u = t THEN l ELSE pc[u]
               /\ \/ l = pc[t]
                  \/ pc[t] = "idle" /\ l \in {"wl_count", "wl_spin"} /\ use # "read"
                  \/ pc[t] = "idle" /\ l \in {"rl_own", "rl_load"} /\ (use # "write" \/ Has(t, "w"))
                  \/ pc[t] \in {"rl_load", "rl_cas"} /\ l \in {"rl_load", "rl_cas"}
  <2>1. CASE WriteLock(t)
    BY <2>1 DEF WriteLock, Running, MayWrite, Goto, IInv, TypeOK
  <2>2. CASE WriteTimeout(t)
    BY <2>2 DEF WriteTimeout
  <2>3. CASE ReadLock(t)
    BY <2>3 DEF ReadLock, Running, MayRead, Goto, IInv, TypeOK
  <2>4. CASE LoadExpected(t)
    BY <2>4 DEF LoadExpected, Running, Goto, IInv, TypeOK
  <2>5. CASE AcquireReadFails(t)
    BY <2>5 DEF AcquireReadFails, Running, Goto, IInv, TypeOK
  <2> QED BY <2>1, <2>2, <2>3, <2>4, <2>5
<1>3. ReadersCounted'
  BY <1>1 DEF Settled, ReadersCounted, Guards
<1>4. \A u \in Threads : \A kind : Has(u, kind)' <=> Has(u, kind)
  BY <1>1 DEF Has
<1>5. OwnerBusy'
  BY <1>1, <1>2, <1>4 DEF Settled, OwnerBusy, AtWrite
<1>6. Nesting'
  <2>1. ASSUME Has(t, "w") PROVE hold[t] # <<>>
    BY <2>1 DEF Has
  <2> QED BY <1>1, <1>2, <1>4, <2>1 DEF Settled, Nesting, WritePcs, ReadPcs
<1>7. NoReaders'
  BY <1>1, <1>2 DEF Settled, NoReaders
<1>8. CrashOnlyOnMisuse'
  <2>1. crashed' \in {crashed, "LOCK_TIME_OUT_IN_WRITE", "LOCK_TIMEOUT_IN_READ"}
    BY DEF WriteLock, WriteTimeout, ReadLock, LoadExpected, AcquireReadFails
  <2> QED BY <1>1, <1>4, <2>1 DEF Settled, CrashOnlyOnMisuse, Top
<1> QED BY <1>3, <1>5, <1>6, <1>7, <1>8 DEF Settled

(* The empty word is won: nobody reads.                                     *)
LEMMA AcquireWriteSettled ==
  ASSUME IInv, Settled, NEW t \in Threads, AcquireWrite(t)
  PROVE  Settled'
<1>1. /\ pc[t] = "wl_spin" /\ flag.readers = 0 /\ flag'.owner = t /\ flag'.readers = 0
      /\ crashed' = "no" /\ UNCHANGED <<hold, use>>
  BY DEF AcquireWrite, Running, EMPTY_FLAG
<1>2. \A u \in Threads : pc'[u] = IF u = t THEN "wl_count" ELSE pc[u]
  BY DEF AcquireWrite, Goto, IInv, TypeOK
<1>3. \A u \in Threads : \A kind : Has(u, kind)' <=> Has(u, kind)
  BY <1>1 DEF Has
<1>4. ReadersCounted'
  BY <1>1 DEF Settled, ReadersCounted, Guards
<1>5. OwnerBusy'
  BY <1>1, <1>2 DEF OwnerBusy, AtWrite
<1>6. Nesting'
  BY <1>1, <1>2, <1>3 DEF Settled, Nesting, WritePcs, ReadPcs
<1>7. NoReaders' /\ CrashOnlyOnMisuse'
  BY <1>1, <1>2 DEF NoReaders, CrashOnlyOnMisuse
<1> QED BY <1>4, <1>5, <1>6, <1>7 DEF Settled

(* The owner has a guard more.                                              *)
LEMMA CountWriteSettled ==
  ASSUME IInv, Settled, NEW t \in Threads, CountWrite(t)
  PROVE  Settled'
<1>1. /\ pc[t] = "wl_count" /\ crashed' = "no" /\ UNCHANGED <<flag, use>>
      /\ hold' = [hold EXCEPT ![t] = Append(@, "w")]
  BY DEF CountWrite, Running
<1>2. hold[t] \in Stacks /\ Len(hold[t]) \in Nat /\ Len(hold[t]) < MaxDepth
  <2>1. Len(hold[t]) < MaxDepth
    BY <1>1 DEF IInv, Depth
  <2>2. hold[t] \in Stacks /\ Len(hold[t]) \in Nat
    BY DEF IInv, TypeOK, Stacks
  <2> QED BY <2>1, <2>2
<1>3. /\ \A u \in Threads : pc'[u] = IF u = t THEN "idle" ELSE pc[u]
      /\ \A u \in Threads : hold'[u] = IF u = t THEN Append(hold[t], "w") ELSE hold[u]
  BY <1>1 DEF CountWrite, Goto, IInv, TypeOK
<1>4. /\ Append(hold[t], "w") # <<>> /\ Append(hold[t], "w")[Len(hold[t]) + 1] = "w"
      /\ hold[t] # <<>> => Append(hold[t], "w")[1] = hold[t][1]
      /\ hold[t] = <<>> => Append(hold[t], "w")[1] = "w"
      /\ Len(Append(hold[t], "w")) = Len(hold[t]) + 1
  BY <1>2 DEF Stacks
<1>5. ReadersCounted'
  <2>1. Guards("r")' = Guards("r")
    <3>1. Guards("r")' = Guards("r") + 0
      BY <1>1, <1>2, GuardsPushed DEF IInv
    <3> QED BY <3>1, GuardsFinite
  <2> QED BY <1>1, <2>1 DEF Settled, ReadersCounted
<1>6. Has(t, "w")'
  <2>0. Len(hold'[t]) = Len(hold[t]) + 1
    BY <1>3, <1>4
  <2>1. Len(hold[t]) + 1 \in 1..Len(hold'[t])
    BY <1>2, <2>0
  <2>2. hold'[t][Len(hold[t]) + 1] = "w"
    BY <1>3, <1>4
  <2> QED BY <2>1, <2>2 DEF Has
<1>7. \A u \in Threads \ {t} : Has(u, "w")' <=> Has(u, "w")
  BY <1>3 DEF Has
<1>8. OwnerBusy'
  BY <1>1, <1>3, <1>6, <1>7 DEF Settled, OwnerBusy, AtWrite
<1>9. Nesting'
  <2>1. use # "read"
    BY <1>1 DEF Settled, Nesting, WritePcs
  <2>2. use = "write" => /\ \A u \in Threads : hold'[u] # <<>> => hold'[u][1] = "w"
                         /\ \A u \in Threads : pc'[u] \in ReadPcs => hold'[u] # <<>>
    BY <1>3, <1>4 DEF Settled, Nesting, ReadPcs
  <2> QED BY <1>1, <2>1, <2>2 DEF Nesting
<1>10. NoReaders' /\ CrashOnlyOnMisuse'
  BY <1>1, <1>3 DEF Settled, NoReaders, CrashOnlyOnMisuse
<1> QED BY <1>5, <1>8, <1>9, <1>10 DEF Settled
(* The owner pops a write guard, and nobody reads; it crashes when it reads *)
(* itself below that guard.                                                 *)
LEMMA WriteUnlockSettled ==
  ASSUME OneKind, IInv, Settled, NEW t \in Threads, WriteUnlock(t)
  PROVE  Settled'
<1>1. /\ pc[t] = "idle" /\ crashed = "no" /\ hold[t] # <<>> /\ Top(t) = "w"
      /\ UNCHANGED <<flag, use>> /\ hold[t] \in Stacks
  BY DEF WriteUnlock, Running, IInv, TypeOK, Stacks
<1>2. Has(t, "w")
  <2>1. Len(hold[t]) \in 1..Len(hold[t])
    BY <1>1 DEF Stacks
  <2> QED BY <1>1, <2>1 DEF Has, Top
<1>3. flag.owner = t /\ use = "write"
  <2>1. use # "read"
    BY <1>2 DEF Settled, Nesting
  <2>2. use \in {"write", "read"}
    BY KnownUses DEF IInv, TypeOK, OneKind
  <2> QED BY <1>2, <2>1, <2>2 DEF IInv, Owning
<1>4. \A u \in Threads : hold[u] # <<>> => u = t
  BY <1>3, OnlyOwner DEF Settled
<1>5. CASE flag.readers # 0
  <2>1. crashed' = "INVALID_UNLOCK_ORDER" /\ UNCHANGED <<pc, hold>>
    BY <1>5 DEF WriteUnlock
  <2>2. Has(t, "r")
    <3>1. Guards("r") # 0
      BY <1>5 DEF Settled, ReadersCounted
    <3>2. PICK u \in Threads : Has(u, "r")
      BY <3>1, NoGuards DEF IInv
    <3>3. hold[u] # <<>>
      BY <3>2 DEF Has
    <3> QED BY <1>4, <3>2, <3>3
  <2>3. \A u \in Threads : \A kind : Has(u, kind)' <=> Has(u, kind)
    BY <2>1 DEF Has
  <2>4. ReadersCounted'
    BY <1>1, <2>1 DEF Settled, ReadersCounted, Guards
  <2>5. OwnerBusy' /\ Nesting' /\ NoReaders'
    BY <1>1, <2>1, <2>3 DEF Settled, OwnerBusy, Nesting, NoReaders, AtWrite
  <2>6. CrashOnlyOnMisuse'
    BY <1>1, <2>1, <2>2, <2>3 DEF CrashOnlyOnMisuse, Top
  <2> QED BY <2>4, <2>5, <2>6 DEF Settled
<1>6. CASE flag.readers = 0
  <2> DEFINE r == SubSeq(hold[t], 1, Len(hold[t]) - 1)
  <2>1. /\ crashed' = "no" /\ hold' = [hold EXCEPT ![t] = SubSeq(@, 1, Len(@) - 1)]
        /\ pc' = [pc EXCEPT ![t] = "wu_count"]
    BY <1>1, <1>6 DEF WriteUnlock, Goto, Pop
  <2>2. /\ \A u \in Threads : pc'[u] = IF u = t THEN "wu_count" ELSE pc[u]
        /\ \A u \in Threads : hold'[u] = IF u = t THEN r ELSE hold[u]
    BY <2>1 DEF IInv, TypeOK
  <2>3. r \in Stacks /\ (r # <<>> => r[1] = hold[t][1])
    BY <1>1, LeftOver
  <2> HIDE DEF r
  <2>4. ReadersCounted'
    <3>1. Guards("r")' = Guards("r") - 0
      BY <1>1, <2>1, GuardsPopped DEF IInv
    <3>2. Guards("r")' = Guards("r")
      BY <3>1, GuardsFinite
    <3> QED BY <1>1, <3>2 DEF Settled, ReadersCounted
  <2>5. OwnerBusy'
    BY <1>1, <1>3, <2>2 DEF OwnerBusy, AtWrite
  <2>6. Nesting'
    <3>0. hold[t][1] = "w" /\ \A u \in Threads : hold[u] # <<>> => hold[u][1] = "w"
      BY <1>1, <1>3 DEF Settled, Nesting
    <3>1. \A u \in Threads : hold'[u] # <<>> => hold'[u][1] = "w"
      BY <2>2, <2>3, <3>0
    <3>2. \A u \in Threads : pc'[u] \in ReadPcs => hold'[u] # <<>>
      BY <1>3, <2>2 DEF Settled, Nesting, ReadPcs
    <3> QED BY <1>1, <1>3, <3>1, <3>2 DEF Nesting
  <2>7. NoReaders' /\ CrashOnlyOnMisuse'
    BY <1>1, <1>6, <2>1 DEF NoReaders, CrashOnlyOnMisuse
  <2> QED BY <2>4, <2>5, <2>6, <2>7 DEF Settled
<1> QED BY <1>5, <1>6

(* The owner has write guards left, or gives the word back.                 *)
LEMMA UncountWriteSettled ==
  ASSUME IInv, Settled, NEW t \in Threads, UncountWrite(t)
  PROVE  Settled'
<1>1. PICK l \in {"wu_store", "idle"} :
      /\ pc[t] = "wu_count" /\ crashed' = "no" /\ UNCHANGED <<flag, hold, use>>
      /\ l = "wu_store" <=> writeCount' = 0
      /\ \A u \in Threads : pc'[u] = IF u = t THEN l ELSE pc[u]
  BY DEF UncountWrite, Running, Goto, IInv, TypeOK
<1>2. \A u \in Threads : \A kind : Has(u, kind)' <=> Has(u, kind)
  BY <1>1 DEF Has
<1>3. flag.owner = t /\ flag'.owner = t
  BY <1>1 DEF IInv, Owning, AtWrite
<1>4. l = "idle" => Has(t, "w")
  <2>1. IInv'
    BY UncountWriteInvariant
  <2>2. writeCount' = Count(hold'[t]) + (IF pc'[t] = "wu_count" THEN 1 ELSE 0)
    BY <1>3, <2>1 DEF IInv, Counting
  <2>3. hold[t] \in Stacks /\ Count(hold[t]) \in Nat
    BY CountType DEF IInv, TypeOK, Stacks
  <2>4. writeCount' = Count(hold[t])
    BY <1>1, <2>2, <2>3
  <2> QED BY <1>1, <2>3, <2>4, CountZero DEF Has
<1>5. ReadersCounted'
  BY <1>1 DEF Settled, ReadersCounted, Guards
<1>6. OwnerBusy'
  BY <1>1, <1>2, <1>3, <1>4 DEF OwnerBusy, AtWrite
<1>7. Nesting'
  BY <1>1, <1>2 DEF Settled, Nesting, WritePcs, ReadPcs
<1>8. NoReaders' /\ CrashOnlyOnMisuse'
  BY <1>1 DEF Settled, NoReaders, CrashOnlyOnMisuse
<1> QED BY <1>5, <1>6, <1>7, <1>8 DEF Settled

(* The word is emptied: nobody reads.                                       *)
LEMMA ReleaseWriteSettled ==
  ASSUME Launched, IInv, Settled, NEW t \in Threads, ReleaseWrite(t)
  PROVE  Settled'
<1>1. /\ pc[t] = "wu_store" /\ crashed' = "no" /\ UNCHANGED <<hold, use>>
      /\ flag'.owner = 0 /\ flag'.readers = 0
      /\ \A u \in Threads : pc'[u] = IF u = t THEN "idle" ELSE pc[u]
  BY DEF ReleaseWrite, Running, Goto, EMPTY_FLAG, IInv, TypeOK
<1>2. \A u \in Threads : \A kind : Has(u, kind)' <=> Has(u, kind)
  BY <1>1 DEF Has
<1>3. flag.readers = 0
  BY <1>1 DEF Settled, NoReaders
<1>4. ReadersCounted'
  BY <1>1, <1>3 DEF Settled, ReadersCounted, Guards
<1>5. OwnerBusy'
  BY <1>1 DEF OwnerBusy, Launched
<1>6. Nesting'
  BY <1>1, <1>2 DEF Settled, Nesting, WritePcs, ReadPcs
<1>7. NoReaders' /\ CrashOnlyOnMisuse'
  BY <1>1 DEF NoReaders, CrashOnlyOnMisuse
<1> QED BY <1>4, <1>5, <1>6, <1>7 DEF Settled

(* A read guard is taken: by the owner, or in a class that takes no others. *)
LEMMA TakeReadSettled ==
  ASSUME OneKind, IInv, Settled, NEW t \in Threads, ReadOwned(t) \/ AcquireRead(t)
  PROVE  Settled'
<1>1. /\ pc[t] \in ReadPcs /\ crashed' = "no" /\ use' = use
      /\ flag' = [flag EXCEPT !.readers = @ + 1]
      /\ hold' = [hold EXCEPT ![t] = Append(@, "r")]
  BY DEF ReadOwned, AcquireRead, TakeRead, Reads, Running, ReadPcs
<1>2. hold[t] \in Stacks /\ Len(hold[t]) \in Nat /\ Len(hold[t]) < MaxDepth
  <2>1. Len(hold[t]) < MaxDepth
    BY <1>1 DEF IInv, Depth, ReadPcs
  <2>2. hold[t] \in Stacks /\ Len(hold[t]) \in Nat
    BY DEF IInv, TypeOK, Stacks
  <2> QED BY <2>1, <2>2
<1>3. /\ \A u \in Threads : pc'[u] = IF u = t THEN "idle" ELSE pc[u]
      /\ \A u \in Threads : hold'[u] = IF u = t THEN Append(hold[t], "r") ELSE hold[u]
  BY <1>1 DEF ReadOwned, AcquireRead, TakeRead, Goto, IInv, TypeOK
<1>4. flag'.owner = flag.owner /\ flag'.readers = flag.readers + 1
  BY <1>1 DEF IInv, TypeOK
<1>5. /\ Append(hold[t], "r") \in Stacks
      /\ Append(hold[t], "r") # <<>>
      /\ hold[t] # <<>> => Append(hold[t], "r")[1] = hold[t][1]
  <2>1. \A s \in Stacks : Append(s, "r") \in Stacks
    BY DEF Stacks
  <2>2. \A s \in Stacks : Append(s, "r") # <<>> /\ (s # <<>> => Append(s, "r")[1] = s[1])
    <3> TAKE s \in Stacks
    <3>1. /\ Len(s) \in Nat /\ Len(Append(s, "r")) = Len(s) + 1
          /\ \A i \in 1..Len(s) : Append(s, "r")[i] = s[i]
      BY DEF Stacks
    <3>2. s # <<>> => 1 \in 1..Len(s)
      BY DEF Stacks
    <3>3. Append(s, "r") # <<>>
      BY <3>1
    <3> QED BY <3>1, <3>2, <3>3
  <2> QED BY <1>2, <2>1, <2>2
<1>6. \A u \in Threads : Has(u, "w")' <=> Has(u, "w")
  <2>1. Has(t, "w")' <=> Has(t, "w")
    <3>1. Count(Append(hold[t], "r")) = Count(hold[t])
      BY <1>2, CountAppend, CountType
    <3>2. Has(t, "w")' <=> Count(Append(hold[t], "r")) # 0
      BY <1>3, <1>5, CountZero DEF Has
    <3>3. Has(t, "w") <=> Count(hold[t]) # 0
      BY <1>2, CountZero DEF Has
    <3> QED BY <3>1, <3>2, <3>3
  <2> QED BY <1>3, <2>1 DEF Has
<1>7. ReadersCounted'
  <2>1. Guards("r")' = Guards("r") + 1
    BY <1>1, <1>2, GuardsPushed DEF IInv
  <2> QED BY <1>4, <2>1 DEF Settled, ReadersCounted
<1>8. OwnerBusy'
  BY <1>1, <1>3, <1>4, <1>6 DEF Settled, OwnerBusy, AtWrite, ReadPcs
<1>9. Nesting'
  <2>1. use = "write" => hold[t] # <<>>
    BY <1>1 DEF Settled, Nesting
  <2>2. use = "write" => /\ \A u \in Threads : hold'[u] # <<>> => hold'[u][1] = "w"
                         /\ \A u \in Threads : pc'[u] \in ReadPcs => hold'[u] # <<>>
    BY <1>3, <1>5, <2>1 DEF Settled, Nesting, ReadPcs
  <2>3. use = "read" => \A u \in Threads : ~Has(u, "w")' /\ pc'[u] \notin WritePcs
    BY <1>3, <1>6 DEF Settled, Nesting, WritePcs
  <2> QED BY <1>1, <2>2, <2>3 DEF Nesting
<1>10. NoReaders'
  <2>1. ASSUME NEW u \in Threads, pc[u] \in {"wu_count", "wu_store"} PROVE FALSE
    <3>1. flag.owner = u
      BY <2>1 DEF IInv, Owning, AtWrite
    <3>2. use # "read"
      BY <2>1 DEF Settled, Nesting, WritePcs
    <3>3. use = "write"
      BY <3>2, KnownUses DEF IInv, TypeOK, OneKind
    <3>4. flag.owner = t
      BY <1>1, <3>3, OnlyOwner DEF Settled
    <3> QED BY <1>1, <2>1, <3>1, <3>4 DEF ReadPcs
  <2> QED BY <1>3, <2>1 DEF NoReaders
<1>11. CrashOnlyOnMisuse'
  BY <1>1 DEF CrashOnlyOnMisuse
<1> QED BY <1>7, <1>8, <1>9, <1>10, <1>11 DEF Settled

(* A read guard is given back: the word has counted it.                     *)
LEMMA ReadUnlockSettled ==
  ASSUME IInv, Settled, NEW t \in Threads, ReadUnlock(t)
  PROVE  Settled'
<1>1. /\ pc[t] = "idle" /\ crashed = "no" /\ hold[t] # <<>> /\ Top(t) = "r"
      /\ UNCHANGED <<pc, use>> /\ hold[t] \in Stacks
  BY DEF ReadUnlock, Running, IInv, TypeOK, Stacks
<1>2. flag.readers # 0
  <2>1. Len(hold[t]) \in 1..Len(hold[t])
    BY <1>1 DEF Stacks
  <2>2. Has(t, "r")
    BY <1>1, <2>1 DEF Has, Top
  <2>3. Guards("r") # 0
    BY <2>2, NoGuards DEF IInv
  <2> QED BY <2>3 DEF Settled, ReadersCounted
<1> DEFINE r == SubSeq(hold[t], 1, Len(hold[t]) - 1)
<1>3. /\ crashed' = "no" /\ hold' = [hold EXCEPT ![t] = SubSeq(@, 1, Len(@) - 1)]
      /\ flag' = [flag EXCEPT !.readers = @ + (-1)]
  BY <1>1, <1>2 DEF ReadUnlock, Reads, Pop
<1>4. \A u \in Threads : hold'[u] = IF u = t THEN r ELSE hold[u]
  BY <1>3 DEF IInv, TypeOK
<1>5. r \in Stacks /\ (r # <<>> => r[1] = hold[t][1]) /\ Count(hold[t]) = Count(r)
  <2>1. Count(hold[t]) = Count(r) + (IF hold[t][Len(hold[t])] = "w" THEN 1 ELSE 0) /\ r \in Stacks
    BY <1>1, CountPop
  <2>2. r # <<>> => r[1] = hold[t][1]
    BY <1>1, LeftOver
  <2> HIDE DEF r
  <2>3. Count(r) \in Nat
    BY <2>1, CountType
  <2> QED BY <1>1, <2>1, <2>2, <2>3 DEF Top
<1> HIDE DEF r
<1>6. flag'.owner = flag.owner /\ flag'.readers = flag.readers - 1 /\ flag.readers \in Nat
  BY <1>3 DEF IInv, TypeOK
<1>7. \A u \in Threads : Has(u, "w")' <=> Has(u, "w")
  <2>1. Has(t, "w")' <=> Count(r) # 0
    BY <1>4, <1>5, CountZero DEF Has
  <2>2. Has(t, "w") <=> Count(hold[t]) # 0
    BY <1>1, CountZero DEF Has
  <2> QED BY <1>4, <1>5, <2>1, <2>2 DEF Has
<1>8. ReadersCounted'
  <2>1. Guards("r")' = Guards("r") - 1
    BY <1>1, <1>3, GuardsPopped DEF IInv
  <2> QED BY <1>6, <2>1 DEF Settled, ReadersCounted
<1>9. OwnerBusy'
  BY <1>1, <1>6, <1>7 DEF Settled, OwnerBusy, AtWrite
<1>10. Nesting'
  <2>1. use = "write" => /\ \A u \in Threads : hold'[u] # <<>> => hold'[u][1] = "w"
                         /\ \A u \in Threads : pc'[u] \in ReadPcs => hold'[u] # <<>>
    BY <1>1, <1>4, <1>5 DEF Settled, Nesting, ReadPcs
  <2> QED BY <1>1, <1>7, <2>1 DEF Settled, Nesting
<1>11. NoReaders'
  <2>1. \A u \in Threads : pc[u] \notin {"wu_count", "wu_store"}
    BY <1>2 DEF Settled, NoReaders
  <2> QED BY <1>1, <2>1 DEF NoReaders
<1>12. CrashOnlyOnMisuse'
  BY <1>3 DEF CrashOnlyOnMisuse
<1> QED BY <1>8, <1>9, <1>10, <1>11, <1>12 DEF Settled

(* A step that changes nothing.                                             *)
LEMMA StutterSettled ==
  ASSUME Settled, UNCHANGED vars
  PROVE  Settled'
<1>1. UNCHANGED <<flag, pc, hold, use, crashed>>
  BY DEF vars
<1>2. \A u \in Threads : \A kind : Has(u, kind)' <=> Has(u, kind)
  BY <1>1 DEF Has
<1>3. ReadersCounted'
  BY <1>1 DEF Settled, ReadersCounted, Guards
<1>4. OwnerBusy' /\ Nesting' /\ NoReaders'
  BY <1>1, <1>2 DEF Settled, OwnerBusy, Nesting, NoReaders, AtWrite
<1>5. CrashOnlyOnMisuse'
  BY <1>1, <1>2 DEF Settled, CrashOnlyOnMisuse, Top
<1> QED BY <1>3, <1>4, <1>5 DEF Settled

(* Settled is an invariant of such a lock.                                  *)
LEMMA SettledHolds ==
  ASSUME Launched, Countable, OneKind PROVE Spec => []Settled
<1>1. Init => Settled
  BY InitSettled
<1>2. IInv /\ Settled /\ [Next]_vars => Settled'
  <2> SUFFICES ASSUME IInv, Settled, [Next]_vars PROVE Settled'
    OBVIOUS
  <2>1. ASSUME NEW t \in Threads, WriteStep(t) PROVE Settled'
    BY <2>1, MoveSettled, AcquireWriteSettled, CountWriteSettled,
       WriteUnlockSettled, UncountWriteSettled, ReleaseWriteSettled DEF WriteStep
  <2>2. ASSUME NEW t \in Threads, ReadStep(t) PROVE Settled'
    BY <2>2, MoveSettled, TakeReadSettled, ReadUnlockSettled DEF ReadStep
  <2>3. CASE UNCHANGED vars
    BY <2>3, StutterSettled
  <2> QED BY <2>1, <2>2, <2>3 DEF Next
<1> QED BY <1>1, <1>2, Invariance, PTL DEF Spec

(* Where a class takes guards of one kind from outside, the word and        *)
(* _writeCount say what is held whenever no write guard is being taken or   *)
(* given back, no lock is left taken, and the checks of Lock.cpp:58 and     *)
(* :116 crash only a thread that takes off a write guard on top of its own  *)
(* read guard.                                                              *)
THEOREM CountsMatchHolds ==
  ASSUME Launched, Countable, OneKind PROVE Spec => []CountsMatch
<1>1. IInv /\ Settled => CountsMatch
  <2> SUFFICES ASSUME IInv, Settled, \A t \in Threads : ~AtWrite(t)
               PROVE  /\ flag.readers = Guards("r")
                      /\ writeCount = Guards("w")
                      /\ \A t \in Threads : flag.owner = t <=> Has(t, "w")
    BY DEF CountsMatch, Settled, AtWrite
  <2>1. \A t \in Threads : flag.owner = t <=> Has(t, "w")
    BY DEF IInv, Owning, Settled, OwnerBusy
  <2>2. writeCount = Guards("w")
    <3>1. CASE flag.owner \in Threads
      <4>1. PICK t \in Threads : flag.owner = t
        BY <3>1
      <4>2. \A u \in Threads \ {t} : ~Has(u, "w")
        BY <2>1, <4>1
      <4>3. Guards("w") = Count(hold[t]) /\ Count(hold[t]) \in Nat
        BY <4>2, OwnersGuards, CountType DEF IInv, TypeOK, Stacks
      <4>4. writeCount = Count(hold[t]) + 0
        BY <4>1 DEF IInv, Counting, AtWrite
      <4> QED BY <4>3, <4>4
    <3>2. CASE flag.owner \notin Threads
      <4>1. \A u \in Threads : ~Has(u, "w")
        BY <2>1, <3>2
      <4>2. Guards("w") = 0
        BY <4>1, NoGuards DEF IInv
      <4> QED BY <3>2, <4>2 DEF IInv, Counting
    <3> QED BY <3>1, <3>2
  <2> QED BY <2>1, <2>2 DEF Settled, ReadersCounted
<1> QED BY <1>1, Invariance, SettledHolds, PTL

(* Where a class takes guards of one kind from outside, no other thread     *)
(* reads while one holds a write guard, although ReadLock competes for the  *)
(* word whoever owns it (Lock.cpp:87-105).                                  *)
THEOREM ReadersExcludedHolds ==
  ASSUME Launched, Countable, OneKind PROVE Spec => []ReadersExcluded
<1>1. IInv /\ Settled => ReadersExcluded
  <2> SUFFICES ASSUME IInv, Settled, NEW t \in Threads, NEW u \in Threads,
                      Has(t, "w"), Has(u, "r")
               PROVE  t = u
    BY DEF ReadersExcluded
  <2>1. use = "write" /\ flag.owner = t
    <3>1. use # "read"
      BY DEF Settled, Nesting
    <3> QED BY <3>1, KnownUses DEF IInv, TypeOK, OneKind, Owning
  <2>2. hold[u] # <<>>
    BY DEF Has
  <2>3. flag.owner = u
    BY <2>1, <2>2, OnlyOwner DEF Settled
  <2> QED BY <2>1, <2>3
<1> QED BY <1>1, Invariance, SettledHolds, PTL

-----------------------------------------------------------------------------
(* Lock implements ReadWriteLock                                           *)

(* Taking a guard is a step of ReadWriteLock if writers exclude everybody   *)
(* afterwards.                                                              *)
LEMMA TakingIsTaking ==
  ASSUME TypeOK, TypeOK', WritersExclusive', ReadersExcluded', NEW t \in Threads,
         CountWrite(t) \/ ReadOwned(t) \/ AcquireRead(t)
  PROVE  RW!TakeWriteGuard(t) \/ RW!TakeReadGuard(t)
<1>1. PICK kind \in {"w", "r"} :
         /\ hold' = [hold EXCEPT ![t] = Append(@, kind)]
         /\ kind = "w" => CountWrite(t)
  BY DEF CountWrite, ReadOwned, AcquireRead, TakeRead
<1>2. hold \in [Threads -> Seq({"w", "r"})]
  BY DEF TypeOK
<1>3. \A u \in Threads \ {t} : hold'[u] = hold[u]
  BY <1>1, <1>2
<1>4. Has(t, kind)'
  <2>1. hold[t] \in Seq({"w", "r"}) /\ hold'[t] = Append(hold[t], kind)
    BY <1>1, <1>2
  <2>2. Len(hold'[t]) = Len(hold[t]) + 1 /\ hold'[t][Len(hold[t]) + 1] = kind
        /\ Len(hold[t]) \in Nat
    BY <2>1
  <2>3. Len(hold[t]) + 1 \in 1..Len(hold'[t])
    BY <2>2
  <2> QED
    BY <2>2, <2>3 DEF Has
<1>5. CASE kind = "w"
  <2>1. \A u \in Threads \ {t} : hold'[u] = <<>>
    <3>1. SUFFICES ASSUME NEW u \in Threads \ {t} PROVE hold'[u] = <<>>
      OBVIOUS
    <3>2. (Has(t, "w"))'
      BY <1>4, <1>5
    <3>3. Has(u, "w")' => t = u
      BY <3>2 DEF WritersExclusive
    <3>4. Has(u, "r")' => t = u
      BY <3>2 DEF ReadersExcluded
    <3>5. ~Has(u, "w")' /\ ~Has(u, "r")'
      BY <3>3, <3>4
    <3>6. hold'[u] \in Seq({"w", "r"})
      BY DEF TypeOK
    <3>7. ASSUME hold'[u] # <<>> PROVE FALSE
      <4>1. 1 \in 1..Len(hold'[u]) /\ hold'[u][1] \in {"w", "r"}
        BY <3>6, <3>7
      <4> QED
        BY <3>5, <4>1 DEF Has
    <3> QED
      BY <3>7
  <2> QED
    BY <1>1, <1>3, <1>5, <2>1 DEF RW!TakeWriteGuard
<1>6. CASE kind = "r"
  <2>1. \A u \in Threads \ {t} : ~RW!Writes(u)
    <3>1. SUFFICES ASSUME NEW u \in Threads \ {t}, Has(u, "w") PROVE FALSE
      BY DEF RW!Writes, Has
    <3>2. Has(u, "w")'
      BY <1>3, <3>1 DEF Has
    <3> QED
      BY <1>4, <1>6, <3>2 DEF ReadersExcluded
  <2> QED
    BY <1>1, <1>6, <2>1 DEF RW!TakeReadGuard
<1> QED
  BY <1>5, <1>6

(* For a class that takes guards of one kind from outside, Lock is a lock   *)
(* that is taken and given back in one step, for any launched threads and   *)
(* any nesting that _writeCount can count: each step is a step of           *)
(* ReadWriteLock or none.                                                   *)
THEOREM ReadWriteLockImplemented ==
  ASSUME Launched, Countable, OneKind PROVE Spec => ImplementsReadWriteLock
<1>1. Init => RW!RWInit
  BY DEF Init, RW!RWInit
<1>2. /\ TypeOK /\ TypeOK' /\ WritersExclusive' /\ ReadersExcluded'
      /\ [Next]_vars
      => [RW!RWNext]_hold
  <2> SUFFICES ASSUME TypeOK, TypeOK', WritersExclusive', ReadersExcluded', [Next]_vars
               PROVE  RW!RWNext \/ hold' = hold
    OBVIOUS
  <2>1. CASE UNCHANGED vars
    BY <2>1 DEF vars
  <2>2. ASSUME NEW t \in Threads, WriteStep(t) \/ ReadStep(t)
        PROVE  RW!RWNext \/ hold' = hold
    <3>1. CASE CountWrite(t) \/ ReadOwned(t) \/ AcquireRead(t)
      BY <3>1, TakingIsTaking DEF RW!RWNext
    <3>2. CASE WriteUnlock(t) \/ ReadUnlock(t)
      BY <3>2 DEF WriteUnlock, ReadUnlock, Pop, RW!EndGuard, RW!RWNext
    <3>3. CASE \/ WriteLock(t) \/ AcquireWrite(t) \/ WriteTimeout(t)
               \/ UncountWrite(t) \/ ReleaseWrite(t)
               \/ ReadLock(t) \/ LoadExpected(t) \/ AcquireReadFails(t)
      BY <3>3 DEF WriteLock, AcquireWrite, WriteTimeout, UncountWrite, ReleaseWrite,
                  ReadLock, LoadExpected, AcquireReadFails
    <3> QED
      BY <2>2, <3>1, <3>2, <3>3 DEF WriteStep, ReadStep
  <2> QED
    BY <2>1, <2>2 DEF Next
<1>3. IInv => TypeOK
  BY DEF IInv
<1> QED
  BY <1>1, <1>2, <1>3, Invariance, MutualExclusion, ReadersExcludedHolds, PTL
  DEF Spec, ImplementsReadWriteLock, RW!ReadWriteSpec
=============================================================================
