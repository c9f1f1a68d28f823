--------------------------- MODULE JobQueueProofs ---------------------------
(***************************************************************************)
(* Proofs about JobQueue, for any set of queues and jobs and any finite    *)
(* set of threads: its types (so that _jobCount is never negative), that a *)
(* queue with jobs has one holder and so one executor, that _jobCount is   *)
(* exact, and that the queues implement the Mailbox.                       *)
(***************************************************************************)
EXTENDS JobQueue, FiniteSetTheorems, SequenceTheorems, TLAPS

-----------------------------------------------------------------------------
(* The inductive invariant.                                                *)

\* How the variables of one thread fit together.
Shape ==
  \A t \in Threads :
    /\ call[t].at # "none" => call[t].queue \in Queues /\ call[t].job \in Jobs
    /\ call[t].at = "queued" => call[t].first
    /\ cur[t] = NoQueue <=> exec[t] = "none"
    /\ running[t] # NoJob => exec[t] = "run"
    /\ exec[t] # "run" => size[t] = 0

Held == \A q \in Queues : HeldOnce(q)

Waiting(q) == Len(jobs[q]) + Cardinality(Counted(q)) + lost[q]

\* CountExact with the executor, if any, named instead of chosen.
Account(q) ==
  /\ \A t \in Threads : cur[t] = q => jobCount[q] = Waiting(q) + size[t]
  /\ (\A t \in Threads : cur[t] # q) => jobCount[q] = Waiting(q)

Accounts == \A q \in Queues : Account(q)

IInv == TypeOK /\ Shape /\ Held /\ NoDuplicates /\ Accounts

-----------------------------------------------------------------------------
(* Lemmas *)

(* The threads counted in a queue are finitely many, so Cardinality is a    *)
(* number.                                                                  *)
LEMMA CountedFinite ==
  \A q \in Queues : IsFiniteSet(Counted(q)) /\ Cardinality(Counted(q)) \in Nat
BY ThreadsFinite, FS_Subset, FS_CardinalityType DEF Counted

(* What waits in a queue is a number.                                       *)
LEMMA WaitingType == TypeOK => \A q \in Queues : Waiting(q) \in Nat
BY CountedFinite DEF Waiting, TypeOK

(* A thread that enters the window between fetch_add and _jobs.Push adds 1  *)
(* to the number of threads there.                                          *)
LEMMA CountedEnter ==
  ASSUME NEW t \in Threads, NEW q \in Queues,
         t \notin Counted(q), Counted(q)' = Counted(q) \cup {t}
  PROVE  Cardinality(Counted(q))' = Cardinality(Counted(q)) + 1
BY CountedFinite, FS_AddElement

(* A thread that leaves the window takes 1 off.                             *)
LEMMA CountedLeave ==
  ASSUME NEW t \in Threads, NEW q \in Queues,
         t \in Counted(q), Counted(q)' = Counted(q) \ {t}
  PROVE  Cardinality(Counted(q))' = Cardinality(Counted(q)) - 1
BY CountedFinite, FS_RemoveElement

(* A step that leaves the counters, the lists, the threads' queues and their *)
(* calls alone keeps what these have to do with each other.                 *)
LEMMA HeldStable ==
  ASSUME Held, NoDuplicates, Accounts,
         UNCHANGED <<jobCount, jobs, global, cur, size, call, lost>>
  PROVE  Held' /\ NoDuplicates' /\ Accounts'
BY DEF Held, HeldOnce, Holds, FirstPush, InGlobal, NoDuplicates,
       Accounts, Account, Waiting, Counted

(* What is in a sequence of queues after one more was appended to it, and    *)
(* that it has no duplicates when the new one was not in it.                *)
LEMMA AppendMembers ==
  ASSUME NEW s \in Seq(Queues), NEW q \in Queues, NEW p
  PROVE  (\E i \in 1..Len(Append(s, q)) : Append(s, q)[i] = p)
           <=> p = q \/ \E i \in 1..Len(s) : s[i] = p
OBVIOUS

\* Appending something new to a sequence without duplicates leaves it so.
LEMMA AppendDistinct ==
  ASSUME NEW s \in Seq(Queues), NEW q \in Queues,
         ~\E i \in 1..Len(s) : s[i] = q,
         \A i, k \in 1..Len(s) : s[i] = s[k] => i = k
  PROVE  \A i, k \in 1..Len(Append(s, q)) :
           Append(s, q)[i] = Append(s, q)[k] => i = k
OBVIOUS

(* Taking the head off a sequence without duplicates takes one queue away   *)
(* and leaves no duplicates.                                                *)
LEMMA TailMembers ==
  ASSUME NEW s \in Seq(Queues), s # <<>>,
         \A i, k \in 1..Len(s) : s[i] = s[k] => i = k, NEW p
  PROVE  /\ (\E i \in 1..Len(Tail(s)) : Tail(s)[i] = p)
               <=> p # Head(s) /\ \E i \in 1..Len(s) : s[i] = p
         /\ \A i, k \in 1..Len(Tail(s)) : Tail(s)[i] = Tail(s)[k] => i = k
<1>1. Len(Tail(s)) = Len(s) - 1 /\ \A i \in 1..Len(Tail(s)) : Tail(s)[i] = s[i + 1]
  OBVIOUS
<1>2. Head(s) = s[1] /\ Len(s) \in Nat \ {0}
  OBVIOUS
<1>3. ASSUME NEW i \in 1..Len(s), s[i] = p, p # Head(s)
      PROVE  \E k \in 1..Len(Tail(s)) : Tail(s)[k] = p
  <2>1. i - 1 \in 1..Len(Tail(s)) /\ Tail(s)[i - 1] = s[i]
    BY <1>1, <1>2, <1>3
  <2>2. QED
    BY <1>3, <2>1
<1>4. QED
  BY <1>1, <1>2, <1>3

(* The initial states satisfy the invariant.                                *)
LEMMA InitInvariant == Init => IInv
<1> SUFFICES ASSUME Init PROVE IInv
  OBVIOUS
<1>1. TypeOK
  BY ClearsBound DEF Init, TypeOK, NoCall, Calls
<1>2. Shape /\ NoDuplicates
  BY NoQueueIsNone DEF Init, Shape, NoDuplicates, NoCall
<1>3. Held
  BY NoQueueIsNone DEF Init, Held, HeldOnce, Holds, FirstPush, InGlobal, NoCall
<1>4. Accounts
  <2>1. \A q \in Queues : Counted(q) = {}
    BY DEF Init, Counted, NoCall
  <2>2. \A q \in Queues : Cardinality(Counted(q)) = 0
    BY <2>1, FS_EmptySet
  <2>3. \A q \in Queues : Waiting(q) = 0 /\ jobCount[q] = 0
    BY <2>2 DEF Init, Waiting
  <2>4. \A t \in Threads : cur[t] = NoQueue
    BY DEF Init
  <2>5. QED
    BY <2>3, <2>4, NoQueueIsNone DEF Accounts, Account
<1> QED
  BY <1>1, <1>2, <1>3, <1>4 DEF IInv

-----------------------------------------------------------------------------
(* Push *)

\* A push raises _jobCount: it joins the window, and holds an empty queue.
LEMMA BeginPushInvariant ==
  ASSUME IInv, NEW t \in Threads, NEW q \in Queues, NEW j \in Jobs,
         NEW o \in BOOLEAN, BeginPush(t, q, j, o)
  PROVE  IInv'
<1> USE DEF IInv
<1>0. /\ call[t].at = "none"
      /\ jobCount' = [jobCount EXCEPT ![q] = @ + 1]
      /\ call' = [call EXCEPT ![t] = [at |-> "counted", queue |-> q, job |-> j,
                                      first |-> jobCount[q] = 0, only |-> o]]
      /\ sent' = sent \cup {j}
      /\ UNCHANGED <<jobs, global, workerVars, execVars, done, lost, clears>>
  BY DEF BeginPush, InUserCode
<1>1. TypeOK'
  <2>1. /\ jobCount \in [Queues -> Nat] /\ call \in [Threads -> Calls]
        /\ sent \subseteq Jobs
    BY DEF TypeOK
  <2>2. jobCount' \in [Queues -> Nat]
    BY <1>0, <2>1
  <2>3. [at |-> "counted", queue |-> q, job |-> j,
         first |-> jobCount[q] = 0, only |-> o] \in Calls
    BY DEF Calls
  <2>4. call' \in [Threads -> Calls]
    BY <1>0, <2>1, <2>3
  <2>5. sent' \subseteq Jobs
    BY <1>0, <2>1
  <2>6. QED
    BY <1>0, <2>2, <2>4, <2>5 DEF TypeOK, workerVars, execVars
<1>2. Shape'
  BY <1>0 DEF Shape, TypeOK, execVars
<1>3. NoDuplicates'
  BY <1>0 DEF NoDuplicates
<1>4. Held'
  <2>1. \A u \in Threads, p \in Queues :
          FirstPush(u, p)' <=> IF u = t THEN p = q /\ jobCount[q] = 0
                                        ELSE FirstPush(u, p)
    BY <1>0 DEF FirstPush, TypeOK
  <2>2. \A p \in Queues : ~FirstPush(t, p)
    BY <1>0 DEF FirstPush
  <2>3. UNCHANGED <<cur, global>>
    BY <1>0 DEF execVars
  <2>4. \A p \in Queues : jobCount'[p] = IF p = q THEN jobCount[p] + 1 ELSE jobCount[p]
    BY <1>0 DEF TypeOK
  <2>5. \A p \in Queues : InGlobal(p)' <=> InGlobal(p)
    BY <2>3 DEF InGlobal
  <2>6. ASSUME NEW p \in Queues, p # q PROVE
          /\ \A u \in Threads : FirstPush(u, p)' <=> FirstPush(u, p)
          /\ \A u \in Threads : Holds(u, p)' <=> Holds(u, p)
    BY <2>1, <2>2, <2>3, <2>6 DEF Holds
  <2>7. CASE jobCount[q] = 0
    <3>1. ~InGlobal(q) /\ \A u \in Threads : ~Holds(u, q)
      BY <2>7 DEF Held, HeldOnce
    <3>2. \A u \in Threads : Holds(u, q)' <=> u = t
      BY <2>1, <2>3, <2>7, <3>1 DEF Holds
    <3>3. \A u \in Threads : cur'[u] # q
      BY <2>3, <3>1 DEF Holds
    <3>4. jobCount'[q] > 0
      BY <2>4, <2>7
    <3>5. HeldOnce(q)'
      BY <2>5, <3>1, <3>2, <3>3, <3>4 DEF HeldOnce
    <3>6. \A p \in Queues \ {q} : HeldOnce(p)'
      BY <2>3, <2>4, <2>5, <2>6 DEF Held, HeldOnce
    <3>7. QED
      BY <3>5, <3>6 DEF Held
  <2>8. CASE jobCount[q] # 0
    <3>1. \A u \in Threads, p \in Queues : FirstPush(u, p)' <=> FirstPush(u, p)
      BY <2>1, <2>2, <2>8
    <3>2. \A u \in Threads, p \in Queues : Holds(u, p)' <=> Holds(u, p)
      BY <2>3, <3>1 DEF Holds
    <3>3. \A p \in Queues : jobCount[p] \in Nat
      BY DEF TypeOK
    <3>4. \A p \in Queues : jobCount'[p] > 0 <=> jobCount[p] > 0
      BY <2>4, <2>8, <3>3
    <3>5. QED
      BY <2>3, <2>5, <3>1, <3>2, <3>4 DEF Held, HeldOnce
  <2>9. QED
    BY <2>7, <2>8
<1>5. Accounts'
  <2>1. t \notin Counted(q) /\ Counted(q)' = Counted(q) \cup {t}
    BY <1>0 DEF Counted, TypeOK
  <2>2. \A p \in Queues \ {q} : Counted(p)' = Counted(p)
    BY <1>0 DEF Counted, TypeOK
  <2>3. Cardinality(Counted(q))' = Cardinality(Counted(q)) + 1
    BY <2>1, CountedEnter
  <2>4. \A p \in Queues : jobCount'[p] = IF p = q THEN jobCount[p] + 1 ELSE jobCount[p]
    BY <1>0 DEF TypeOK
  <2>5. Waiting(q)' = Waiting(q) + 1
    BY <1>0, <2>3, CountedFinite DEF Waiting, TypeOK
  <2>6. \A p \in Queues \ {q} : Waiting(p)' = Waiting(p)
    BY <1>0, <2>2 DEF Waiting
  <2>7. Waiting(q) \in Nat
    BY WaitingType
  <2>8. \A u \in Threads : cur'[u] = cur[u] /\ size'[u] = size[u] /\ size[u] \in Nat
    BY <1>0 DEF TypeOK, execVars
  <2>9. Account(q)'
    BY <2>4, <2>5, <2>7, <2>8 DEF Accounts, Account
  <2>10. \A p \in Queues \ {q} : Account(p)'
    BY <2>4, <2>6, <2>8 DEF Accounts, Account
  <2>11. QED
    BY <2>9, <2>10 DEF Accounts
<1> QED
  BY <1>1, <1>2, <1>3, <1>4, <1>5

\* The job goes from the window into _jobs; a later push leaves.
LEMMA EnqueueInvariant ==
  ASSUME IInv, NEW t \in Threads, Enqueue(t)
  PROVE  IInv'
<1> USE DEF IInv
<1>0. PICK q \in Queues :
      /\ q = call[t].queue
      /\ call[t].at = "counted" /\ call[t].job \in Jobs
      /\ jobs' = [jobs EXCEPT ![q] = Append(@, call[t].job)]
      /\ call' = [call EXCEPT ![t] = IF @.first THEN [@ EXCEPT !.at = "queued"]
                                                ELSE NoCall]
      /\ UNCHANGED <<jobCount, global, workerVars, execVars, history>>
  BY DEF Enqueue, Shape
<1>1. TypeOK'
  <2>1. call[t] \in Calls /\ NoCall \in Calls /\ [call[t] EXCEPT !.at = "queued"] \in Calls
    <3>1. call[t] \in Calls
      BY DEF TypeOK
    <3>2. NoCall \in Calls
      BY DEF Calls, NoCall
    <3>3. [call[t] EXCEPT !.at = "queued"] \in Calls
      BY <3>1 DEF Calls
    <3>4. QED
      BY <3>1, <3>2, <3>3
  <2>2. call' \in [Threads -> Calls]
    BY <1>0, <2>1 DEF TypeOK
  <2>3. jobs' \in [Queues -> Seq(Jobs)]
    BY <1>0 DEF TypeOK
  <2>4. QED
    BY <1>0, <2>2, <2>3 DEF TypeOK, workerVars, execVars, history
<1>2. call[t] \in Calls /\ \A u \in Threads : u # t => call'[u] = call[u]
  BY <1>0 DEF TypeOK
<1>3. call'[t] = IF call[t].first THEN [call[t] EXCEPT !.at = "queued"] ELSE NoCall
  BY <1>0 DEF TypeOK
<1>4. /\ call'[t].at = (IF call[t].first THEN "queued" ELSE "none")
      /\ call[t].first => call'[t].queue = q /\ call'[t].job = call[t].job /\ call'[t].first
  BY <1>0, <1>2, <1>3 DEF Calls, NoCall
<1>5. Shape'
  <2>1. /\ call'[t].at # "none" => call'[t].queue \in Queues /\ call'[t].job \in Jobs
        /\ call'[t].at = "queued" => call'[t].first
    BY <1>0, <1>4
  <2>2. QED
    BY <1>0, <1>2, <2>1 DEF Shape, execVars
<1>6. NoDuplicates'
  BY <1>0 DEF NoDuplicates
<1>7. Held'
  <2>1. \A u \in Threads, p \in Queues : FirstPush(u, p)' <=> FirstPush(u, p)
    BY <1>0, <1>2, <1>4 DEF FirstPush
  <2>2. \A u \in Threads, p \in Queues : Holds(u, p)' <=> Holds(u, p)
    BY <1>0, <2>1 DEF Holds, execVars
  <2>3. QED
    BY <1>0, <2>1, <2>2 DEF Held, HeldOnce, InGlobal, execVars
<1>8. Accounts'
  <2>1. t \in Counted(q) /\ Counted(q)' = Counted(q) \ {t}
    BY <1>0, <1>2, <1>4 DEF Counted
  <2>2. \A p \in Queues \ {q} : Counted(p)' = Counted(p)
    BY <1>0, <1>2, <1>4 DEF Counted
  <2>3. Cardinality(Counted(q))' = Cardinality(Counted(q)) - 1
    BY <1>0, <2>1, CountedLeave
  <2>4. Len(jobs[q])' = Len(jobs[q]) + 1 /\ Len(jobs[q]) \in Nat
    BY <1>0 DEF TypeOK
  <2>5. Waiting(q)' = Waiting(q)
    <3>1. lost' = lost /\ lost[q] \in Nat /\ Cardinality(Counted(q)) \in Nat
      BY <1>0, CountedFinite DEF TypeOK, history
    <3>2. QED
      BY <2>3, <2>4, <3>1 DEF Waiting
  <2>6. \A p \in Queues \ {q} : jobs'[p] = jobs[p]
    BY <1>0 DEF TypeOK
  <2>7. \A p \in Queues : Waiting(p)' = Waiting(p)
    BY <1>0, <2>2, <2>5, <2>6 DEF Waiting, history
  <2>8. QED
    BY <1>0, <2>7 DEF Accounts, Account, execVars
<1> QED
  BY <1>1, <1>5, <1>6, <1>7, <1>8

\* The first push hands the queue to its own thread, as executor.
LEMMA ExecuteInlineInvariant ==
  ASSUME IInv, NEW t \in Threads, ExecuteInline(t)
  PROVE  IInv'
<1> USE DEF IInv
<1>0. PICK q \in Queues :
      /\ q = call[t].queue
      /\ call[t].at = "queued" /\ call[t].first
      /\ cur[t] = NoQueue /\ exec[t] = "none" /\ size[t] = 0
      /\ cur'  = [cur EXCEPT ![t] = q]
      /\ exec' = [exec EXCEPT ![t] = "pop"]
      /\ call' = [call EXCEPT ![t] = NoCall]
      /\ UNCHANGED <<queueVars, workerVars, batch, size, running, history>>
  BY DEF ExecuteInline, RunsInline, Shape
<1>1. TypeOK'
  BY <1>0 DEF TypeOK, Calls, NoCall, queueVars, workerVars, history
<1>2. Shape'
  BY <1>0, NoQueueIsNone DEF Shape, TypeOK, NoCall
<1>3. NoDuplicates'
  BY <1>0 DEF NoDuplicates, queueVars
<1>4. \A u \in Threads, p \in Queues :
        /\ FirstPush(u, p)' <=> u # t /\ FirstPush(u, p)
        /\ FirstPush(t, p) <=> p = q
        /\ cur'[u] = IF u = t THEN q ELSE cur[u]
  BY <1>0 DEF FirstPush, TypeOK, NoCall
<1>5. Held'
  <2>1. \A u \in Threads, p \in Queues : Holds(u, p)' <=> Holds(u, p)
    BY <1>0, <1>4, NoQueueIsNone DEF Holds
  <2>2. \A u \in Threads, p \in Queues : ~(FirstPush(u, p)' /\ cur'[u] = p)
    BY <1>4 DEF Held, HeldOnce
  <2>3. QED
    BY <1>0, <2>1, <2>2 DEF Held, HeldOnce, InGlobal, queueVars
<1>6. Accounts'
  <2>1. \A p \in Queues : Counted(p)' = Counted(p)
    BY <1>0 DEF Counted, TypeOK, NoCall
  <2>2. \A p \in Queues : Waiting(p)' = Waiting(p) /\ jobCount'[p] = jobCount[p]
    BY <1>0, <2>1 DEF Waiting, queueVars, history
  <2>3. \A u \in Threads : cur[u] # q
    BY <1>0, <1>4 DEF Held, HeldOnce, Holds
  <2>4. Account(q)'
    <3>1. jobCount[q] = Waiting(q) /\ Waiting(q) = Waiting(q) + 0
      BY <1>0, <2>3, WaitingType DEF Accounts, Account
    <3>2. QED
      BY <1>0, <1>4, <2>2, <2>3, <3>1 DEF Account
  <2>5. \A p \in Queues \ {q} : Account(p)'
    BY <1>0, <1>4, <2>2, NoQueueIsNone DEF Accounts, Account
  <2>6. QED
    BY <2>4, <2>5 DEF Accounts
<1> QED
  BY <1>1, <1>2, <1>3, <1>5, <1>6

\* The first push hands the queue to the global queue.
LEMMA PushGlobalInvariant ==
  ASSUME IInv, NEW t \in Threads, PushGlobal(t)
  PROVE  IInv'
<1> USE DEF IInv
<1>0. PICK q \in Queues :
      /\ q = call[t].queue
      /\ call[t].at = "queued" /\ call[t].first
      /\ global' = Append(global, q)
      /\ call' = [call EXCEPT ![t] = NoCall]
      /\ UNCHANGED <<jobCount, jobs, workerVars, execVars, history>>
  BY DEF PushGlobal, Shape
<1>1. TypeOK'
  <2>1. global' \in Seq(Queues)
    BY <1>0 DEF TypeOK
  <2>2. NoCall \in Calls
    BY DEF Calls, NoCall
  <2>3. call' \in [Threads -> Calls]
    BY <1>0, <2>2 DEF TypeOK
  <2>4. QED
    BY <1>0, <2>1, <2>3 DEF TypeOK, workerVars, execVars, history
<1>2. Shape'
  BY <1>0 DEF Shape, TypeOK, NoCall, execVars
<1>3. FirstPush(t, q)
  BY <1>0 DEF FirstPush
<1>4. ~InGlobal(q) /\ \A u \in Threads : u # t => ~Holds(u, q)
  BY <1>3 DEF Held, HeldOnce, Holds
<1>5. NoDuplicates'
  <2>1. global \in Seq(Queues)
    BY DEF TypeOK
  <2>2. ~\E i \in 1..Len(global) : global[i] = q
    BY <1>4 DEF InGlobal
  <2>3. \A i, k \in 1..Len(global) : global[i] = global[k] => i = k
    BY DEF NoDuplicates
  <2>4. \A i, k \in 1..Len(Append(global, q)) :
          Append(global, q)[i] = Append(global, q)[k] => i = k
    BY <2>1, <2>2, <2>3, AppendDistinct
  <2>5. QED
    BY <1>0, <2>4 DEF NoDuplicates
<1>6. Held'
  <2>1. \A u \in Threads, p \in Queues :
          /\ FirstPush(u, p)' <=> u # t /\ FirstPush(u, p)
          /\ FirstPush(t, p) <=> p = q
    BY <1>0 DEF FirstPush, TypeOK, NoCall
  <2>2. UNCHANGED <<cur, jobCount>>
    BY <1>0 DEF execVars
  <2>3. \A p \in Queues : InGlobal(p)' <=> p = q \/ InGlobal(p)
    <3>1. global \in Seq(Queues) /\ global' = Append(global, q)
      BY <1>0 DEF TypeOK
    <3>2. ASSUME NEW p \in Queues
          PROVE  (\E i \in 1..Len(Append(global, q)) : Append(global, q)[i] = p)
                   <=> p = q \/ \E i \in 1..Len(global) : global[i] = p
      BY <3>1, AppendMembers
    <3>3. QED
      BY <3>1, <3>2 DEF InGlobal
  <2>4. \A u \in Threads : ~Holds(u, q)'
    BY <1>3, <1>4, <2>1, <2>2 DEF Held, HeldOnce, Holds
  <2>5. HeldOnce(q)'
    BY <1>3, <2>2, <2>3, <2>4 DEF Held, HeldOnce, Holds
  <2>6. \A p \in Queues \ {q} : HeldOnce(p)'
    BY <2>1, <2>2, <2>3 DEF Held, HeldOnce, Holds
  <2>7. QED
    BY <2>5, <2>6 DEF Held
<1>7. Accounts'
  <2>1. \A p \in Queues : Counted(p)' = Counted(p)
    BY <1>0 DEF Counted, TypeOK, NoCall
  <2>2. QED
    BY <1>0, <2>1 DEF Accounts, Account, Waiting, execVars, history
<1> QED
  BY <1>1, <1>2, <1>5, <1>6, <1>7

-----------------------------------------------------------------------------
(* Execute *)

\* The executor takes _jobs over into its batch: the sum stays.
LEMMA PopAllInvariant ==
  ASSUME IInv, NEW t \in Threads, PopAll(t)
  PROVE  IInv'
<1> USE DEF IInv
<1>0. PICK q \in Queues :
      /\ q = cur[t] /\ exec[t] = "pop" /\ size[t] = 0
      /\ batch' = [batch EXCEPT ![t] = jobs[q]]
      /\ size'  = [size EXCEPT ![t] = Len(jobs[q])]
      /\ jobs'  = [jobs EXCEPT ![q] = <<>>]
      /\ exec'  = [exec EXCEPT ![t] = "run"]
      /\ UNCHANGED <<jobCount, global, workerVars, cur, running, call, history>>
  BY DEF PopAll, Shape, TypeOK
<1>1. TypeOK'
  BY <1>0 DEF TypeOK, workerVars, history
<1>2. Shape'
  BY <1>0 DEF Shape, TypeOK
<1>3. Held' /\ NoDuplicates'
  BY <1>0 DEF Held, HeldOnce, Holds, FirstPush, InGlobal, NoDuplicates
<1>4. Accounts'
  <2>1. \A p \in Queues : Counted(p)' = Counted(p)
    BY <1>0 DEF Counted
  <2>2. Len(jobs[q]) \in Nat /\ Len(jobs'[q]) = 0 /\ size'[t] = Len(jobs[q])
    BY <1>0 DEF TypeOK
  <2>3. Waiting(q)' = Waiting(q) - size'[t]
    BY <1>0, <2>1, <2>2, CountedFinite DEF Waiting, TypeOK, history
  <2>4. \A p \in Queues \ {q} : Waiting(p)' = Waiting(p)
    BY <1>0, <2>1 DEF Waiting, TypeOK, history
  <2>5. \A u \in Threads : cur[u] = q => u = t
    BY <1>0 DEF Held, HeldOnce, Holds
  <2>6. jobCount[q] = Waiting(q)
    <3>1. jobCount[q] = Waiting(q) + size[t]
      BY <1>0 DEF Accounts, Account
    <3>2. QED
      BY <1>0, <3>1, WaitingType
  <2>7. Account(q)'
    <3>1. jobCount'[q] = Waiting(q)' + size'[t] /\ cur' = cur
      BY <1>0, <2>2, <2>3, <2>6, WaitingType
    <3>2. QED
      BY <1>0, <2>5, <3>1 DEF Account
  <2>8. \A u \in Threads : u # t => size'[u] = size[u]
    BY <1>0 DEF TypeOK
  <2>9. \A p \in Queues \ {q} : Account(p)'
    BY <1>0, <2>4, <2>8 DEF Accounts, Account
  <2>10. QED
    BY <2>7, <2>9 DEF Accounts
<1> QED
  BY <1>1, <1>2, <1>3, <1>4

\* A job leaves the batch; size still counts it.
LEMMA StartJobInvariant ==
  ASSUME IInv, NEW t \in Threads, StartJob(t)
  PROVE  IInv'
<1> USE DEF IInv
<1>0. /\ exec[t] = "run" /\ batch[t] # <<>>
      /\ running' = [running EXCEPT ![t] = Head(batch[t])]
      /\ batch'   = [batch EXCEPT ![t] = Tail(@)]
      /\ UNCHANGED <<queueVars, workerVars, cur, exec, size, call, history>>
  BY DEF StartJob
<1>1. TypeOK'
  <2>1. Head(batch[t]) \in Jobs /\ Tail(batch[t]) \in Seq(Jobs)
    BY <1>0 DEF TypeOK
  <2>2. QED
    BY <1>0, <2>1 DEF TypeOK, queueVars, workerVars, history
<1>2. Shape'
  BY <1>0 DEF Shape, TypeOK
<1>3. Held' /\ NoDuplicates' /\ Accounts'
  BY <1>0, HeldStable DEF queueVars, history
<1> QED
  BY <1>1, <1>2, <1>3

\* A job has run: only done and running change.
LEMMA FinishJobInvariant ==
  ASSUME IInv, NEW t \in Threads, FinishJob(t)
  PROVE  IInv'
<1> USE DEF IInv
<1>0. /\ running[t] # NoJob /\ running[t] \in Jobs /\ cur[t] \in Queues
      /\ done' = [done EXCEPT ![cur[t]] = Append(@, running[t])]
      /\ running' = [running EXCEPT ![t] = NoJob]
      /\ UNCHANGED <<queueVars, workerVars, cur, exec, batch, size, call,
                     sent, lost, clears>>
  BY DEF FinishJob, Shape, TypeOK
<1>1. TypeOK'
  BY <1>0 DEF TypeOK, queueVars, workerVars
<1>2. Shape'
  BY <1>0 DEF Shape, TypeOK
<1>3. Held' /\ NoDuplicates' /\ Accounts'
  BY <1>0, HeldStable DEF queueVars
<1> QED
  BY <1>1, <1>2, <1>3

\* The executor takes its batch off _jobCount and leaves exactly at 0.
LEMMA SettleInvariant ==
  ASSUME IInv, NEW t \in Threads, Settle(t)
  PROVE  IInv'
<1> USE DEF IInv
<1>0. PICK q \in Queues :
      /\ q = cur[t] /\ exec[t] = "run" /\ running[t] = NoJob
      /\ jobCount' = [jobCount EXCEPT ![q] = @ - size[t]]
      /\ size' = [size EXCEPT ![t] = 0]
      /\ IF jobCount[q] = size[t]
           THEN /\ cur'  = [cur EXCEPT ![t] = NoQueue]
                /\ exec' = [exec EXCEPT ![t] = "none"]
           ELSE /\ exec' = [exec EXCEPT ![t] = "recheck"]
                /\ UNCHANGED cur
      /\ UNCHANGED <<jobs, global, workerVars, batch, running, call, history>>
  BY DEF Settle, Shape, TypeOK
<1>1. /\ jobCount[q] \in Nat /\ size[t] \in Nat /\ Waiting(q) \in Nat
      /\ jobCount[q] = Waiting(q) + size[t]
  BY <1>0, WaitingType DEF Accounts, Account, TypeOK
<1>2. jobCount'[q] = Waiting(q) /\ \A p \in Queues \ {q} : jobCount'[p] = jobCount[p]
  BY <1>0, <1>1 DEF TypeOK
<1>3. /\ \A p \in Queues : Waiting(p)' = Waiting(p)
      /\ \A u \in Threads, p \in Queues : FirstPush(u, p)' <=> FirstPush(u, p)
      /\ \A p \in Queues : InGlobal(p)' <=> InGlobal(p)
  BY <1>0 DEF Waiting, Counted, FirstPush, InGlobal, history
<1>4. TypeOK'
  <2>1. jobCount' \in [Queues -> Nat]
    BY <1>0, <1>1 DEF TypeOK
  <2>2. QED
    BY <1>0, <2>1 DEF TypeOK, workerVars, history
<1>5. Shape'
  BY <1>0, NoQueueIsNone DEF Shape, TypeOK
<1>6. NoDuplicates'
  BY <1>0 DEF NoDuplicates
<1>7. Holds(t, q) /\ ~InGlobal(q) /\ jobCount[q] > 0
      /\ \A u \in Threads : Holds(u, q) => u = t
  BY <1>0 DEF Held, HeldOnce, Holds
<1>8. ~FirstPush(t, q)
  BY <1>0 DEF Held, HeldOnce
<1>9. \A u \in Threads : size'[u] = IF u = t THEN 0 ELSE size[u]
  BY <1>0 DEF TypeOK
<1>10. CASE jobCount[q] = size[t]
  <2>1. Waiting(q) = 0
    BY <1>1, <1>10
  <2>2. \A u \in Threads : cur'[u] = IF u = t THEN NoQueue ELSE cur[u]
    BY <1>0, <1>10 DEF TypeOK
  <2>3. \A u \in Threads : ~Holds(u, q)'
    BY <1>3, <1>7, <1>8, <2>2, NoQueueIsNone DEF Holds
  <2>4. HeldOnce(q)'
    BY <1>2, <1>3, <1>7, <2>1, <2>3 DEF HeldOnce, Holds
  <2>5. \A u \in Threads, p \in Queues \ {q} :
          /\ cur'[u] = p <=> cur[u] = p
          /\ Holds(u, p)' <=> Holds(u, p)
    BY <1>0, <1>3, <2>2, NoQueueIsNone DEF Holds
  <2>6. \A p \in Queues \ {q} : HeldOnce(p)'
    BY <1>2, <1>3, <2>5 DEF Held, HeldOnce
  <2>7. \A u \in Threads : cur'[u] # q
    BY <2>3 DEF Holds
  <2>8. Account(q)'
    BY <1>2, <1>3, <2>7 DEF Account
  <2>9. \A u \in Threads, p \in Queues \ {q} : cur'[u] = p => size'[u] = size[u]
    BY <1>9, <2>2, NoQueueIsNone
  <2>10. \A p \in Queues \ {q} : Account(p)'
    BY <1>2, <1>3, <2>5, <2>9 DEF Accounts, Account
  <2>11. QED
    BY <1>4, <1>5, <1>6, <2>4, <2>6, <2>8, <2>10 DEF Held, Accounts
<1>11. CASE jobCount[q] # size[t]
  <2>1. jobCount'[q] > 0
    BY <1>1, <1>2, <1>11
  <2>2. cur' = cur
    BY <1>0, <1>11
  <2>3. \A p \in Queues : jobCount'[p] > 0 <=> jobCount[p] > 0
    BY <1>2, <1>7, <2>1
  <2>4. Held'
    BY <1>3, <2>2, <2>3 DEF Held, HeldOnce, Holds
  <2>5. \A u \in Threads : cur[u] = q => u = t
    BY <1>7 DEF Holds
  <2>6. jobCount'[q] = Waiting(q)' + 0 /\ size'[t] = 0
    BY <1>1, <1>2, <1>3, <1>9
  <2>7. Account(q)'
    BY <1>0, <2>2, <2>5, <2>6 DEF Account
  <2>8. \A p \in Queues \ {q} : Account(p)'
    BY <1>0, <1>2, <1>3, <1>9, <2>2 DEF Accounts, Account
  <2>9. QED
    BY <1>4, <1>5, <1>6, <2>4, <2>7, <2>8 DEF Accounts
<1> QED
  BY <1>10, <1>11

\* The executor stays for another round.
LEMMA GoOnInvariant ==
  ASSUME IInv, NEW t \in Threads, GoOn(t)
  PROVE  IInv'
<1> USE DEF IInv
<1>0. /\ exec[t] = "recheck"
      /\ exec' = [exec EXCEPT ![t] = "pop"]
      /\ UNCHANGED <<queueVars, workerVars, cur, batch, size, running, call, history>>
  BY DEF GoOn
<1>1. TypeOK'
  BY <1>0 DEF TypeOK, queueVars, workerVars, history
<1>2. Shape'
  BY <1>0 DEF Shape, TypeOK
<1>3. Held' /\ NoDuplicates' /\ Accounts'
  BY <1>0, HeldStable DEF queueVars, history
<1> QED
  BY <1>1, <1>2, <1>3

\* The executor hands the queue to the global queue.
LEMMA HandOverInvariant ==
  ASSUME IInv, NEW t \in Threads, HandOver(t)
  PROVE  IInv'
<1> USE DEF IInv
<1>0. PICK q \in Queues :
      /\ q = cur[t] /\ exec[t] = "recheck" /\ size[t] = 0 /\ running[t] = NoJob
      /\ global' = Append(global, q)
      /\ cur'  = [cur EXCEPT ![t] = NoQueue]
      /\ exec' = [exec EXCEPT ![t] = "none"]
      /\ UNCHANGED <<jobCount, jobs, workerVars, batch, size, running, call, history>>
  BY DEF HandOver, Shape, TypeOK
<1>1. TypeOK'
  BY <1>0 DEF TypeOK, workerVars, history
<1>2. Shape'
  BY <1>0 DEF Shape, TypeOK
<1>3. /\ Holds(t, q) /\ ~FirstPush(t, q)
      /\ ~InGlobal(q) /\ jobCount[q] > 0
      /\ \A u \in Threads : Holds(u, q) => u = t
  BY <1>0 DEF Held, HeldOnce, Holds
<1>4. NoDuplicates'
  <2>1. /\ global \in Seq(Queues) /\ global' = Append(global, q)
        /\ ~\E i \in 1..Len(global) : global[i] = q
        /\ \A i, k \in 1..Len(global) : global[i] = global[k] => i = k
    BY <1>0, <1>3 DEF TypeOK, InGlobal, NoDuplicates
  <2>2. QED
    BY <2>1, AppendDistinct DEF NoDuplicates
<1>5. \A u \in Threads : cur'[u] = IF u = t THEN NoQueue ELSE cur[u]
  BY <1>0 DEF TypeOK
<1>6. \A u \in Threads, p \in Queues : FirstPush(u, p)' <=> FirstPush(u, p)
  BY <1>0 DEF FirstPush
<1>7. \A p \in Queues : InGlobal(p)' <=> p = q \/ InGlobal(p)
  <2>1. global \in Seq(Queues) /\ global' = Append(global, q)
    BY <1>0 DEF TypeOK
  <2>2. ASSUME NEW p \in Queues
        PROVE  (\E i \in 1..Len(Append(global, q)) : Append(global, q)[i] = p)
                 <=> p = q \/ \E i \in 1..Len(global) : global[i] = p
    BY <2>1, AppendMembers
  <2>3. QED
    BY <2>1, <2>2 DEF InGlobal
<1>8. Held'
  <2>1. \A u \in Threads : ~Holds(u, q)'
    BY <1>3, <1>5, <1>6, NoQueueIsNone DEF Holds
  <2>2. HeldOnce(q)'
    BY <1>0, <1>3, <1>7, <2>1 DEF HeldOnce, Holds
  <2>3. \A u \in Threads, p \in Queues \ {q} :
          /\ cur'[u] = p <=> cur[u] = p
          /\ Holds(u, p)' <=> Holds(u, p)
    BY <1>0, <1>5, <1>6, NoQueueIsNone DEF Holds
  <2>4. \A p \in Queues \ {q} : HeldOnce(p)'
    BY <1>0, <1>6, <1>7, <2>3 DEF Held, HeldOnce
  <2>5. QED
    BY <2>2, <2>4 DEF Held
<1>9. Accounts'
  <2>1. \A p \in Queues : Waiting(p)' = Waiting(p)
    BY <1>0 DEF Waiting, Counted, history
  <2>2. jobCount[q] = Waiting(q)
    <3>1. jobCount[q] = Waiting(q) + size[t]
      BY <1>0 DEF Accounts, Account
    <3>2. QED
      BY <1>0, <3>1, WaitingType
  <2>3. \A u \in Threads : cur'[u] # q
    BY <1>3, <1>5, NoQueueIsNone DEF Holds
  <2>4. Account(q)'
    BY <1>0, <2>1, <2>2, <2>3 DEF Account
  <2>5. \A p \in Queues \ {q} : Account(p)'
    BY <1>0, <1>5, <2>1, NoQueueIsNone DEF Accounts, Account
  <2>6. QED
    BY <2>4, <2>5 DEF Accounts
<1> QED
  BY <1>1, <1>2, <1>4, <1>8, <1>9

\* ClearJobs moves waiting jobs from _jobs to lost: the sum stays.
LEMMA ClearJobsInvariant ==
  ASSUME IInv, NEW q \in Queues, ClearJobs(q)
  PROVE  IInv'
<1> USE DEF IInv
<1>0. /\ clears < MaxClears /\ clears' = clears + 1
      /\ lost' = [lost EXCEPT ![q] = @ + Len(jobs[q])]
      /\ jobs' = [jobs EXCEPT ![q] = <<>>]
      /\ UNCHANGED <<jobCount, global, workerVars, execVars, call, sent, done>>
  BY DEF ClearJobs
<1>1. TypeOK'
  <2>1. Len(jobs[q]) \in Nat /\ lost[q] \in Nat
    BY DEF TypeOK
  <2>2. clears' \in 0..MaxClears
    BY <1>0, ClearsBound DEF TypeOK
  <2>3. QED
    BY <1>0, <2>1, <2>2 DEF TypeOK, workerVars, execVars
<1>2. Shape' /\ NoDuplicates' /\ Held'
  BY <1>0 DEF Shape, NoDuplicates, Held, HeldOnce, Holds, FirstPush, InGlobal, execVars
<1>3. Accounts'
  <2>1. \A p \in Queues : Counted(p)' = Counted(p)
    BY <1>0 DEF Counted
  <2>2. \A p \in Queues :
          /\ Len(jobs'[p]) = IF p = q THEN 0 ELSE Len(jobs[p])
          /\ lost'[p] = IF p = q THEN lost[p] + Len(jobs[p]) ELSE lost[p]
          /\ Len(jobs[p]) \in Nat /\ lost[p] \in Nat
    BY <1>0 DEF TypeOK
  <2>3. \A p \in Queues : Waiting(p)' = Waiting(p)
    BY <2>1, <2>2, CountedFinite DEF Waiting
  <2>4. QED
    BY <1>0, <2>3 DEF Accounts, Account, execVars
<1> QED
  BY <1>1, <1>2, <1>3

-----------------------------------------------------------------------------
(* The worker loop *)

\* A worker takes the oldest entry and becomes the executor of its queue.
LEMMA PopGlobalInvariant ==
  ASSUME IInv, NEW t \in Threads, PopGlobal(t)
  PROVE  IInv'
<1> USE DEF IInv
<1>0. PICK q \in Queues :
      /\ q = Head(global) /\ global # <<>>
      /\ cur[t] = NoQueue /\ call[t].at = "none" /\ exec[t] = "none"
      /\ size[t] = 0 /\ running[t] = NoJob
      /\ global' = Tail(global)
      /\ cur'  = [cur EXCEPT ![t] = q]
      /\ exec' = [exec EXCEPT ![t] = "pop"]
      /\ UNCHANGED <<jobCount, jobs, workerVars, batch, size, running, call, history>>
  <2>1. Head(global) \in Queues
    BY DEF PopGlobal, TypeOK
  <2>2. cur[t] = NoQueue /\ exec[t] = "none" /\ size[t] = 0 /\ running[t] = NoJob
    BY DEF PopGlobal, AtLoopLevel, Shape
  <2>3. QED
    BY <2>1, <2>2 DEF PopGlobal, AtLoopLevel
<1>1. TypeOK'
  <2>1. global' \in Seq(Queues)
    BY <1>0 DEF TypeOK
  <2>2. cur' \in [Threads -> Queues \cup {NoQueue}]
    BY <1>0 DEF TypeOK
  <2>3. exec' \in [Threads -> {"none", "pop", "run", "recheck"}]
    BY <1>0 DEF TypeOK
  <2>4. QED
    BY <1>0, <2>1, <2>2, <2>3 DEF TypeOK, workerVars, history
<1>2. Shape'
  BY <1>0, NoQueueIsNone DEF Shape, TypeOK
<1>3. /\ \A p \in Queues : InGlobal(p)' <=> p # q /\ InGlobal(p)
      /\ NoDuplicates'
  <2>1. global \in Seq(Queues) /\ \A i, k \in 1..Len(global) : global[i] = global[k] => i = k
    BY DEF TypeOK, NoDuplicates
  <2>2. ASSUME NEW p \in Queues
        PROVE  /\ (\E i \in 1..Len(Tail(global)) : Tail(global)[i] = p)
                     <=> p # q /\ \E i \in 1..Len(global) : global[i] = p
               /\ \A i, k \in 1..Len(Tail(global)) :
                    Tail(global)[i] = Tail(global)[k] => i = k
    BY <1>0, <2>1, TailMembers
  <2>3. QED
    BY <1>0, <2>2 DEF InGlobal, NoDuplicates
<1>4. InGlobal(q)
  BY <1>0 DEF InGlobal, TypeOK
<1>5. jobCount[q] > 0 /\ \A u \in Threads : ~Holds(u, q)
  BY <1>4 DEF Held, HeldOnce
<1>6. \A u \in Threads, p \in Queues :
        /\ FirstPush(u, p)' <=> FirstPush(u, p)
        /\ ~FirstPush(t, p)
        /\ cur'[u] = IF u = t THEN q ELSE cur[u]
  BY <1>0 DEF FirstPush, TypeOK
<1>7. Held'
  <2>1. \A u \in Threads : Holds(u, q)' <=> u = t
    BY <1>5, <1>6 DEF Holds
  <2>2. HeldOnce(q)'
    BY <1>0, <1>3, <1>5, <1>6, <2>1 DEF HeldOnce, Holds
  <2>3. \A u \in Threads, p \in Queues \ {q} :
          /\ cur'[u] = p <=> cur[u] = p
          /\ Holds(u, p)' <=> Holds(u, p)
    BY <1>0, <1>6, NoQueueIsNone DEF Holds
  <2>4. \A p \in Queues \ {q} : HeldOnce(p)'
    BY <1>0, <1>3, <1>6, <2>3 DEF Held, HeldOnce
  <2>5. QED
    BY <2>2, <2>4 DEF Held
<1>8. Accounts'
  <2>1. \A p \in Queues : Waiting(p)' = Waiting(p)
    BY <1>0 DEF Waiting, Counted, history
  <2>2. \A u \in Threads : cur[u] # q
    BY <1>5 DEF Holds
  <2>3. jobCount[q] = Waiting(q) + size[t]
    BY <1>0, <2>2, WaitingType DEF Accounts, Account
  <2>4. Account(q)'
    BY <1>0, <1>6, <2>1, <2>2, <2>3 DEF Account
  <2>5. \A p \in Queues \ {q} : Account(p)'
    BY <1>0, <1>6, <2>1, NoQueueIsNone DEF Accounts, Account
  <2>6. QED
    BY <2>4, <2>5 DEF Accounts
<1> QED
  BY <1>1, <1>2, <1>3, <1>7, <1>8

\* LeaveDispatch, Renew and Expire touch nothing but phase and late.
LEMMA LoopStepInvariant ==
  ASSUME IInv, NEW t \in Threads, LeaveDispatch(t) \/ Renew(t) \/ Expire(t)
  PROVE  IInv'
<1> USE DEF IInv
<1>0. /\ phase' \in [Threads -> {"dispatch", "global"}] /\ late' \in [Threads -> BOOLEAN]
      /\ UNCHANGED <<queueVars, execVars, call, history>>
  BY DEF LeaveDispatch, Renew, Expire, TypeOK
<1>1. TypeOK' /\ Shape'
  BY <1>0 DEF TypeOK, Shape, queueVars, execVars, history
<1>2. Held' /\ NoDuplicates' /\ Accounts'
  BY <1>0, HeldStable DEF queueVars, execVars, history
<1> QED
  BY <1>1, <1>2

-----------------------------------------------------------------------------
(* The theorems *)

(* IInv is an invariant of the job queues.                                  *)
THEOREM Invariance == Spec => []IInv
<1>1. IInv /\ [Next]_vars => IInv'
  <2> SUFFICES ASSUME IInv, [Next]_vars PROVE IInv'
    OBVIOUS
  <2>1. ASSUME NEW t \in Threads, NEW q \in Queues, NEW j \in Jobs,
               NEW o \in BOOLEAN, BeginPush(t, q, j, o)
        PROVE  IInv'
    BY <2>1, BeginPushInvariant
  <2>2. ASSUME NEW t \in Threads, FinishPush(t) PROVE IInv'
    BY <2>2, EnqueueInvariant, ExecuteInlineInvariant, PushGlobalInvariant
    DEF FinishPush
  <2>3. ASSUME NEW t \in Threads, Execute(t) PROVE IInv'
    BY <2>3, PopAllInvariant, StartJobInvariant, FinishJobInvariant,
       SettleInvariant, GoOnInvariant, HandOverInvariant
    DEF Execute
  <2>4. ASSUME NEW t \in Threads, Loop(t) \/ Expire(t) PROVE IInv'
    <3>1. CASE PopGlobal(t)
      BY <3>1, PopGlobalInvariant
    <3>2. CASE LeaveDispatch(t) \/ Renew(t) \/ Expire(t)
      BY <3>2, LoopStepInvariant
    <3>3. QED
      BY <2>4, <3>1, <3>2 DEF Loop
  <2>5. ASSUME NEW q \in Queues, ClearJobs(q) PROVE IInv'
    BY <2>5, ClearJobsInvariant
  <2>6. CASE UNCHANGED vars
    <3> USE <2>6 DEF vars, queueVars, workerVars, execVars, history, IInv
    <3>1. TypeOK'
      BY DEF TypeOK
    <3>2. Shape'
      BY DEF Shape
    <3>3. Held' /\ NoDuplicates' /\ Accounts'
      BY HeldStable
    <3>4. QED
      BY <3>1, <3>2, <3>3
  <2>7. QED
    BY <2>1, <2>2, <2>3, <2>4, <2>5, <2>6 DEF Next
<1>2. QED
  BY InitInvariant, <1>1, PTL DEF Spec

(* The variables keep their types: in particular _jobCount never becomes    *)
(* negative, although Execute subtracts a number it read without a lock     *)
(* (JobQueue::Execute, fetch_sub).                                          *)
THEOREM TypeCorrect == Spec => []TypeOK
<1>1. IInv => TypeOK
  BY DEF IInv
<1>2. QED
  BY Invariance, <1>1, PTL

(* A queue with jobs has one holder, and one without has none: what Push    *)
(* and Execute rely on when they decide by _jobCount alone who goes on.     *)
THEOREM HeldByOne == Spec => []OneHolder
<1>1. IInv => OneHolder
  BY DEF IInv, Held, OneHolder
<1>2. QED
  BY Invariance, <1>1, PTL

(* At no time do two threads execute the same queue (JobQueue::Push decides *)
(* on prevCount == 0 alone who runs it).                                    *)
THEOREM OneExecutor == Spec => []SingleExecutor
<1>1. IInv => SingleExecutor
  <2> SUFFICES ASSUME IInv, NEW t \in Threads, NEW u \in Threads,
                      cur[t] = cur[u], cur[t] # NoQueue
               PROVE  t = u
    BY DEF SingleExecutor
  <2>1. cur[t] \in Queues
    BY DEF IInv, TypeOK
  <2>2. Holds(t, cur[t]) /\ Holds(u, cur[t])
    BY DEF Holds
  <2>3. QED
    BY <2>1, <2>2 DEF IInv, Held, HeldOnce
<1>2. QED
  BY Invariance, <1>1, PTL

(* _jobCount is at all times the number of jobs it stands for, through the  *)
(* windows that Push and Execute leave between the counter and the list.    *)
THEOREM ExactCount == Spec => []CountExact
<1>1. IInv => CountExact
  <2> SUFFICES ASSUME IInv, NEW q \in Queues
               PROVE  jobCount[q] = Len(jobs[q]) + Cardinality(Counted(q))
                                      + BatchSize(q) + lost[q]
    BY DEF CountExact
  <2>1. /\ Len(jobs[q]) \in Nat /\ lost[q] \in Nat
        /\ Cardinality(Counted(q)) \in Nat
    BY CountedFinite DEF IInv, TypeOK
  <2>2. CASE Executor(q) = {}
    <3>1. jobCount[q] = Waiting(q)
      BY <2>2 DEF IInv, Accounts, Account, Executor
    <3>2. BatchSize(q) = 0
      BY <2>2 DEF BatchSize
    <3>3. QED
      BY <2>1, <3>1, <3>2 DEF Waiting
  <2>3. CASE Executor(q) # {}
    <3>1. PICK t \in Threads : t = CHOOSE u \in Executor(q) : TRUE
      BY <2>3 DEF Executor
    <3>2. cur[t] = q
      BY <2>3, <3>1 DEF Executor
    <3>3. jobCount[q] = Waiting(q) + size[t] /\ size[t] \in Nat
      BY <3>2 DEF IInv, Accounts, Account, TypeOK
    <3>4. BatchSize(q) = size[t]
      BY <2>3, <3>1 DEF BatchSize
    <3>5. QED
      BY <2>1, <3>3, <3>4 DEF Waiting
  <2>4. QED
    BY <2>2, <2>3
<1>2. QED
  BY Invariance, <1>1, PTL

-----------------------------------------------------------------------------
(* The mailbox: IInv, and one clause more that only the refinement needs.   *)

\* A thread has a batch only while it runs it.
Quiet == \A t \in Threads : exec[t] # "run" => batch[t] = <<>>


LEMMA QuietKept == IInv /\ Quiet /\ [Next]_vars => Quiet'
<1> SUFFICES ASSUME IInv, Quiet, [Next]_vars PROVE Quiet'
  OBVIOUS
<1>0. /\ batch \in [Threads -> Seq(Jobs)]
      /\ exec \in [Threads -> {"none", "pop", "run", "recheck"}]
  BY DEF IInv, TypeOK
<1>1. ASSUME UNCHANGED <<exec, batch>> PROVE Quiet'
  BY <1>1 DEF Quiet
<1>2. ASSUME NEW t \in Threads, ExecuteInline(t) \/ PopGlobal(t) PROVE Quiet'
  <2>1. batch[t] = <<>>
    BY <1>2 DEF ExecuteInline, RunsInline, PopGlobal, AtLoopLevel, IInv, Shape, Quiet
  <2>2. QED
    BY <1>0, <1>2, <2>1 DEF ExecuteInline, PopGlobal, Quiet
<1>3. ASSUME NEW t \in Threads, Execute(t) PROVE Quiet'
  <2>1. CASE PopAll(t)
    BY <1>0, <2>1 DEF PopAll, Quiet
  <2>2. CASE StartJob(t)
    BY <1>0, <2>2 DEF StartJob, Quiet
  <2>3. CASE FinishJob(t)
    BY <1>1, <2>3 DEF FinishJob
  <2>4. CASE Settle(t)
    BY <1>0, <2>4 DEF Settle, Quiet
  <2>5. CASE GoOn(t) \/ HandOver(t)
    BY <1>0, <2>5 DEF GoOn, HandOver, Quiet
  <2>6. QED
    BY <1>3, <2>1, <2>2, <2>3, <2>4, <2>5 DEF Execute
<1>4. QED
  BY <1>1, <1>2, <1>3
  DEF Next, vars, execVars, BeginPush, FinishPush, Enqueue, PushGlobal, Loop,
      LeaveDispatch, Renew, Expire, ClearJobs

\* What the refinement mapping is, with the executor named.
Mapped ==
  \A q \in Queues :
    /\ (\A t \in Threads : cur[t] # q) => PendingJobs[q] = jobs[q] /\ BusyJob[q] = NoJob
    /\ \A t \in Threads :
         cur[t] = q => PendingJobs[q] = batch[t] \o jobs[q] /\ BusyJob[q] = running[t]

(* A queue is executed by one thread at most, so that the mapping can name  *)
(* the executor instead of choosing it.                                     *)
LEMMA MappingByExecutor == IInv => Mapped
<1> SUFFICES ASSUME IInv, NEW q \in Queues
             PROVE  /\ (\A t \in Threads : cur[t] # q) =>
                         PendingJobs[q] = jobs[q] /\ BusyJob[q] = NoJob
                    /\ \A t \in Threads :
                         cur[t] = q => /\ PendingJobs[q] = batch[t] \o jobs[q]
                                       /\ BusyJob[q] = running[t]
  BY DEF Mapped
<1>1. ASSUME \A t \in Threads : cur[t] # q
      PROVE  PendingJobs[q] = jobs[q] /\ BusyJob[q] = NoJob
  BY <1>1 DEF Executor, PendingJobs, BusyJob
<1>2. ASSUME NEW t \in Threads, cur[t] = q
      PROVE  PendingJobs[q] = batch[t] \o jobs[q] /\ BusyJob[q] = running[t]
  <2>1. \A u \in Threads : cur[u] = q => u = t
    BY <1>2 DEF IInv, Held, HeldOnce, Holds
  <2>2. Executor(q) = {t}
    BY <1>2, <2>1 DEF Executor
  <2>3. (CHOOSE u \in Executor(q) : TRUE) = t
    BY <2>2
  <2>4. QED
    BY <2>2, <2>3 DEF PendingJobs, BusyJob
<1>3. QED
  BY <1>1, <1>2

(* A sequence cut to the length of its first part is that part.             *)
LEMMA FrontOfConcat ==
  ASSUME NEW S, NEW s \in Seq(S), NEW r \in Seq(S)
  PROVE  SubSeq(s \o r, 1, Len(s)) = s
<1>1. CASE s = <<>>
  BY <1>1, SubSeqEmpty
<1>2. CASE s # <<>>
  <2>1. Len(s) \in 1..Len(s) /\ 1 \in 1..Len(s)
    BY <1>2, EmptySeq
  <2>2. SubSeq(s \o r, 1, Len(s)) = SubSeq(s, 1, Len(s))
    BY <2>1, SubSeqOfConcat1
  <2>3. QED
    BY <2>2, SubSeqFull
<1>3. QED
  BY <1>1, <1>2

(* The first part of a sequence is not longer than the whole.               *)
LEMMA LenOfConcat ==
  ASSUME NEW S, NEW s \in Seq(S), NEW r \in Seq(S)
  PROVE  Len(s) \in 0..Len(s \o r)
<1>1. /\ Len(s) \in Nat /\ Len(r) \in Nat
      /\ Len(s \o r) = Len(s) + Len(r)
  BY LenProperties, ConcatProperties
<1>2. PICK n \in Nat, m \in Nat : n = Len(s) /\ m = Len(r)
  BY <1>1
<1>3. n \in 0..(n + m)
  OBVIOUS
<1>4. QED
  BY <1>1, <1>2, <1>3

(* What is appended to the second part is appended to the whole.            *)
LEMMA AppendOfConcat ==
  ASSUME NEW S, NEW s \in Seq(S), NEW r \in Seq(S), NEW e \in S
  PROVE  s \o Append(r, e) = Append(s \o r, e)
<1>1. Append(r, e) = r \o <<e>> /\ <<e>> \in Seq(S)
  BY AppendIsConcat
<1>2. s \o r \in Seq(S)
  BY ConcatProperties
<1>3. Append(s \o r, e) = (s \o r) \o <<e>>
  BY <1>2, AppendIsConcat
<1>4. QED
  BY <1>1, <1>3, ConcatAssociative

(* Head and tail of a sequence are those of its first part.                 *)
LEMMA HeadOfConcat ==
  ASSUME NEW S, NEW s \in Seq(S), NEW r \in Seq(S), s # <<>>
  PROVE  /\ s \o r # <<>>
         /\ Head(s \o r) = Head(s)
         /\ Tail(s \o r) = Tail(s) \o r
<1>1. /\ s \o r \in Seq(S) /\ Len(s \o r) = Len(s) + Len(r)
      /\ \A i \in 1..Len(s) + Len(r) :
           (s \o r)[i] = IF i <= Len(s) THEN s[i] ELSE r[i - Len(s)]
  BY ConcatProperties
<1>2. Len(s) \in Nat \ {0} /\ Len(r) \in Nat
  BY EmptySeq, LenProperties
<1>3. s \o r # <<>> /\ Head(s \o r) = Head(s)
  BY <1>1, <1>2
<1>4. /\ Tail(s) \in Seq(S) /\ Len(Tail(s)) = Len(s) - 1
      /\ \A i \in 1..Len(Tail(s)) : Tail(s)[i] = s[i + 1]
  BY HeadTailProperties
<1>5. /\ Tail(s \o r) \in Seq(S) /\ Len(Tail(s \o r)) = Len(s) + Len(r) - 1
      /\ \A i \in 1..Len(s) + Len(r) - 1 : Tail(s \o r)[i] = (s \o r)[i + 1]
  BY <1>1, <1>2, <1>3, HeadTailProperties
<1>6. /\ Tail(s) \o r \in Seq(S) /\ Len(Tail(s) \o r) = Len(s) - 1 + Len(r)
      /\ \A i \in 1..Len(s) - 1 + Len(r) :
           (Tail(s) \o r)[i] =
             IF i <= Len(s) - 1 THEN Tail(s)[i] ELSE r[i - (Len(s) - 1)]
  BY <1>4, ConcatProperties
<1>7. \A i \in 1..Len(Tail(s \o r)) : Tail(s \o r)[i] = (Tail(s) \o r)[i]
  BY <1>1, <1>2, <1>4, <1>5, <1>6
<1>8. QED
  BY <1>2, <1>3, <1>5, <1>6, <1>7, SeqEqual


(* A queue that no thread takes up or leaves, and whose jobs and whose      *)
(* executor's batch stay, is the same mailbox.                              *)
LEMMA SameMailbox ==
  ASSUME Mapped, Mapped', NEW p \in Queues,
         \A u \in Threads : cur'[u] = p <=> cur[u] = p,
         \A u \in Threads : cur[u] = p => batch'[u] = batch[u] /\ running'[u] = running[u],
         jobs'[p] = jobs[p]
  PROVE  PendingJobs'[p] = PendingJobs[p] /\ BusyJob'[p] = BusyJob[p]
<1>1. CASE \A u \in Threads : cur[u] # p
  BY <1>1 DEF Mapped
<1>2. CASE \E u \in Threads : cur[u] = p
  <2>1. PICK u \in Threads : cur[u] = p
    BY <1>2
  <2>2. PendingJobs'[p] = batch'[u] \o jobs'[p] /\ BusyJob'[p] = running'[u]
    BY <2>1 DEF Mapped
  <2>3. PendingJobs[p] = batch[u] \o jobs[p] /\ BusyJob[p] = running[u]
    BY <2>1 DEF Mapped
  <2>4. QED
    BY <2>1, <2>2, <2>3
<1>3. QED
  BY <1>1, <1>2

(* A thread that takes a queue up with nothing of its own to run, or leaves *)
(* it so, changes nothing for the mailbox.                                  *)
LEMMA TakeUpStutters ==
  ASSUME TypeOK, Mapped, Mapped', NEW t \in Threads, NEW q \in Queues,
         cur[t] = NoQueue, cur' = [cur EXCEPT ![t] = q],
         \A u \in Threads : cur[u] # q,
         batch[t] = <<>>, running[t] = NoJob,
         UNCHANGED <<jobs, batch, running, done>>
  PROVE  UNCHANGED M!mailboxVars
<1>1. \A u \in Threads : cur'[u] = IF u = t THEN q ELSE cur[u]
  BY DEF TypeOK
<1>2. ASSUME NEW p \in Queues
      PROVE  PendingJobs'[p] = PendingJobs[p] /\ BusyJob'[p] = BusyJob[p]
  <2>1. CASE p = q
    <3>1. PendingJobs[q] = jobs[q] /\ BusyJob[q] = NoJob
      BY DEF Mapped
    <3>2. PendingJobs'[q] = batch'[t] \o jobs'[q] /\ BusyJob'[q] = running'[t]
      <4>1. cur'[t] = q
        BY <1>1
      <4>2. QED
        BY <4>1 DEF Mapped
    <3>3. <<>> \o jobs[q] = jobs[q]
      BY ConcatEmptySeq DEF TypeOK
    <3>4. QED
      BY <2>1, <3>1, <3>2, <3>3
  <2>2. CASE p # q
    <3>1. \A u \in Threads : cur'[u] = p <=> cur[u] = p
      BY <1>1, <2>2, NoQueueIsNone
    <3>2. QED
      BY <3>1, SameMailbox
  <2>3. QED
    BY <2>1, <2>2
<1>3. PendingJobs' = PendingJobs /\ BusyJob' = BusyJob
  BY <1>2 DEF PendingJobs, BusyJob
<1>4. QED
  BY <1>3 DEF M!mailboxVars

(* The same the other way round: Settle and HandOver leave a queue only     *)
(* when the batch is done.                                                  *)
LEMMA LeaveStutters ==
  ASSUME TypeOK, Mapped, Mapped', NEW t \in Threads, NEW q \in Queues,
         cur[t] = q, cur' = [cur EXCEPT ![t] = NoQueue],
         \A u \in Threads : cur[u] = q => u = t,
         batch[t] = <<>>, running[t] = NoJob,
         UNCHANGED <<jobs, batch, running, done>>
  PROVE  UNCHANGED M!mailboxVars
<1>1. \A u \in Threads : cur'[u] = IF u = t THEN NoQueue ELSE cur[u]
  BY DEF TypeOK
<1>2. ASSUME NEW p \in Queues
      PROVE  PendingJobs'[p] = PendingJobs[p] /\ BusyJob'[p] = BusyJob[p]
  <2>1. CASE p = q
    <3>1. PendingJobs[q] = batch[t] \o jobs[q] /\ BusyJob[q] = running[t]
      BY DEF Mapped
    <3>2. PendingJobs'[q] = jobs'[q] /\ BusyJob'[q] = NoJob
      <4>1. \A u \in Threads : cur'[u] # q
        BY <1>1, NoQueueIsNone
      <4>2. QED
        BY <4>1 DEF Mapped
    <3>3. <<>> \o jobs[q] = jobs[q]
      BY ConcatEmptySeq DEF TypeOK
    <3>4. QED
      BY <2>1, <3>1, <3>2, <3>3
  <2>2. CASE p # q
    <3>1. \A u \in Threads : cur'[u] = p <=> cur[u] = p
      BY <1>1, <2>2, NoQueueIsNone
    <3>2. QED
      BY <3>1, SameMailbox
  <2>3. QED
    BY <2>1, <2>2
<1>3. PendingJobs' = PendingJobs /\ BusyJob' = BusyJob
  BY <1>2 DEF PendingJobs, BusyJob
<1>4. QED
  BY <1>3 DEF M!mailboxVars

(* A step that changes the mailbox of one queue, or none of it, maps to     *)
(* what it does there.                                                      *)
LEMMA MailboxUpdate ==
  ASSUME NEW q \in Queues, NEW e, NEW b,
         PendingJobs'[q] = e, BusyJob'[q] = b,
         \A p \in Queues \ {q} : PendingJobs'[p] = PendingJobs[p] /\ BusyJob'[p] = BusyJob[p]
  PROVE  /\ PendingJobs' = [PendingJobs EXCEPT ![q] = e]
         /\ BusyJob' = [BusyJob EXCEPT ![q] = b]
<1>1. /\ PendingJobs = [p \in Queues |-> PendingJobs[p]]
      /\ BusyJob = [p \in Queues |-> BusyJob[p]]
  BY DEF PendingJobs, BusyJob
<1>2. /\ PendingJobs' = [p \in Queues |-> PendingJobs'[p]]
      /\ BusyJob' = [p \in Queues |-> BusyJob'[p]]
  BY DEF PendingJobs, BusyJob
<1>3. QED
  BY <1>1, <1>2

\* Enqueue is the mailbox's Send: the job comes last, behind the batch too.
LEMMA EnqueueMaps ==
  ASSUME IInv, Mapped, Mapped', NEW t \in Threads, Enqueue(t)
  PROVE  M!MNext
<1>1. PICK q \in Queues, j \in Jobs :
        /\ jobs' = [jobs EXCEPT ![q] = Append(@, j)]
        /\ UNCHANGED <<cur, batch, running, done>>
  BY DEF Enqueue, IInv, Shape, execVars, history
<1>2. /\ jobs \in [Queues -> Seq(Jobs)] /\ batch \in [Threads -> Seq(Jobs)]
      /\ jobs[q] \in Seq(Jobs) /\ jobs'[q] = Append(jobs[q], j)
      /\ \A p \in Queues \ {q} : jobs'[p] = jobs[p]
  BY <1>1 DEF IInv, TypeOK
<1>3. \A p \in Queues \ {q} : PendingJobs'[p] = PendingJobs[p] /\ BusyJob'[p] = BusyJob[p]
  BY <1>1, <1>2, SameMailbox
<1>4. PendingJobs'[q] = Append(PendingJobs[q], j) /\ BusyJob'[q] = BusyJob[q]
  <2>1. CASE \A u \in Threads : cur[u] # q
    BY <1>1, <1>2, <2>1 DEF Mapped
  <2>2. ASSUME NEW u \in Threads, cur[u] = q
        PROVE  PendingJobs'[q] = Append(PendingJobs[q], j) /\ BusyJob'[q] = BusyJob[q]
    <3>1. PendingJobs'[q] = batch'[u] \o jobs'[q] /\ BusyJob'[q] = running'[u]
      <4>1. cur'[u] = q
        BY <1>1, <2>2
      <4>2. QED
        BY <4>1 DEF Mapped
    <3>2. PendingJobs[q] = batch[u] \o jobs[q] /\ BusyJob[q] = running[u]
      BY <2>2 DEF Mapped
    <3>3. batch[u] \in Seq(Jobs)
      BY <1>2
    <3>4. batch[u] \o Append(jobs[q], j) = Append(batch[u] \o jobs[q], j)
      BY <1>2, <3>3, AppendOfConcat
    <3>5. QED
      BY <1>1, <1>2, <3>1, <3>2, <3>4
  <2>3. QED
    BY <2>1, <2>2
<1>5. /\ PendingJobs' = [PendingJobs EXCEPT ![q] = Append(PendingJobs[q], j)]
      /\ BusyJob' = [BusyJob EXCEPT ![q] = BusyJob[q]]
  BY <1>3, <1>4, MailboxUpdate
<1>6. BusyJob' = BusyJob
  BY <1>3, <1>4 DEF BusyJob
<1>7. M!Send(q, j)
  BY <1>1, <1>5, <1>6 DEF M!Send
<1>8. QED
  BY <1>7 DEF M!MNext

\* StartJob is Start, for the queue that t executes.
LEMMA StartJobMaps ==
  ASSUME IInv, Mapped, Mapped', NEW t \in Threads, StartJob(t)
  PROVE  M!MNext
<1>1. PICK q \in Queues :
        /\ cur[t] = q /\ running[t] = NoJob /\ batch[t] # <<>>
        /\ running' = [running EXCEPT ![t] = Head(batch[t])]
        /\ batch'   = [batch EXCEPT ![t] = Tail(@)]
        /\ UNCHANGED <<jobs, cur, done>>
  BY DEF StartJob, IInv, Shape, TypeOK, queueVars, history
<1>2. /\ jobs[q] \in Seq(Jobs) /\ batch[t] \in Seq(Jobs)
      /\ running'[t] = Head(batch[t]) /\ batch'[t] = Tail(batch[t])
      /\ \A u \in Threads \ {t} : running'[u] = running[u] /\ batch'[u] = batch[u]
  BY <1>1 DEF IInv, TypeOK
<1>3. ASSUME NEW p \in Queues \ {q}
      PROVE  PendingJobs'[p] = PendingJobs[p] /\ BusyJob'[p] = BusyJob[p]
  <2>1. \A u \in Threads : cur[u] = p => batch'[u] = batch[u] /\ running'[u] = running[u]
    BY <1>1, <1>2
  <2>2. QED
    BY <1>1, <2>1, SameMailbox
<1>4. /\ PendingJobs[q] = batch[t] \o jobs[q] /\ BusyJob[q] = NoJob
      /\ PendingJobs'[q] = Tail(batch[t]) \o jobs[q] /\ BusyJob'[q] = Head(batch[t])
  <2>1. PendingJobs[q] = batch[t] \o jobs[q] /\ BusyJob[q] = running[t]
    BY <1>1 DEF Mapped
  <2>2. PendingJobs'[q] = batch'[t] \o jobs'[q] /\ BusyJob'[q] = running'[t]
    <3>1. cur'[t] = q
      BY <1>1
    <3>2. QED
      BY <3>1 DEF Mapped
  <2>3. QED
    BY <1>1, <1>2, <2>1, <2>2
<1>5. /\ PendingJobs[q] # <<>>
      /\ PendingJobs'[q] = Tail(PendingJobs[q]) /\ BusyJob'[q] = Head(PendingJobs[q])
  <2>1. /\ batch[t] \o jobs[q] # <<>>
        /\ Head(batch[t] \o jobs[q]) = Head(batch[t])
        /\ Tail(batch[t] \o jobs[q]) = Tail(batch[t]) \o jobs[q]
    BY <1>1, <1>2, HeadOfConcat
  <2>2. QED
    BY <1>4, <2>1
<1>6. /\ PendingJobs' = [PendingJobs EXCEPT ![q] = Tail(PendingJobs[q])]
      /\ BusyJob' = [BusyJob EXCEPT ![q] = Head(PendingJobs[q])]
  BY <1>3, <1>5, MailboxUpdate
<1>7. M!Start(q)
  BY <1>1, <1>4, <1>5, <1>6 DEF M!Start
<1>8. QED
  BY <1>7 DEF M!MNext

\* FinishJob is Finish.
LEMMA FinishJobMaps ==
  ASSUME IInv, Mapped, Mapped', NEW t \in Threads, FinishJob(t)
  PROVE  M!MNext
<1>1. PICK q \in Queues :
        /\ cur[t] = q /\ running[t] # NoJob
        /\ done' = [done EXCEPT ![q] = Append(@, running[t])]
        /\ running' = [running EXCEPT ![t] = NoJob]
        /\ UNCHANGED <<jobs, cur, batch>>
  BY DEF FinishJob, IInv, Shape, TypeOK, queueVars
<1>2. /\ running'[t] = NoJob
      /\ \A u \in Threads \ {t} : running'[u] = running[u]
  BY <1>1 DEF IInv, TypeOK
<1>3. ASSUME NEW p \in Queues \ {q}
      PROVE  PendingJobs'[p] = PendingJobs[p] /\ BusyJob'[p] = BusyJob[p]
  <2>1. \A u \in Threads : cur[u] = p => batch'[u] = batch[u] /\ running'[u] = running[u]
    BY <1>1, <1>2
  <2>2. QED
    BY <1>1, <2>1, SameMailbox
<1>4. PendingJobs[q] = batch[t] \o jobs[q] /\ BusyJob[q] = running[t]
  BY <1>1 DEF Mapped
<1>5. PendingJobs'[q] = batch'[t] \o jobs'[q] /\ BusyJob'[q] = running'[t]
  <2>1. cur'[t] = q
    BY <1>1
  <2>2. QED
    BY <2>1 DEF Mapped
<1>6. PendingJobs'[q] = PendingJobs[q] /\ BusyJob'[q] = NoJob
  BY <1>1, <1>2, <1>4, <1>5
<1>7. /\ PendingJobs' = [PendingJobs EXCEPT ![q] = PendingJobs[q]]
      /\ BusyJob' = [BusyJob EXCEPT ![q] = NoJob]
  BY <1>3, <1>6, MailboxUpdate
<1>8. PendingJobs' = PendingJobs
  BY <1>3, <1>6 DEF PendingJobs
<1>9. M!Finish(q)
  BY <1>1, <1>4, <1>7, <1>8 DEF M!Finish
<1>10. QED
  BY <1>9 DEF M!MNext

\* ClearJobs is Discard: it keeps the batch, the first part of what waits.
LEMMA ClearJobsMaps ==
  ASSUME IInv, Mapped, Mapped', NEW q \in Queues, ClearJobs(q)
  PROVE  M!MNext
<1>1. /\ jobs' = [jobs EXCEPT ![q] = <<>>]
      /\ UNCHANGED <<cur, batch, running, done>>
  BY DEF ClearJobs, execVars
<1>2. /\ jobs[q] \in Seq(Jobs) /\ jobs'[q] = <<>>
      /\ \A p \in Queues \ {q} : jobs'[p] = jobs[p]
  BY <1>1 DEF IInv, TypeOK
<1>3. \A p \in Queues \ {q} : PendingJobs'[p] = PendingJobs[p] /\ BusyJob'[p] = BusyJob[p]
  BY <1>1, <1>2, SameMailbox
<1>4. PICK n \in 0..Len(PendingJobs[q]) :
        PendingJobs'[q] = SubSeq(PendingJobs[q], 1, n) /\ BusyJob'[q] = BusyJob[q]
  <2>1. ASSUME \A u \in Threads : cur[u] # q
        PROVE  /\ 0 \in 0..Len(PendingJobs[q])
               /\ PendingJobs'[q] = SubSeq(PendingJobs[q], 1, 0)
               /\ BusyJob'[q] = BusyJob[q]
    <3>1. PendingJobs[q] = jobs[q] /\ BusyJob[q] = NoJob
      BY <2>1 DEF Mapped
    <3>2. PendingJobs'[q] = jobs'[q] /\ BusyJob'[q] = NoJob
      <4>1. \A u \in Threads : cur'[u] # q
        BY <1>1, <2>1
      <4>2. QED
        BY <4>1 DEF Mapped
    <3>3. SubSeq(jobs[q], 1, 0) = <<>> /\ Len(jobs[q]) \in Nat
      BY <1>2, SubSeqEmpty, LenProperties
    <3>4. QED
      BY <1>2, <3>1, <3>2, <3>3
  <2>2. ASSUME NEW u \in Threads, cur[u] = q
        PROVE  /\ Len(batch[u]) \in 0..Len(PendingJobs[q])
               /\ PendingJobs'[q] = SubSeq(PendingJobs[q], 1, Len(batch[u]))
               /\ BusyJob'[q] = BusyJob[q]
    <3>1. PendingJobs[q] = batch[u] \o jobs[q] /\ BusyJob[q] = running[u]
      BY <2>2 DEF Mapped
    <3>2. PendingJobs'[q] = batch'[u] \o jobs'[q] /\ BusyJob'[q] = running'[u]
      <4>1. cur'[u] = q
        BY <1>1, <2>2
      <4>2. QED
        BY <4>1 DEF Mapped
    <3>3. batch[u] \in Seq(Jobs)
      BY DEF IInv, TypeOK
    <3>4. /\ batch[u] \o <<>> = batch[u]
          /\ SubSeq(batch[u] \o jobs[q], 1, Len(batch[u])) = batch[u]
      BY <1>2, <3>3, ConcatEmptySeq, FrontOfConcat
    <3>5. Len(batch[u]) \in 0..Len(batch[u] \o jobs[q])
      BY <1>2, <3>3, LenOfConcat
    <3>6. QED
      BY <1>1, <1>2, <3>1, <3>2, <3>4, <3>5
  <2>3. QED
    BY <2>1, <2>2
<1>5. /\ PendingJobs' = [PendingJobs EXCEPT ![q] = SubSeq(PendingJobs[q], 1, n)]
      /\ BusyJob' = [BusyJob EXCEPT ![q] = BusyJob[q]]
  BY <1>3, <1>4, MailboxUpdate
<1>6. BusyJob' = BusyJob
  BY <1>3, <1>4 DEF BusyJob
<1>7. M!Discard(q)
  BY <1>1, <1>5, <1>6 DEF M!Discard
<1>8. QED
  BY <1>7 DEF M!MNext

\* A step that leaves the lists and the executors alone.
LEMMA UntouchedStutters ==
  ASSUME UNCHANGED <<jobs, cur, batch, running, done>>
  PROVE  UNCHANGED M!mailboxVars
BY DEF M!mailboxVars, PendingJobs, BusyJob, Executor

\* PopAll moves _jobs into the batch: together they hold what they held.
LEMMA PopAllStutters ==
  ASSUME IInv, Quiet, Mapped, Mapped', NEW t \in Threads, PopAll(t)
  PROVE  UNCHANGED M!mailboxVars
<1>1. PICK q \in Queues :
        /\ cur[t] = q /\ batch[t] = <<>>
        /\ batch' = [batch EXCEPT ![t] = jobs[q]]
        /\ jobs'  = [jobs EXCEPT ![q] = <<>>]
        /\ UNCHANGED <<cur, running, done>>
  BY DEF PopAll, IInv, Shape, TypeOK, Quiet, history
<1>2. /\ jobs[q] \in Seq(Jobs) /\ jobs'[q] = <<>> /\ batch'[t] = jobs[q]
      /\ \A p \in Queues \ {q} : jobs'[p] = jobs[p]
      /\ \A u \in Threads \ {t} : batch'[u] = batch[u]
  BY <1>1 DEF IInv, TypeOK
<1>3. ASSUME NEW p \in Queues
      PROVE  PendingJobs'[p] = PendingJobs[p] /\ BusyJob'[p] = BusyJob[p]
  <2>1. CASE p = q
    <3>1. PendingJobs[q] = batch[t] \o jobs[q] /\ BusyJob[q] = running[t]
      BY <1>1 DEF Mapped
    <3>2. PendingJobs'[q] = batch'[t] \o jobs'[q] /\ BusyJob'[q] = running'[t]
      <4>1. cur'[t] = q
        BY <1>1
      <4>2. QED
        BY <4>1 DEF Mapped
    <3>3. <<>> \o jobs[q] = jobs[q] /\ jobs[q] \o <<>> = jobs[q]
      BY <1>2, ConcatEmptySeq
    <3>4. QED
      BY <1>1, <1>2, <2>1, <3>1, <3>2, <3>3
  <2>2. CASE p # q
    <3>1. \A u \in Threads : cur[u] = p => batch'[u] = batch[u] /\ running'[u] = running[u]
      BY <1>1, <1>2, <2>2
    <3>2. QED
      BY <1>1, <1>2, <2>2, <3>1, SameMailbox
  <2>3. QED
    BY <2>1, <2>2
<1>4. PendingJobs' = PendingJobs /\ BusyJob' = BusyJob
  BY <1>3 DEF PendingJobs, BusyJob
<1>5. QED
  BY <1>1, <1>4 DEF M!mailboxVars

\* A first push, or a worker at the global queue, takes up an idle queue.
LEMMA BecomeExecutorStutters ==
  ASSUME IInv, Quiet, Mapped, Mapped', NEW t \in Threads,
         ExecuteInline(t) \/ PopGlobal(t)
  PROVE  UNCHANGED M!mailboxVars
<1>1. PICK q \in Queues :
        /\ cur[t] = NoQueue /\ exec[t] = "none"
        /\ cur' = [cur EXCEPT ![t] = q]
        /\ \A u \in Threads : cur[u] # q
        /\ UNCHANGED <<jobs, batch, running, done>>
  <2>1. CASE ExecuteInline(t)
    <3>1. /\ call[t].queue \in Queues /\ FirstPush(t, call[t].queue)
          /\ cur[t] = NoQueue /\ exec[t] = "none"
      BY <2>1 DEF ExecuteInline, RunsInline, IInv, Shape, FirstPush
    <3>2. \A u \in Threads : cur[u] # call[t].queue
      BY <3>1 DEF IInv, Held, HeldOnce, Holds
    <3>3. QED
      BY <2>1, <3>1, <3>2 DEF ExecuteInline, queueVars, history
  <2>2. CASE PopGlobal(t)
    <3>1. /\ Head(global) \in Queues /\ InGlobal(Head(global))
          /\ cur[t] = NoQueue /\ exec[t] = "none"
      BY <2>2 DEF PopGlobal, AtLoopLevel, IInv, Shape, TypeOK, InGlobal
    <3>2. \A u \in Threads : cur[u] # Head(global)
      BY <3>1 DEF IInv, Held, HeldOnce, Holds
    <3>3. QED
      BY <2>2, <3>1, <3>2 DEF PopGlobal, history
  <2>3. QED
    BY <2>1, <2>2
<1>2. TypeOK /\ batch[t] = <<>> /\ running[t] = NoJob
  BY <1>1 DEF IInv, Shape, Quiet
<1>3. QED
  BY <1>1, <1>2, TakeUpStutters

\* Settle and HandOver leave the queue, or leave all as it is.
LEMMA LeaveQueueStutters ==
  ASSUME IInv, Quiet, Mapped, Mapped', NEW t \in Threads,
         Settle(t) \/ HandOver(t)
  PROVE  UNCHANGED M!mailboxVars
<1>1. /\ batch[t] = <<>> /\ running[t] = NoJob /\ cur[t] \in Queues
      /\ UNCHANGED <<jobs, batch, running, done>>
      /\ UNCHANGED cur \/ cur' = [cur EXCEPT ![t] = NoQueue]
  <2>1. CASE Settle(t)
    BY <2>1 DEF Settle, IInv, Shape, TypeOK, history
  <2>2. CASE HandOver(t)
    BY <2>2 DEF HandOver, IInv, Shape, TypeOK, Quiet, history
  <2>3. QED
    BY <2>1, <2>2
<1>2. CASE UNCHANGED cur
  BY <1>1, <1>2, UntouchedStutters
<1>3. CASE cur' = [cur EXCEPT ![t] = NoQueue]
  <2>1. PICK q \in Queues : cur[t] = q
    BY <1>1
  <2>2. TypeOK /\ \A u \in Threads : cur[u] = q => u = t
    BY <2>1 DEF IInv, Held, HeldOnce, Holds
  <2>3. QED
    BY <1>1, <1>3, <2>1, <2>2, LeaveStutters
<1>4. QED
  BY <1>1, <1>2, <1>3

(* Every step of the queues is a step of the mailbox or leaves it alone.    *)
LEMMA StepMaps ==
  IInv /\ Quiet /\ Mapped /\ Mapped' /\ [Next]_vars => [M!MNext]_(M!mailboxVars)
<1> SUFFICES ASSUME IInv, Quiet, Mapped, Mapped', [Next]_vars
             PROVE  M!MNext \/ UNCHANGED M!mailboxVars
  OBVIOUS
<1>1. ASSUME NEW t \in Threads, FinishPush(t)
      PROVE  M!MNext \/ UNCHANGED M!mailboxVars
  <2>1. CASE PushGlobal(t)
    BY <2>1, UntouchedStutters DEF PushGlobal, execVars, history
  <2>2. QED
    BY <1>1, <2>1, EnqueueMaps, BecomeExecutorStutters DEF FinishPush
<1>2. ASSUME NEW t \in Threads, Execute(t)
      PROVE  M!MNext \/ UNCHANGED M!mailboxVars
  <2>1. CASE GoOn(t)
    BY <2>1, UntouchedStutters DEF GoOn, queueVars, history
  <2>2. QED
    BY <1>2, <2>1, PopAllStutters, StartJobMaps, FinishJobMaps, LeaveQueueStutters
    DEF Execute
<1>3. ASSUME NEW t \in Threads, Loop(t) \/ Expire(t)
      PROVE  M!MNext \/ UNCHANGED M!mailboxVars
  <2>1. CASE PopGlobal(t)
    BY <2>1, BecomeExecutorStutters
  <2>2. CASE LeaveDispatch(t) \/ Renew(t) \/ Expire(t)
    BY <2>2, UntouchedStutters
    DEF LeaveDispatch, Renew, Expire, queueVars, execVars, history
  <2>3. QED
    BY <1>3, <2>1, <2>2 DEF Loop
<1>4. ASSUME NEW t \in Threads, NEW q \in Queues, NEW j \in Jobs, NEW o \in BOOLEAN,
             BeginPush(t, q, j, o)
      PROVE  M!MNext \/ UNCHANGED M!mailboxVars
  BY <1>4, UntouchedStutters DEF BeginPush, execVars
<1>5. CASE UNCHANGED vars
  BY <1>5, UntouchedStutters DEF vars, queueVars, execVars, history
<1>6. QED
  BY <1>1, <1>2, <1>3, <1>4, <1>5, ClearJobsMaps DEF Next

(* The job queues, with their counters, batches, worker threads and global  *)
(* queue, do what the Mailbox promises: one job of a queue at a time, in    *)
(* the order of the pushes, each of them once (JobQueue::Push, Execute).    *)
THEOREM MailboxImplemented == Spec => ImplementsMailbox
<1>1. Init => Quiet /\ M!MInit
  <2> SUFFICES ASSUME Init PROVE Quiet /\ M!MInit
    OBVIOUS
  <2>1. Quiet
    BY DEF Init, Quiet
  <2>2. \A q \in Queues : Executor(q) = {}
    BY NoQueueIsNone DEF Init, Executor
  <2>3. /\ PendingJobs = [q \in Queues |-> <<>>]
        /\ BusyJob = [q \in Queues |-> NoJob]
    BY <2>2 DEF Init, PendingJobs, BusyJob
  <2>4. QED
    BY <2>1, <2>3 DEF Init, M!MInit
<1>2. QED
  BY <1>1, Invariance, QuietKept, MappingByExecutor, StepMaps, PTL
  DEF Spec, ImplementsMailbox, M!MailboxSpec

=============================================================================
