------------------------------ MODULE JobQueue ------------------------------
(***************************************************************************)
(* ServerCore's job queues and the worker threads that run them:           *)
(* JobQueue::Push / Execute / ClearJobs over the LockQueue _jobs and the   *)
(* atomic _jobCount, the GlobalQueue of job queues, and the worker loop    *)
(* (DoWorkerJob, ThreadManager::DoGlobalQueueWork).                        *)
(*                                                                         *)
(* A LockQueue operation runs under its write lock and is one step.  So is *)
(* an atomic read-modify-write, with the thread-local code next to it: a   *)
(* thread may be preempted between any two accesses to shared state.       *)
(***************************************************************************)
EXTENDS Integers, Sequences, FiniteSets

CONSTANTS Threads,    \* the threads that ThreadManager launched, and main
          Queues,     \* the JobQueue objects (lobby, rooms, ...)
          Jobs,       \* Job objects, each of them pushed at most once
          NoQueue,    \* nullptr, as the value of LCurrentJobQueue
          NoJob,      \* "no job"
          MaxClears   \* bound: calls of ClearJobs in one behaviour

ASSUME ThreadsFinite == IsFiniteSet(Threads)
ASSUME NoQueueIsNone == NoQueue \notin Queues
ASSUME NoJobIsNone   == NoJob \notin Jobs
ASSUME ClearsBound   == MaxClears \in Nat

VARIABLES
  jobCount,   \* [Queues -> Nat]          _jobCount, counts before _jobs holds
  jobs,       \* [Queues -> Seq(Jobs)]    _jobs
  global,     \* Seq(Queues)              GGlobalQueue->_jobQueues
  phase,      \* per thread: "dispatch" (IOCP events and timers) or "global"
  late,       \* per thread: GetTickCount64() > LEndTickCount
  cur,        \* per thread: LCurrentJobQueue
  exec,       \* per thread: where its Execute() stands
  batch,      \* per thread: the part of the local vector jobs still to run
  size,       \* per thread: the local jobCount = jobs.size()
  running,    \* per thread: the job whose callback runs
  call,       \* per thread: its Push() call under way
  sent,       \* history: the jobs handed to Push
  done,       \* history, per queue: the jobs that have run, in order
  lost,       \* history, per queue: how many jobs ClearJobs threw away
  clears      \* history: how often ClearJobs was called

queueVars  == <<jobCount, jobs, global>>
workerVars == <<phase, late>>
execVars   == <<cur, exec, batch, size, running>>
history    == <<sent, done, lost, clears>>
vars == <<queueVars, workerVars, execVars, call, history>>

NoCall == [at |-> "none", queue |-> NoQueue, job |-> NoJob,
           first |-> FALSE, only |-> FALSE]

Calls == [at : {"none", "counted", "queued"}, queue : Queues \cup {NoQueue},
          job : Jobs \cup {NoJob}, first : BOOLEAN, only : BOOLEAN]

Init == /\ jobCount = [q \in Queues |-> 0]
        /\ jobs     = [q \in Queues |-> <<>>]
        /\ global   = <<>>
        /\ phase    = [t \in Threads |-> "dispatch"]
        /\ late     = [t \in Threads |-> FALSE]
        /\ cur      = [t \in Threads |-> NoQueue]
        /\ exec     = [t \in Threads |-> "none"]
        /\ batch    = [t \in Threads |-> <<>>]
        /\ size     = [t \in Threads |-> 0]
        /\ running  = [t \in Threads |-> NoJob]
        /\ call     = [t \in Threads |-> NoCall]
        /\ sent     = {}
        /\ done     = [q \in Queues |-> <<>>]
        /\ lost     = [q \in Queues |-> 0]
        /\ clears   = 0

-----------------------------------------------------------------------------
(* JobQueue::Push *)

\* User code runs on t: an IOCP handler or a due timer, or a job's callback.
InUserCode(t) == /\ call[t].at = "none"
                 /\ \/ running[t] # NoJob
                    \/ phase[t] = "dispatch" /\ cur[t] = NoQueue

\* prevCount = _jobCount.fetch_add(1)
BeginPush(t, q, j, pushOnly) ==
  /\ InUserCode(t)
  /\ j \notin sent
  /\ jobCount' = [jobCount EXCEPT ![q] = @ + 1]
  /\ call' = [call EXCEPT ![t] = [at |-> "counted", queue |-> q, job |-> j,
                                  first |-> jobCount[q] = 0, only |-> pushOnly]]
  /\ sent' = sent \cup {j}
  /\ UNCHANGED <<jobs, global, workerVars, execVars, done, lost, clears>>

\* _jobs.Push(job); a push that found prevCount # 0 returns here
Enqueue(t) ==
  /\ call[t].at = "counted"
  /\ jobs' = [jobs EXCEPT ![call[t].queue] = Append(@, call[t].job)]
  /\ call' = [call EXCEPT ![t] = IF @.first THEN [@ EXCEPT !.at = "queued"]
                                            ELSE NoCall]
  /\ UNCHANGED <<jobCount, global, workerVars, execVars, history>>

RunsInline(t) == ~call[t].only /\ cur[t] = NoQueue

ExecuteInline(t) ==
  /\ call[t].at = "queued"
  /\ RunsInline(t)
  /\ cur'  = [cur EXCEPT ![t] = call[t].queue]
  /\ exec' = [exec EXCEPT ![t] = "pop"]
  /\ call' = [call EXCEPT ![t] = NoCall]
  /\ UNCHANGED <<queueVars, workerVars, batch, size, running, history>>

PushGlobal(t) ==
  /\ call[t].at = "queued"
  /\ ~RunsInline(t)
  /\ global' = Append(global, call[t].queue)
  /\ call' = [call EXCEPT ![t] = NoCall]
  /\ UNCHANGED <<jobCount, jobs, workerVars, execVars, history>>

-----------------------------------------------------------------------------
(* JobQueue::Execute, on the queue cur[t] *)

PopAll(t) ==
  /\ exec[t] = "pop"
  /\ batch' = [batch EXCEPT ![t] = jobs[cur[t]]]
  /\ size'  = [size EXCEPT ![t] = Len(jobs[cur[t]])]
  /\ jobs'  = [jobs EXCEPT ![cur[t]] = <<>>]
  /\ exec'  = [exec EXCEPT ![t] = "run"]
  /\ UNCHANGED <<jobCount, global, workerVars, cur, running, call, history>>

\* Mutant: the batch is run from its end.
StartLastJob(t) ==
  /\ exec[t] = "run" /\ running[t] = NoJob
  /\ batch[t] # <<>>
  /\ running' = [running EXCEPT ![t] = batch[t][Len(batch[t])]]
  /\ batch'   = [batch EXCEPT ![t] = SubSeq(@, 1, Len(@) - 1)]
  /\ UNCHANGED <<queueVars, workerVars, cur, exec, size, call, history>>

StartJob(t) ==
  /\ exec[t] = "run" /\ running[t] = NoJob
  /\ batch[t] # <<>>
  /\ running' = [running EXCEPT ![t] = Head(batch[t])]
  /\ batch'   = [batch EXCEPT ![t] = Tail(@)]
  /\ UNCHANGED <<queueVars, workerVars, cur, exec, size, call, history>>

FinishJob(t) ==
  /\ running[t] # NoJob /\ call[t].at = "none"
  /\ done' = [done EXCEPT ![cur[t]] = Append(@, running[t])]
  /\ running' = [running EXCEPT ![t] = NoJob]
  /\ UNCHANGED <<queueVars, workerVars, cur, exec, batch, size, call,
                 sent, lost, clears>>

\* Mutant: leave when _jobs is empty, although a Push may be on its way to it.
SettleOnEmptyList(t) ==
  /\ exec[t] = "run" /\ running[t] = NoJob
  /\ batch[t] = <<>>
  /\ jobCount' = [jobCount EXCEPT ![cur[t]] = @ - size[t]]
  /\ size' = [size EXCEPT ![t] = 0]
  /\ IF jobs[cur[t]] = <<>>
       THEN /\ cur'  = [cur EXCEPT ![t] = NoQueue]
            /\ exec' = [exec EXCEPT ![t] = "none"]
       ELSE /\ exec' = [exec EXCEPT ![t] = "recheck"]
            /\ UNCHANGED cur
  /\ UNCHANGED <<jobs, global, workerVars, batch, running, call, history>>

\* Mutant: one job is taken off _jobCount, whatever the batch held.
SettleOne(t) ==
  /\ exec[t] = "run" /\ running[t] = NoJob
  /\ batch[t] = <<>>
  /\ jobCount' = [jobCount EXCEPT ![cur[t]] = @ - 1]
  /\ size' = [size EXCEPT ![t] = 0]
  /\ IF jobCount[cur[t]] = 1
       THEN /\ cur'  = [cur EXCEPT ![t] = NoQueue]
            /\ exec' = [exec EXCEPT ![t] = "none"]
       ELSE /\ exec' = [exec EXCEPT ![t] = "recheck"]
            /\ UNCHANGED cur
  /\ UNCHANGED <<jobs, global, workerVars, batch, running, call, history>>

\* _jobCount.fetch_sub(jobCount) == jobCount: nobody pushed meanwhile, leave
Settle(t) ==
  /\ exec[t] = "run" /\ running[t] = NoJob
  /\ batch[t] = <<>>
  /\ jobCount' = [jobCount EXCEPT ![cur[t]] = @ - size[t]]
  /\ size' = [size EXCEPT ![t] = 0]
  /\ IF jobCount[cur[t]] = size[t]
       THEN /\ cur'  = [cur EXCEPT ![t] = NoQueue]
            /\ exec' = [exec EXCEPT ![t] = "none"]
       ELSE /\ exec' = [exec EXCEPT ![t] = "recheck"]
            /\ UNCHANGED cur
  /\ UNCHANGED <<jobs, global, workerVars, batch, running, call, history>>

GoOn(t) ==
  /\ exec[t] = "recheck"
  /\ ~late[t]
  /\ exec' = [exec EXCEPT ![t] = "pop"]
  /\ UNCHANGED <<queueVars, workerVars, cur, batch, size, running, call, history>>

\* Mutant: out of time, Execute returns without giving the queue to anybody.
HandOverToNobody(t) ==
  /\ exec[t] = "recheck"
  /\ late[t]
  /\ cur'  = [cur EXCEPT ![t] = NoQueue]
  /\ exec' = [exec EXCEPT ![t] = "none"]
  /\ UNCHANGED <<queueVars, workerVars, batch, size, running, call, history>>

\* the thread's 64 ms are over: hand the queue to whoever comes next
HandOver(t) ==
  /\ exec[t] = "recheck"
  /\ late[t]
  /\ global' = Append(global, cur[t])
  /\ cur'  = [cur EXCEPT ![t] = NoQueue]
  /\ exec' = [exec EXCEPT ![t] = "none"]
  /\ UNCHANGED <<jobCount, jobs, workerVars, batch, size, running, call, history>>

\* JobQueue::ClearJobs, from any thread: _jobs.Clear() and nothing else
ClearJobs(q) ==
  /\ clears < MaxClears
  /\ clears' = clears + 1
  /\ lost' = [lost EXCEPT ![q] = @ + Len(jobs[q])]
  /\ jobs' = [jobs EXCEPT ![q] = <<>>]
  /\ UNCHANGED <<jobCount, global, workerVars, execVars, call, sent, done>>

-----------------------------------------------------------------------------
(* The worker loop: DoWorkerJob and ThreadManager::DoGlobalQueueWork *)

AtLoopLevel(t) == cur[t] = NoQueue /\ call[t].at = "none"

\* Dispatch and DistributeReservedJobs have returned
LeaveDispatch(t) ==
  /\ phase[t] = "dispatch" /\ AtLoopLevel(t)
  /\ phase' = [phase EXCEPT ![t] = "global"]
  /\ UNCHANGED <<queueVars, late, execVars, call, history>>

\* one turn of DoGlobalQueueWork: in time, Pop() is a queue, Execute() begins
PopGlobal(t) ==
  /\ phase[t] = "global" /\ AtLoopLevel(t)
  /\ ~late[t]
  /\ global # <<>>
  /\ global' = Tail(global)
  /\ cur'  = [cur EXCEPT ![t] = Head(global)]
  /\ exec' = [exec EXCEPT ![t] = "pop"]
  /\ UNCHANGED <<jobCount, jobs, workerVars, batch, size, running, call, history>>

\* DoGlobalQueueWork breaks out of its loop; DoWorkerJob renews LEndTickCount
Renew(t) ==
  /\ phase[t] = "global" /\ AtLoopLevel(t)
  /\ late[t] \/ global = <<>>
  /\ phase' = [phase EXCEPT ![t] = "dispatch"]
  /\ late'  = [late EXCEPT ![t] = FALSE]
  /\ UNCHANGED <<queueVars, execVars, call, history>>

\* time passes LEndTickCount of t, wherever t is
Expire(t) ==
  /\ ~late[t]
  /\ late' = [late EXCEPT ![t] = TRUE]
  /\ UNCHANGED <<queueVars, phase, execVars, call, history>>

-----------------------------------------------------------------------------
FinishPush(t) == Enqueue(t) \/ ExecuteInline(t) \/ PushGlobal(t)
Execute(t) == \/ PopAll(t) \/ StartJob(t) \/ FinishJob(t)
              \/ Settle(t) \/ GoOn(t) \/ HandOver(t)
Loop(t) == LeaveDispatch(t) \/ PopGlobal(t) \/ Renew(t)

Next ==
  \/ \E t \in Threads :
       \/ \E q \in Queues, j \in Jobs, pushOnly \in BOOLEAN :
            BeginPush(t, q, j, pushOnly)
       \/ FinishPush(t)
       \/ Execute(t)
       \/ Loop(t)
       \/ Expire(t)
  \/ \E q \in Queues : ClearJobs(q)

Spec == Init /\ [][Next]_vars

(* A thread that can take a step of its own does: the OS schedules every    *)
(* thread.  Nothing obliges user code to push or time to run out, and a     *)
(* thread finds the global queue in a state it can pop from only now and    *)
(* then (strong fairness of PopGlobal).                                     *)
Fairness == \A t \in Threads : /\ WF_vars(FinishPush(t))
                               /\ WF_vars(Execute(t))
                               /\ WF_vars(Loop(t))
                               /\ SF_vars(PopGlobal(t))

FairSpec == Spec /\ Fairness

-----------------------------------------------------------------------------
(* Properties *)

(* The variables have their types; _jobCount, an int32 that Execute lowers   *)
(* by what it believes to have run, never becomes negative.                *)
TypeOK ==
  /\ jobCount \in [Queues -> Nat]
  /\ jobs     \in [Queues -> Seq(Jobs)]
  /\ global   \in Seq(Queues)
  /\ phase    \in [Threads -> {"dispatch", "global"}]
  /\ late     \in [Threads -> BOOLEAN]
  /\ cur      \in [Threads -> Queues \cup {NoQueue}]
  /\ exec     \in [Threads -> {"none", "pop", "run", "recheck"}]
  /\ batch    \in [Threads -> Seq(Jobs)]
  /\ size     \in [Threads -> Nat]
  /\ running  \in [Threads -> Jobs \cup {NoJob}]
  /\ call     \in [Threads -> Calls]
  /\ sent     \subseteq Jobs
  /\ done     \in [Queues -> Seq(Jobs)]
  /\ lost     \in [Queues -> Nat]
  /\ clears   \in 0..MaxClears

\* The threads inside a Push that found the queue empty: each of them owes
\* the queue an Execute or an entry in the global queue.
FirstPush(t, q) == call[t].at # "none" /\ call[t].first /\ call[t].queue = q

\* The threads whose Push has raised _jobCount but not yet filled _jobs.
Counted(q) == {t \in Threads : call[t].at = "counted" /\ call[t].queue = q}

\* The threads that execute q.
Executor(q) == {t \in Threads : cur[t] = q}

InGlobal(q) == \E i \in 1..Len(global) : global[i] = q

(* No two threads ever run jobs of the same queue: what lets Lobby and Room *)
(* touch their members without a lock (JobQueue::Push and Execute).         *)
SingleExecutor ==
  \A t, u \in Threads : cur[t] = cur[u] /\ cur[t] # NoQueue => t = u

\* t will see to q: it executes q, or its Push found q empty.
Holds(t, q) == FirstPush(t, q) \/ cur[t] = q

HeldOnce(q) ==
  /\ jobCount[q] > 0 <=> InGlobal(q) \/ \E t \in Threads : Holds(t, q)
  /\ \A t, u \in Threads : Holds(t, q) /\ Holds(u, q) => t = u
  /\ \A t \in Threads : ~(FirstPush(t, q) /\ cur[t] = q)
  /\ InGlobal(q) => \A t \in Threads : ~Holds(t, q)

NoDuplicates ==
  \A i, k \in 1..Len(global) : global[i] = global[k] => i = k

(* A queue with a positive _jobCount has exactly one holder, that will see  *)
(* to its jobs: a thread that executes it, a Push that found it empty and   *)
(* has still to act, or one entry in the global queue; a queue with         *)
(* _jobCount = 0 has none.  No job is ever left with nobody to run it, and  *)
(* no queue is run by two (JobQueue::Push and Execute).                     *)
OneHolder == NoDuplicates /\ \A q \in Queues : HeldOnce(q)

BatchSize(q) == IF Executor(q) = {} THEN 0 ELSE size[CHOOSE t \in Executor(q) : TRUE]

(* _jobCount is exact, through every window between the counter and the     *)
(* list: the jobs in _jobs, those counted and about to be put there, those  *)
(* of the batch that Execute has not settled, and those ClearJobs dropped   *)
(* without taking them off the counter.                                     *)
CountExact ==
  \A q \in Queues :
    jobCount[q] = Len(jobs[q]) + Cardinality(Counted(q)) + BatchSize(q) + lost[q]

\* The jobs of a queue that have still to start, and the one that runs.
PendingJobs == [q \in Queues |->
  IF Executor(q) = {} THEN jobs[q]
                      ELSE batch[CHOOSE t \in Executor(q) : TRUE] \o jobs[q]]

BusyJob == [q \in Queues |->
  IF Executor(q) = {} THEN NoJob ELSE running[CHOOSE t \in Executor(q) : TRUE]]

(* The queues implement the mailbox: jobs of one queue run one at a time,   *)
(* each once, in the order of the _jobs.Push calls, and ClearJobs takes     *)
(* away waiting jobs only, the last ones first.                             *)
M == INSTANCE Mailbox WITH pending <- PendingJobs, busy <- BusyJob, served <- done

ImplementsMailbox == M!MailboxSpec

(* Every job handed to Push runs, if some worker reaches the global queue   *)
(* within its 64 ms again and again, and nobody ever calls ClearJobs        *)
(* (JobQueue::Push, Execute, DoGlobalQueueWork).                            *)
SomeWorkerInTime == \E t \in Threads : []<>(phase[t] = "global" /\ ~late[t])

HasRun(j) == \E q \in Queues : \E i \in 1..Len(done[q]) : done[q][i] = j

EveryJobRuns ==
  SomeWorkerInTime /\ [](clears = 0) => \A j \in Jobs : (j \in sent) ~> HasRun(j)
=============================================================================
