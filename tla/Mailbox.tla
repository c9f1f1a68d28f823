------------------------------- MODULE Mailbox -------------------------------
(***************************************************************************)
(* What ServerCore's JobQueue promises its users, with no thread, counter  *)
(* or lock in sight: each queue is a mailbox whose jobs run one at a time, *)
(* in the order in which they were put in, each at most once.  Jobs that   *)
(* wait may be thrown away from the back (JobQueue::ClearJobs).            *)
(***************************************************************************)
EXTENDS Naturals, Sequences

CONSTANTS Queues, Jobs, NoJob

VARIABLES pending,  \* the jobs that wait, oldest first
          busy,     \* the job that runs, or NoJob
          served    \* the jobs that have run, in order

mailboxVars == <<pending, busy, served>>

MInit == /\ pending = [q \in Queues |-> <<>>]
         /\ busy    = [q \in Queues |-> NoJob]
         /\ served  = [q \in Queues |-> <<>>]

Send(q, j) == /\ pending' = [pending EXCEPT ![q] = Append(@, j)]
              /\ UNCHANGED <<busy, served>>

Start(q) == /\ busy[q] = NoJob
            /\ pending[q] # <<>>
            /\ busy'    = [busy EXCEPT ![q] = Head(pending[q])]
            /\ pending' = [pending EXCEPT ![q] = Tail(@)]
            /\ UNCHANGED served

Finish(q) == /\ busy[q] # NoJob
             /\ served' = [served EXCEPT ![q] = Append(@, busy[q])]
             /\ busy'   = [busy EXCEPT ![q] = NoJob]
             /\ UNCHANGED pending

Discard(q) == /\ \E n \in 0..Len(pending[q]) :
                    pending' = [pending EXCEPT ![q] = SubSeq(@, 1, n)]
              /\ UNCHANGED <<busy, served>>

MNext == \E q \in Queues : \/ \E j \in Jobs : Send(q, j)
                           \/ Start(q)
                           \/ Finish(q)
                           \/ Discard(q)

MailboxSpec == MInit /\ [][MNext]_mailboxVars
=============================================================================
