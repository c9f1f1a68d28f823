----------------------------- MODULE MCServices -----------------------------
(* JobTimer, Memory and DBConnectionPool for TLC.  The three share no       *)
(* state, so one run goes through the behaviours of each: side, chosen at   *)
(* the start, is the one that moves.                                        *)
EXTENDS JobTimer, Memory, DBConnectionPool, TLC

CONSTANTS t1, t2, q1, q2, j1, j2, j3

VARIABLE side

\* Two jobs of one queue and one of another; j1 was made by DoTimer of a
\* member function, the others of a callback.
MCOwnerOf   == (j1 :> q1) @@ (j2 :> q1) @@ (j3 :> q2)
MCBoundJobs == {j1}

MCObjectSize == "Job" :> 96

MCShapes == {<<2, 0>>, <<1, 2>>}

ServicesInit ==
  Init /\ MemoryInit /\ DBInit /\ side \in {"timer", "memory", "database"}

ServicesNext ==
  \/ side = "timer"    /\ Next       /\ UNCHANGED <<memoryVars, dbVars, side>>
  \/ side = "memory"   /\ MemoryNext /\ UNCHANGED <<vars, dbVars, side>>
  \/ side = "database" /\ DBNext     /\ UNCHANGED <<vars, memoryVars, side>>

\* JobTimer's fairness, where it is the one that moves
ServicesSpec ==
  /\ ServicesInit /\ [][ServicesNext]_<<vars, memoryVars, dbVars, side>>
  /\ \A t \in Threads : /\ WF_vars(side = "timer" /\ PutItem(t))
                        /\ WF_vars(side = "timer" /\ Distribute(t))
  /\ WF_vars(side = "timer" /\ Tick)
=============================================================================
