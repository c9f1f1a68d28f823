------------------------- MODULE MCDeadLockProfiler -------------------------
(* Instances of DeadLockProfiler, with the search of CheckCycle, for TLC. *)
EXTENDS DeadLockProfiler, CycleSearch, TLC

CONSTANTS la, lb, lc

\* every lock has a class of its own; the names are what tells them apart
OwnNames == [l \in {la, lb, lc} |-> l]

ThreadSymmetry == Permutations(LockThreads) \cup Permutations(Locks)
=============================================================================
