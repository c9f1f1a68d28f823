----------------------------- MODULE CycleSearch -----------------------------
(* CheckCycle of DeadLockProfiler: a depth-first search for a cycle in the  *)
(* history, a function from each id to the ids taken right after it.        *)
EXTENDS Integers, Sequences, SequencesExt

\* Depth-first search from an id; the search remembers the order of
\* discovery, -1 for none, which ids are finished, and whether it crashed.
RECURSIVE Dfs(_, _, _)

Dfs(edges, search, here) ==
  LET visit(sofar, there) ==
        IF sofar.found THEN sofar
        ELSE IF sofar.order[there] = -1 THEN Dfs(edges, sofar, there)
        ELSE [sofar EXCEPT !.found = /\ sofar.order[there] < sofar.order[here]
                                     /\ ~sofar.finished[there]]
      begun == [search EXCEPT !.order[here] = search.count, !.count = @ + 1]
      ended == FoldLeft(visit, begun, SetToSortSeq(edges[here], <))
  IN  IF search.order[here] = -1 THEN search
      ELSE [ended EXCEPT !.finished[here] = ~ended.found]

\* CheckCycle ends in CRASH("DEADLOCK_DETECTED").
CheckCycleCrashes(edges) ==
  LET ids   == DOMAIN edges
      start == [order |-> [i \in ids |-> -1], count |-> 0,
                finished |-> [i \in ids |-> FALSE], found |-> FALSE]
  IN  FoldLeft(LAMBDA search, i : IF search.found THEN search ELSE Dfs(edges, search, i),
               start, [i \in ids |-> i]).found
=============================================================================
