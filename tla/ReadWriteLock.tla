---------------------------- MODULE ReadWriteLock ----------------------------
(***************************************************************************)
(* What ServerCore's Lock promises a class that takes guards of one kind   *)
(* from outside, with no word, counter or loop in sight: threads nest      *)
(* guards and end the newest first, a write guard is got only while nobody *)
(* else is in, and a read guard only while nobody else writes.             *)
(***************************************************************************)
EXTENDS Naturals, Sequences

CONSTANT Threads

VARIABLE guards  \* each thread's guards, "w" or "r", the newest last

Writes(t) == \E i \in 1..Len(guards[t]) : guards[t][i] = "w"

RWInit == guards = [t \in Threads |-> <<>>]

TakeWriteGuard(t) == /\ \A u \in Threads \ {t} : guards[u] = <<>>
                     /\ guards' = [guards EXCEPT ![t] = Append(@, "w")]

TakeReadGuard(t) == /\ \A u \in Threads \ {t} : ~Writes(u)
                    /\ guards' = [guards EXCEPT ![t] = Append(@, "r")]

EndGuard(t) == /\ guards[t] # <<>>
               /\ guards' = [guards EXCEPT ![t] = SubSeq(@, 1, Len(@) - 1)]

RWNext == \E t \in Threads : TakeWriteGuard(t) \/ TakeReadGuard(t) \/ EndGuard(t)

ReadWriteSpec == RWInit /\ [][RWNext]_guards
=============================================================================
