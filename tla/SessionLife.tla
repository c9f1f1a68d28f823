----------------------------- MODULE SessionLife -----------------------------
(***************************************************************************)
(* What a ServerCore Session and its Service promise whoever has the       *)
(* session, with no thread, event or kernel in sight: a life that goes one *)
(* way.  It is opened, then listed in the service, closed once, by whoever *)
(* is first, and only then released from the service, once and for good.   *)
(***************************************************************************)
VARIABLES phase,  \* "new", "open", "closed" or "released"
          listed  \* Broadcast and the others find the session in the service

life == <<phase, listed>>

LifeInit == phase = "new" /\ ~listed

Open == phase = "new" /\ phase' = "open" /\ UNCHANGED listed

List == phase = "open" /\ ~listed /\ listed' /\ UNCHANGED phase

Close == phase = "open" /\ listed /\ phase' = "closed" /\ UNCHANGED listed

Release == phase = "closed" /\ listed /\ phase' = "released" /\ ~listed'

LifeNext == Open \/ List \/ Close \/ Release

LifeSpec == LifeInit /\ [][LifeNext]_life
=============================================================================
