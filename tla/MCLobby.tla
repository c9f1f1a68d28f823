------------------------------ MODULE MCLobby -------------------------------
(* Instances of Lobby for TLC. *)
EXTENDS Lobby, TLC

AnyAlike == Permutations(Clients) \cup Permutations(Rooms \ {First})
=============================================================================
