---------------------------- MODULE MCUserToken ----------------------------
(* CUserToken for TLC: two packets of three and four bytes, in either order. *)
EXTENDS CUserToken, TLC

TwoPackets == {<<3, 7>>, <<4, 7>>}

Symmetric == Permutations(Threads)
=============================================================================
