---------------------------- MODULE MCSendBuffer ----------------------------
(* Instances of SendBuffer for TLC. *)
EXTENDS SendBuffer, TLC

(* Nothing in SendBuffer tells threads, chunks or buffers apart. *)
Symmetry == Permutations(Thread) \union Permutations(Chunk) \union Permutations(Buffer)
=============================================================================
