----------------------------- MODULE MCJobQueue -----------------------------
(* Instance of JobQueue for TLC.  Jobs are alike: they are named in the      *)
(* order in which they are handed to Push, which leaves out nothing but      *)
(* renamings (a symmetry set would not do, with a liveness property).        *)
EXTENDS JobQueue

NamedInOrder == \A j \in sent' \ sent : j = CHOOSE k \in Jobs : k \notin sent

MCNext == Next /\ NamedInOrder

MCSpec == Init /\ [][MCNext]_vars /\ Fairness
=============================================================================
