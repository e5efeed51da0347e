---------------------------- MODULE MCShareServer ----------------------------
(* ShareServer on small instances; the .cfg files say which.               *)
EXTENDS ShareServer, TLC

\* Ids that differ only by name, and goroutines of one kind, are alike.
Symmetry == Permutations(Ids \ Legacy) \cup Permutations(Uploaders)
=============================================================================
