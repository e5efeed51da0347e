------------------------------ MODULE MCAccess ------------------------------
(* Access on small instances: requests are alike.                           *)
EXTENDS Access, TLC

Symmetry == Permutations(Requests)
=============================================================================
