---------------------------- MODULE MCDownloadBans ----------------------------
(* Instances of DownloadBans for TLC: requests, and addresses, are            *)
(* interchangeable.  Symmetry is used in runs without temporal properties.    *)
EXTENDS DownloadBans, TLC

Symmetry == Permutations(Requests) \cup Permutations(Addresses)
=============================================================================
