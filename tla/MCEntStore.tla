------------------------------ MODULE MCEntStore ------------------------------
(* Two goroutines and one table, in turn about a column of each kind.        *)
EXTENDS EntStore, TLC

About(name, column, left) == [name |-> name, columns |-> {column}, left |-> left]
MCFocus ==
  {About("Admin", "username", 2), About("AuditEvent", "meta", 1),
   About("IpBan", "banned_until", 2), About("LoginFailureEvent", "happened_at", 1),
   About("Session", "admin_id", 1), About("Session", "language", 1),
   About("Share", "size", 1), About("Share", "expires_at", 1)}
Symmetry == Permutations(Workers)
===============================================================================
