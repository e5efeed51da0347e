----------------------------- MODULE MCStartup -----------------------------
(* Startup with two names, two passwords and the default one, and APP_SECRET   *)
(* set in one of its environments.                                            *)
EXTENDS Startup

CONSTANTS alice, bob, pw1, pw2, default

Env(user, pw, dev, own) == [user |-> user, pw |-> pw, dev |-> dev, own |-> own]

MCConfigs ==
  {Env(alice, pw1, FALSE, FALSE), Env(alice, pw2, FALSE, FALSE), Env(bob, pw2, FALSE, TRUE),
   Env(bob, default, FALSE, FALSE), Env(alice, pw2, TRUE, FALSE)}

\* A new database, and one of a release that hashed the plain password.
MCInstalled ==
  {[u \in {alice, bob} |-> NoAccount],
   [u \in {alice, bob} |-> IF u = alice THEN [pw |-> pw1, format |-> "legacy"] ELSE NoAccount]}
=============================================================================
